SPECIFICATION FairSpec
CONSTANTS
    Null = Null
    p1 = p1
    p2 = p2
    h1 = h1
    h2 = h2
    Handlers = {h1, h2}
    Passwords = {p1, p2}
    Labels = {"Account N", "renamed"}
    DefaultLabel = "Account N"
    Ops <- RekeyOps
    Crashes = TRUE
    Boot <- BootTwo
    FirstNonce = 3
    MaxNonce = 3
INVARIANTS OneKeyOpensAll NoLostUpdate
PROPERTIES ImplementsAtomicVault EveryRequestAnswered
