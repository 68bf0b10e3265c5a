SPECIFICATION Spec
CONSTANTS
    Null = Null
    p1 = p1
    p2 = p2
    h1 = h1
    h2 = h2
    Handlers = {h1, h2}
    Passwords = {p1, p2}
    Labels = {"Account N"}
    DefaultLabel = "Account N"
    Ops = {"ADD_ACCOUNT", "CHANGE_PASSWORD"}
    Crashes = FALSE
    Boot <- BootOne
    FirstNonce = 3
    MaxNonce = 3
SYMMETRY Slots
INVARIANTS OneKeyOpensAll
CHECK_DEADLOCK FALSE
