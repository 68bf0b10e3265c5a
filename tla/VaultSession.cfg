SPECIFICATION SessionSpec
CONSTANTS
    Null = Null
    p1 = p1
    p2 = p2
    h1 = h1
    h2 = h2
    Handlers = {h1, h2}
    Passwords = {p1}
    Labels = {"Account N"}
    DefaultLabel = "Account N"
    Ops <- AllOps
    Crashes = TRUE
    Boot <- BootAny
    FirstNonce = 3
    MaxNonce = 3
SYMMETRY Slots
INVARIANTS SessionAgrees
PROPERTIES SavedIsConfirmed
