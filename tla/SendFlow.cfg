SPECIFICATION FairSpec
CONSTANTS
    Null = Null
    a1 = a1
    a2 = a2
    c1 = c1
    c2 = c2
    y = y
    x = x
    s1 = s1
    s2 = s2
    Accounts = {a1, a2}
    Coins = {c1, c2}
    Owner <- MCOwner
    Confs <- MCConfs
    Coinbase = {c2}
    Payments = {x, y}
    Needs <- MCNeeds
    Backends = {"blockbook", "api"}
    Slots = {s1, s2}
    Strays = 1
INVARIANTS SentIsOnTheNode NothingUnapproved BusyIsInFlight 
PROPERTIES ScreenSettles
CHECK_DEADLOCK FALSE
