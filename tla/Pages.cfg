SPECIFICATION FairSpec
CONSTANTS
    Null = Null
    a1 = a1
    a2 = a2
    q1 = q1
    q2 = q2
    t1 = t1
    other = other
    Accounts = {a1, a2}
    Queries = {q1, q2}
    Txids = {t1}
    Transactions <- MCTransactions
    MaxFetches = 3
    MaxQuotes = 1
INVARIANTS TypeOK SettledShowsItsKey 
PROPERTIES LookupRecovers 
CHECK_DEADLOCK FALSE
