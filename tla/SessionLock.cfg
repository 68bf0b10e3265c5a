SPECIFICATION FairSpec
CONSTANTS
    Null = Null
    Timeouts = {1, 2, 3}
    DefaultTimeout = 2
    SavedAtBoot = {1, 3, Null}
    Requests <- Kinds
    Abrupt = TRUE
INVARIANTS StaysLocked DeadlinesAgree OnlyActivityDefers
PROPERTIES IdleDefaultLocks
