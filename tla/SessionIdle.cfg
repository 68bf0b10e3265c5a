SPECIFICATION FairSpec
CONSTANTS
    Null = Null
    Timeouts = {3}
    DefaultTimeout = 3
    SavedAtBoot = {3}
    Requests <- NoChange
    Abrupt = FALSE
PROPERTIES IdleWalletLocks
