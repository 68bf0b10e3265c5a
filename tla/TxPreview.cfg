SPECIFICATION Spec
CONSTANTS
    Null = Null
    Values <- MCValues
    Wallets <- MCWallets
    Amounts <- MCAmounts
    Rates = {0, 1001, 20000, 500000}
INVARIANTS PreviewIsSignable NetworkFeeIsBounded SelectionsAgree DebitIsItemised  
CHECK_DEADLOCK FALSE
