\* A bid meets a cheaper ask.
SPECIFICATION Spec
CONSTANTS
    Owners <- TwoUsers
    Deposit = 4
    Requests <- FourRequests
    Unit = 2
    Fee = 1
    MaxOrders = 2
INVARIANTS
    OnlyFeesLeftFrozen
CHECK_DEADLOCK FALSE
