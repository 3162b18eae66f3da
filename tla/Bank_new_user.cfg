\* A user without a row in balances.
SPECIFICATION Spec
CONSTANTS
    Owners <- OneUser
    Rows <- NoUsers
    Deposit = 2
    Requests <- OneRequest
    FaultKinds = {"crash"}
    MaxRequests = 1
    MaxTrades = 0
    ChanCap = 1
    BatchMax = 2
    MaxFaults = 1
INVARIANTS
    AssetsAreLog
CHECK_DEADLOCK FALSE
