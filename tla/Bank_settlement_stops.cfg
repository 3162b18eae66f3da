\* The bank restarts once.
SPECIFICATION FairSpec
CONSTANTS
    Owners <- OneUser
    Rows <- OneUser
    Deposit = 2
    Requests <- OneRequest
    FaultKinds = {"crash"}
    MaxRequests = 1
    MaxTrades = 1
    ChanCap = 1
    BatchMax = 2
    MaxFaults = 1
PROPERTIES
    TradesAreSettled
CHECK_DEADLOCK FALSE
