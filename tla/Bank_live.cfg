\* Every request and, as far as the stream gets, every trade.
SPECIFICATION FairSpec
CONSTANTS
    Owners <- OneUser
    Rows <- OneUser
    Deposit = 2
    Requests <- OneRequest
    FaultKinds = {"crash", "torn", "tx", "redeliver", "ome"}
    MaxRequests = 2
    MaxTrades = 2
    ChanCap = 2
    BatchMax = 2
    MaxFaults = 2
INVARIANTS
    SettledInOrder
PROPERTIES
    RequestsReachMySQL
    SettledUnlessStuck
CHECK_DEADLOCK FALSE
