\* All kinds of faults.
SPECIFICATION Spec
CONSTANTS
    Owners <- TwoUsers
    Rows <- TwoUsers
    Deposit = 2
    Requests <- TwoRequests
    FaultKinds = {"crash", "torn", "tx", "late", "swallow", "redeliver", "drop", "ome"}
    MaxRequests = 2
    MaxTrades = 2
    ChanCap = 2
    BatchMax = 2
    MaxFaults = 2
INVARIANTS
    RequestsAtMostOnce
    AssetsAreLog
    MySQLIsPrefix
CHECK_DEADLOCK FALSE
