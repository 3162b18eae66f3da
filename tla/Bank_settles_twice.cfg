\* The engine restarts while a change waits in w.ch.
SPECIFICATION Spec
CONSTANTS
    Owners <- OneUser
    Rows <- OneUser
    Deposit = 2
    Requests <- OneRequest
    FaultKinds = {"ome"}
    MaxRequests = 1
    MaxTrades = 1
    ChanCap = 1
    BatchMax = 2
    MaxFaults = 1
INVARIANTS
    SettledOnce
CHECK_DEADLOCK FALSE
