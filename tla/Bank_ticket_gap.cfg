\* A transaction is rolled back after its INSERT into the tickets.
SPECIFICATION Spec
CONSTANTS
    Owners <- OneUser
    Rows <- OneUser
    Deposit = 2
    Requests <- OneRequest
    FaultKinds = {"late", "crash"}
    MaxRequests = 3
    MaxTrades = 0
    ChanCap = 1
    BatchMax = 2
    MaxFaults = 2
INVARIANTS
    TicketIDsConsecutive
CHECK_DEADLOCK FALSE
