\* Crashes, torn writes, failed transactions and redeliveries: one ledger.
SPECIFICATION Spec
CONSTANTS
    Owners <- TwoUsers
    Rows <- TwoUsers
    Deposit = 2
    Requests <- TwoRequests
    FaultKinds = {"crash", "torn", "tx", "redeliver"}
    MaxRequests = 2
    MaxTrades = 2
    ChanCap = 2
    BatchMax = 2
    MaxFaults = 2
INVARIANTS
    TypeOK
    RequestsOnceInOrder
    TicketIDsConsecutive
    AckedIsLogged
    LogInv
    SettledOnce
PROPERTIES
    ImplementsLedger
CHECK_DEADLOCK FALSE
