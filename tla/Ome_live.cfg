\* Every ticket gets through.
SPECIFICATION FairSpec
CONSTANTS
    Exp = 2
    Requests <- TwoQuantities
    MaxTickets = 2
    ChanCap = 1
    BatchMax = 2
    MaxFaults = 2
INVARIANTS
    EngineInv
PROPERTIES
    TicketsReachMySQL
    LogReachesMySQL
CHECK_DEADLOCK FALSE
