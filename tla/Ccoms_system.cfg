\* Two banks and the engine.
SPECIFICATION FairSpec
CONSTANTS
    Owners <- TwoUsers
    Deposit = 4
    Requests <- FourRequests
    Unit = 2
    Fee = 1
    MaxOrders = 4
INVARIANTS
    TypeOK
    SystemInv
    FrozenCovers
    TradesHonourRequests
PROPERTIES
    BanksAreLedgers
    OrdersReachTheBook
    TradesSettledInBothBanks
CHECK_DEADLOCK FALSE
