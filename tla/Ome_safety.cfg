\* Three tickets on either side, two faults anywhere: one exchange.
SPECIFICATION Spec
CONSTANTS
    Exp = 2
    Requests <- TwoRequests
    MaxTickets = 3
    ChanCap = 2
    BatchMax = 2
    MaxFaults = 2
INVARIANTS
    TypeOK
    LogIDsAreLineNumbers
    TicketsInOrder
    OrderIDsInOrder
    NoGapInChannel
    MySQLIsPrefix
    BookIsLog
    AskTimePriority
PROPERTIES
    ImplementsExchange
CHECK_DEADLOCK FALSE
