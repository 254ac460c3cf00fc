CONSTANTS
    Orders <- MCOrders
    HANDLERS_SIZE = 80
    HANDLER_SIZE = 24
SPECIFICATION FairSpec
INVARIANTS TypeOK LogsAreOpen OneWriter
PROPERTIES InterruptsAreHandled ShutdownEnds
CHECK_DEADLOCK FALSE
