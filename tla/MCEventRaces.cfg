CONSTANTS
    main = main
    t1 = t1
    e1 = e1
    e2 = e2
    h1 = h1
    h2 = h2
    Free = Free
    NoName = NoName
    Thread = {main, t1}
    Event <- MCEvent
    Handler <- MCHandler
    Reentrant = {h2}
    CallsOf <- MCCallsOf
SPECIFICATION Spec
CHECK_DEADLOCK FALSE
CONSTRAINT RootsAreNamed
PROPERTIES ImplementsRegistry
