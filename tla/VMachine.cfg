CONSTANTS
    SECOND = 6
    freq = 1
    RESET_VECTOR_PADDR = 4
    VMEMORY_SIZE = 5
    RomSizes = {0, 1, 2}
    LONG = 8
SPECIFICATION Spec
INVARIANTS TypeOK EndsByHostOrGuest EdgesFindTheMachine
PROPERTIES CyclesKeepDistance EdgesGoOn
CHECK_DEADLOCK FALSE
