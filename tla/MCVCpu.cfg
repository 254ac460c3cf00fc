CONSTANTS
    BYTE = 4
    MEMORY_SIZE = 35
    KUSEG_OFFSET = 1
    GPR_COUNT = 3
    REGISTER_RA = 2
    RESET_VECTOR = 160
    InsnOf <- MCInsnOf
    BitOr <- MCBitOr
    Images <- MCImages
    Choices = {3, 4, 5, 6, 7, 8, 10, 12}
SPECIFICATION Spec
INVARIANTS TypeOK WritesInsideGprs LostLinkJumpsAway FetchedUncached
PROPERTIES ImplementsISA ImplementsFairISA FetchedIsExecuted
