CONSTANTS
    Reader = {r1, r2}
    Type = {1, 2}
    MAX_DEVICES = 3
    BYTE = 3
    Free = Free
SPECIFICATION Spec
INVARIANTS TypeOK Snapshot IdsAreUnique
PROPERTIES MutexComesBack
