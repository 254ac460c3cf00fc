CONSTANTS
    BYTE = 4
    MEMORY_SIZE = 35
    KUSEG_OFFSET = 1
SPECIFICATION Walks
INVARIANTS UncachedIsOneToOne StoreThenLoad
