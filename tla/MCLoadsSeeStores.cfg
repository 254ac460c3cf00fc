CONSTANTS
    ITEM_NUM = 2
    PACKET_SIZE = 2
    PAGES = 8
    Gpr <- MCGpr
    InsnOf <- MCInsnOf
    Images <- MCImages
    Programs <- MCPrograms
SPECIFICATION Spec
CHECK_DEADLOCK FALSE
PROPERTIES LoadsSeeStores
