CONSTANTS
    TLB_SIZE = 3
    Vpn = {0, 1}
    Asid = {0, 1}
    Pfn = {0, 1}
    Los <- MCLos
SPECIFICATION Spec
PROPERTIES MissesRefill
