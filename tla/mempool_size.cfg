SPECIFICATION Spec
CONSTANTS
    ITEM_CNT = 5
    SIZE_MAX = 6
    NULL = NULL
INVARIANTS
    SizeIsNumberOfAllocated
