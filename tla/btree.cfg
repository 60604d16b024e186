SPECIFICATION Spec
CONSTANTS
    T = 2
    Keys = {1, 2, 3, 4, 5, 6, 7, 8}
    Vals = {v}
    Nodes = {1, 2, 3, 4, 5, 6, 7, 8}
    NULL = NULL
INVARIANTS
    NodeBounds
    NoLeakBalanced
    SizeCountsKeys
    SuccIsNextKey
PROPERTIES
    ImplementsSortedMap
