SPECIFICATION Spec
CONSTANTS
    T = 2
    Keys = {1, 2, 3, 4, 5, 6}
    Vals = {v1, v2}
    Nodes = {1, 2, 3}
    NULL = NULL
INVARIANTS
    TypeOK
PROPERTIES
    ImplementsSortedMap
    OpTerminates
