SPECIFICATION DeepSpec
CONSTANTS
    T = 2
    Keys = {1, 2, 3, 4, 5, 6, 7, 8, 9, 10, 11, 12}
    Vals = {v}
    Nodes = {1, 2, 3, 4, 5, 6, 7, 8, 9, 10}
    NULL = NULL
INVARIANTS
    ParentLinks
    RemoveNeverThrows
    PredUndoesSucc
PROPERTIES
    ImplementsSortedMap
