SPECIFICATION Spec
CONSTANTS
  MAXV = 3
  D = 2
  MAX_DEGREE = 3
  PATH_COMPRESSION = TRUE
  BYTE = 1
  KEY_SIZE = 2
  MAX_TREE_CNT = 5
  TREE_FIXATION_THRESHOLD = 10
  MaxListed = 40
  MaxRemoved = 0
  Rules <- Overlapping
INVARIANTS
  TreesSorted
CHECK_DEADLOCK FALSE
