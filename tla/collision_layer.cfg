SPECIFICATION Spec
CONSTANTS
  MAXV = 3
  D = 4
  MAX_DEGREE = 3
  PATH_COMPRESSION = TRUE
  Rules <- PrefixRules
  Versions = {1, 2}
  MaxUpdated = 1
INVARIANT CollisionFound
CHECK_DEADLOCK FALSE
