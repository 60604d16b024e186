\* The algorithms around the trees against reference definitions.
SPECIFICATION Spec
CONSTANTS
  MAXV = 3
  BYTE = 2
  MaxItems = 5
  MaxKey = 3
  MaxIntervals = 4
  MaxDims = 3
  MaxTreeRules = 2
  MaxRules = 3
  MaxTrees = 3
  MaxPriority = 2
INVARIANTS
  ResortRestoresOrder
  ScoreBounds
  ResolveIsStable
  EarlyStopExact
  MasksAreCommonPrefix
  SplitMatchesExactly
  PacketsMatchTheirRule
  PrintParseRoundTrip
  
\* A state is one input; nothing follows it.
CHECK_DEADLOCK FALSE
