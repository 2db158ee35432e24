\* With longLo <- MCLo, longHi = 3 and the property AgreesWithInterpreter in place of the
\* invariant: counters as wide as a long long, one of which overflows.
CONSTANTS
  lo <- MCLo
  hi = 3
  Limit = 14
  longLo <- MCLongLo
  longHi = 15
  Launches <- MCLaunches
  GridSize = 2
  BlockSize = 2
  ClusterSize = 1
  Size = 2
  Arg = 1
SPECIFICATION SerialSpec
INVARIANTS OneTurnEach
CHECK_DEADLOCK FALSE
