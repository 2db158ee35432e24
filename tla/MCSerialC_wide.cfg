CONSTANTS
  lo = 0
  hi = 7
  Limit = 14
  longLo <- MCLo
  longHi = 3
  Launches <- MCWideLaunches
  GridSize = 2
  BlockSize = 2
  ClusterSize = 1
  Size = 2
  Arg = 1
SPECIFICATION SerialSpec
PROPERTIES AgreesWithInterpreter
CHECK_DEADLOCK FALSE
