CONSTANTS
  lo <- MCLo
  hi = 3
  Limit = 14
  longLo <- MCLongLo
  longHi = 15
  Launches <- MCLaunches
  GridSize = 2
  BlockSize = 2
  ClusterSize = 1
  Size = 2
  Arg = 1
SPECIFICATION SerialSpec
PROPERTIES IsOneOrder LoopsEnd
CHECK_DEADLOCK FALSE
