\* Four blocks of a full subgroup and a partial one, in two clusters.
CONSTANTS
  GridSize = 4
  BlockSize = 3
  SubgroupSize = 2
  ClusterSize = 2
  Scripts <- AllScripts
  StepBound = 2
SPECIFICATION DriverSpec
INVARIANT DriverTypeOK
INVARIANT FinishedIsAligned
INVARIANT MismatchIsReal
INVARIANT EpochsCountPasses
INVARIANT LimitIsExact
PROPERTY Ends
CHECK_DEADLOCK FALSE
