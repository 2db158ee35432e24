\* Two comments of kernel_sync.rs.  TLC stops at the first it refutes; leave that one out to see the other.
CONSTANTS
  GridSize = 2
  BlockSize = 2
  SubgroupSize = 1
  ClusterSize = 1
  Keys <- LaunchKeys
  AccessSites <- LaunchSites
  FenceSites <- LaunchFences
  BarrierScopes = {"Subgroup", "Block", "Cluster", "Device"}
  MaxSeq = 10
  MaxBarriers = 3
  Scripts <- CommentScripts
  StepBound = 6
SPECIFICATION LaunchSpec
PROPERTY ReplacementKnowsMore
INVARIANT ScopesShared
CHECK_DEADLOCK FALSE
