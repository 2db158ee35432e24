\* A barrier followed by a release: both order, together they should.
CONSTANTS
  GridSize = 2
  BlockSize = 2
  SubgroupSize = 1
  ClusterSize = 1
  Keys <- LaunchKeys
  AccessSites <- LaunchSites
  FenceSites <- LaunchFences
  BarrierScopes = {"Subgroup", "Block", "Cluster", "Device"}
  MaxSeq = 10
  MaxBarriers = 3
  Scripts <- RelayScripts
  StepBound = 6
SPECIFICATION LaunchSpec
INVARIANT RefusedIsRacy
CHECK_DEADLOCK FALSE
