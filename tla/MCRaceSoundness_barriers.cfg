\* Barriers of every scope and no edge: two blocks of two threads, each block one subgroup and one cluster.
CONSTANTS
  GridSize = 2
  BlockSize = 2
  SubgroupSize = 2
  ClusterSize = 1
  Keys <- BarrierKeys
  AccessSites <- BarrierSites
  FenceSites = {}
  BarrierScopes = {"Subgroup", "Block", "Cluster", "Device"}
  MaxSeq = 3
  MaxBarriers = 2
SPECIFICATION Spec
INVARIANT TypeOK
INVARIANT RaceFree
INVARIANT Precise
CHECK_DEADLOCK FALSE
