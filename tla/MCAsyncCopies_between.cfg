\* Another thread touches the destination in between.
CONSTANTS
  GridSize = 1
  BlockSize = 2
  SubgroupSize = 2
  ClusterSize = 1
  Keys = {"s", "g"}
  AccessSites <- PlainSites
  Touches <- MCTouches
  FenceSites = {}
  BarrierScopes = {"Block"}
  MaxSeq = 4
  MaxBarriers = 2
  Shared = {"s"}
  Copies <- MCCopies
  Pendings = {0, 1}
  MaxCommits = 1
SPECIFICATION AsyncSpec
INVARIANT CannotTell
CHECK_DEADLOCK FALSE
