\* The guarantees of the wait, the destination and the end of a launch.
CONSTANTS
  GridSize = 1
  BlockSize = 2
  SubgroupSize = 2
  ClusterSize = 1
  Keys = {"s", "g"}
  AccessSites <- PlainSites
  Touches <- MCTouches
  FenceSites = {}
  BarrierScopes = {"Block"}
  MaxSeq = 4
  MaxBarriers = 1
  Shared = {"s"}
  Copies <- MCCopies
  Pendings = {0, 1}
  MaxCommits = 2
SPECIFICATION AsyncSpec
INVARIANT FlightOrdered
INVARIANT WaitsCover
INVARIANT UntouchedCannotTell
CHECK_DEADLOCK FALSE
