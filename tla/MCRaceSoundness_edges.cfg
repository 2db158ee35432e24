\* Release and acquire, an acquire fence and no barrier: three one-thread blocks pass one element through a flag.
CONSTANTS
  GridSize = 3
  BlockSize = 1
  SubgroupSize = 1
  ClusterSize = 3
  Keys <- EdgeKeys
  AccessSites <- EdgeSites
  FenceSites <- EdgeFences
  BarrierScopes = {}
  MaxSeq = 5
  MaxBarriers = 0
SPECIFICATION Spec
INVARIANT SoundInv
INVARIANT RaceFree
INVARIANT Precise
CHECK_DEADLOCK FALSE
