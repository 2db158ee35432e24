\* A record read later replaces, for an acquire fence, one that knows more.  For a fence that drops what a
\* later one would take: OneFlag, TwoFences, FThenFences.  For a release to the block that replaces one to
\* the device: TwoScopes, {}, FThreeTimes.
CONSTANTS
  GridSize = 2
  BlockSize = 1
  SubgroupSize = 1
  ClusterSize = 2
  Keys <- FlagsKeys
  AccessSites <- TwoFlags
  FenceSites <- OneFence
  BarrierScopes = {}
  MaxSeq = 7
  MaxBarriers = 0
SPECIFICATION Spec
CONSTRAINT GThenF
INVARIANT Precise
CHECK_DEADLOCK FALSE
