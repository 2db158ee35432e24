\* Two blocks of two threads: phases around each rendezvous, messages between blocks, threads that do not meet.
CONSTANTS
  GridSize = 2
  BlockSize = 2
  SubgroupSize = 1
  ClusterSize = 1
  Keys <- LaunchKeys
  AccessSites <- LaunchSites
  FenceSites <- LaunchFences
  BarrierScopes = {"Subgroup", "Block", "Cluster", "Device"}
  MaxSeq = 10
  MaxBarriers = 3
  Scripts <- LaunchScripts
  StepBound = 6
SPECIFICATION LaunchSpec
INVARIANT FinishedIsCorrect
CHECK_DEADLOCK FALSE
