------------------------------- MODULE Scopes -------------------------------
(***************************************************************************)
(* The execution hierarchy of a launch (exec.rs, oracle/kernel_sync.rs):   *)
(* threads in subgroups, subgroups in blocks, blocks in clusters, clusters *)
(* in the grid; what a scope contains; and the memory orders.              *)
(*                                                                         *)
(* A launch is one-dimensional here.  The code linearises its three axes   *)
(* before anything below looks at them (ThreadRun.lin, BlockRun.lin,       *)
(* cluster_of), so only the linear ids matter.  Clusters divide the one    *)
(* axis; of a launch with more they are boxes (cluster_of divides each     *)
(* axis), and no property depends on which blocks make up a cluster.       *)
(***************************************************************************)
EXTENDS Naturals

CONSTANTS
  GridSize,        \* blocks in the launch
  BlockSize,       \* threads in a block
  SubgroupSize,    \* lanes in a subgroup (pick_subgroup)
  ClusterSize      \* blocks in a cluster; GridSize when the launch has none

ASSUME LaunchAssumption ==
  /\ GridSize \in Nat \ {0}
  /\ BlockSize \in Nat \ {0}
  /\ SubgroupSize \in Nat \ {0}
  /\ ClusterSize \in Nat \ {0}
  /\ GridSize % ClusterSize = 0

-----------------------------------------------------------------------------
Blocks == 0 .. GridSize - 1

(* A thread is named by its block and its linear index in the block.       *)
Threads == Blocks \X (0 .. BlockSize - 1)

BlockOf(t) == t[1]

(* The subgroup of a thread, within its block.                             *)
SubOf(t) == t[2] \div SubgroupSize

(* The cluster of a block.  A launch without clusters has one, number 0.   *)
ClusterOfBlock(b) == b \div ClusterSize

ClusterOf(t) == ClusterOfBlock(t[1])

Subgroups == {SubOf(t) : t \in Threads}

Clusters == {ClusterOfBlock(b) : b \in Blocks}

-----------------------------------------------------------------------------
Scope == {"Thread", "Subgroup", "Block", "Cluster", "Device"}

(* How wide a scope is.                                                    *)
Width(s) == [Thread |-> 0, Subgroup |-> 1, Block |-> 2, Cluster |-> 3, Device |-> 4][s]

Narrower(a, b) == IF Width(a) <= Width(b) THEN a ELSE b

(* Whether a scope contains both threads.                                  *)
Contains(s, a, b) ==
  /\ s = "Thread"   => a = b
  /\ s = "Subgroup" => BlockOf(a) = BlockOf(b) /\ SubOf(a) = SubOf(b)
  /\ s = "Block"    => BlockOf(a) = BlockOf(b)
  /\ s = "Cluster"  => ClusterOf(a) = ClusterOf(b)

-----------------------------------------------------------------------------
Order == {"Relaxed", "Acquire", "Release", "AcqRel", "SeqCst"}

Releases(o) == o \in {"Release", "AcqRel", "SeqCst"}

Acquires(o) == o \in {"Acquire", "AcqRel", "SeqCst"}

=============================================================================
