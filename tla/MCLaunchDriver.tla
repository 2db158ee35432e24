--------------------------- MODULE MCLaunchDriver ---------------------------
(***************************************************************************)
(* A small instance of LaunchDriver for TLC: four blocks of three threads  *)
(* (a full subgroup and a partial one) in two clusters, and every launch   *)
(* whose threads run scripts of at most two or three statements from a     *)
(* few.  A statement's address (at) determines it, as in a kernel.         *)
(***************************************************************************)
EXTENDS LaunchDriver

Statement(op, scope, order, at) == [op |-> op, scope |-> scope, order |-> order, at |-> at]

Barrier(scope, at) == Statement("Barrier", scope, "Relaxed", at)

SeqsUpTo(S, n) == UNION {[1 .. m -> S] : m \in 0 .. n}

(* Within a block: barriers of its two scopes, two of them alike, and a    *)
(* collective, an MMA being one more rendezvous of a subgroup.             *)
BlockStatements ==
  {Barrier("Subgroup", 1), Barrier("Block", 2), Barrier("Block", 3),
   Statement("Collective", "Subgroup", "Relaxed", 4)}

(* The first block runs every script, the others end at once.              *)
BlockScripts ==
  {[t \in Threads |-> IF BlockOf(t) = 0 THEN by[t[2]] ELSE <<>>] :
     by \in [0 .. BlockSize - 1 -> SeqsUpTo(BlockStatements, 2)]}

(* Across blocks: the threads of a block alike, and the blocks of the last *)
(* cluster.                                                                *)
GridStatements == {Barrier("Block", 1), Barrier("Cluster", 2), Barrier("Device", 3)}

GridScripts ==
  {[t \in Threads |-> by[IF BlockOf(t) = 3 THEN 2 ELSE BlockOf(t)]] :
     by \in [0 .. 2 -> SeqsUpTo(GridStatements, 2)]}

(* The two clusters: an acquire, then possibly a loop that never ends, and *)
(* more statements than the limit.                                         *)
WaitStatements ==
  {Barrier("Cluster", 2), Statement("Atomic", "Device", "Acquire", 4),
   Statement("Spin", "Device", "Relaxed", 5)}

WaitScripts ==
  {[t \in Threads |-> by[ClusterOf(t)]] : by \in [Clusters -> SeqsUpTo(WaitStatements, 3)]}

AllScripts == BlockScripts \cup GridScripts \cup WaitScripts

=============================================================================
