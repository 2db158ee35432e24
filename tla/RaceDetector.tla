---------------------------- MODULE RaceDetector ----------------------------
(***************************************************************************)
(* The race detector of the launch interpreter: the access log             *)
(* (oracle/kernel_mem.rs), the release/acquire edges                       *)
(* (oracle/kernel_sync.rs) and the barrier counts that order accesses      *)
(* (oracle/kernel_launch.rs).                                              *)
(*                                                                         *)
(* One action per statement that reaches it: a plain or atomic access      *)
(* (note_global, log_shared), a fence, and the release of a barrier of     *)
(* each scope.  Values are left out: the detector never reads them.  The   *)
(* threads run in any order here; the order the driver runs them in is in  *)
(* LaunchDriver, and the two are put together in Launch.                   *)
(*                                                                         *)
(* Keys are memory elements.  A Shared element is one that only the        *)
(* threads of its block name; the rule applied to it is the same.          *)
(***************************************************************************)
EXTENDS Scopes

CONSTANTS
  Keys,           \* memory elements
  AccessSites,    \* the accesses a kernel may make: [key, kind, order, scope]
  FenceSites,     \* the fences: [order, scope]
  BarrierScopes,  \* the scopes its barriers may have
  MaxSeq          \* bound: accesses and fences in a launch (seq is a u64)

Kind == {"Read", "Write", "Atomic"}

Site == [key : Keys, kind : Kind, order : Order, scope : Scope]

ASSUME SitesAssumption ==
  /\ AccessSites \subseteq Site
  /\ FenceSites \subseteq [order : Order, scope : Scope]
  /\ BarrierScopes \subseteq Scope
  /\ MaxSeq \in Nat

VARIABLES
  seq,           \* Edges.seq: the last access sequence number given out
  know,          \* Edges.know: know[t][u] = 0 when u is absent from t's clock
  records,       \* Edges.records: at most one per releasing thread
  pending,       \* Edges.pending
  fenceRel,      \* Edges.fence_rel: {} when the thread has none
  acquired,      \* Edges.acquired
  devEpoch,      \* Edges.dev_epoch
  clusterEpoch,  \* Edges.cluster_epoch
  blockEpoch,    \* BlockMem.block_epoch, per block
  subEpoch,      \* BlockMem.sub_epoch, per block and subgroup
  log,           \* Log: writer is {} or one stamp
  rejected       \* the launch ended with KernelTrap::DataRace

edgeVars == <<know, records, pending, fenceRel, acquired>>
epochVars == <<devEpoch, clusterEpoch, blockEpoch, subEpoch>>
detectorVars == <<seq, edgeVars, epochVars, log, rejected>>

-----------------------------------------------------------------------------
Clock == [Threads -> Nat]

Record == [from : Threads, scope : Scope, clock : Clock]

Stamp == [thread : Threads, seq : Nat \ {0}, scope : Scope,
          blockEpoch : Nat, subEpoch : Nat, devEpoch : Nat, clusterEpoch : Nat]

Entry == [writer : SUBSET Stamp, atomics : SUBSET Stamp, readers : SUBSET Stamp]

EmptyEntry == [writer |-> {}, atomics |-> {}, readers |-> {}]

DetectorInit ==
  /\ seq = 0
  /\ know = [t \in Threads |-> [u \in Threads |-> 0]]
  /\ records = [k \in Keys |-> {}]
  /\ pending = [t \in Threads |-> {}]
  /\ fenceRel = [t \in Threads |-> {}]
  /\ acquired = FALSE
  /\ devEpoch = 0
  /\ clusterEpoch = [c \in Clusters |-> 0]
  /\ blockEpoch = [b \in Blocks |-> 0]
  /\ subEpoch = [b \in Blocks |-> [s \in Subgroups |-> 0]]
  /\ log = [k \in Keys |-> EmptyEntry]
  /\ rejected = FALSE

-----------------------------------------------------------------------------
(* Clocks and stamps.                                                      *)

(* Mutant: the sequence is read before it is advanced.                     *)
StampOfLast(t, kind, scope) ==
  [thread |-> t, seq |-> seq,
   scope |-> IF kind = "Atomic" THEN scope ELSE "Device",
   blockEpoch |-> blockEpoch[BlockOf(t)],
   subEpoch |-> subEpoch[BlockOf(t)][SubOf(t)],
   devEpoch |-> devEpoch,
   clusterEpoch |-> clusterEpoch[ClusterOf(t)]]

(* The stamp of an access by t: ThreadCtx::stamp.  A plain access carries  *)
(* the scope Device.                                                       *)
StampOf(t, kind, scope) ==
  [thread |-> t, seq |-> seq + 1,
   scope |-> IF kind = "Atomic" THEN scope ELSE "Device",
   blockEpoch |-> blockEpoch[BlockOf(t)],
   subEpoch |-> subEpoch[BlockOf(t)][SubOf(t)],
   devEpoch |-> devEpoch,
   clusterEpoch |-> clusterEpoch[ClusterOf(t)]]

(* now has acquired from prev's thread up to prev.                         *)
Knows(now, prev) == know[now.thread][prev.thread] >= prev.seq

(* Mutant: block barrier counts of different blocks are compared.          *)
BarrierOrdersAcross(prev, now) ==
  \/ prev.devEpoch < now.devEpoch
  \/ ClusterOf(prev.thread) = ClusterOf(now.thread) /\ prev.clusterEpoch < now.clusterEpoch
  \/ prev.blockEpoch < now.blockEpoch

(* A barrier that both threads passed since lies between prev and now.     *)
BarrierOrders(prev, now) ==
  \/ prev.devEpoch < now.devEpoch
  \/ /\ ClusterOf(prev.thread) = ClusterOf(now.thread)
     /\ prev.clusterEpoch < now.clusterEpoch
  \/ /\ BlockOf(prev.thread) = BlockOf(now.thread)
     /\ prev.blockEpoch < now.blockEpoch
  \/ /\ BlockOf(prev.thread) = BlockOf(now.thread)
     /\ SubOf(prev.thread) = SubOf(now.thread)
     /\ prev.subEpoch < now.subEpoch

(* Mutant: program order does not order.                                   *)
UnorderedWithSelf(prev, now) == ~BarrierOrders(prev, now) /\ ~Knows(now, prev)

(* Neither a barrier, nor program order, nor an edge orders prev and now.  *)
Unordered(prev, now) ==
  /\ ~BarrierOrders(prev, now)
  /\ prev.thread # now.thread
  /\ ~Knows(now, prev)

(* Two atomics whose narrower scope does not contain both threads.         *)
OutOfScope(prev, now) ==
  ~Contains(Narrower(prev.scope, now.scope), prev.thread, now.thread)

-----------------------------------------------------------------------------
(* touch: whether an access is refused, and the entry it leaves.           *)
Races(a, now, kind) ==
  \/ \E w \in a.writer : Unordered(w, now)
  \/ kind # "Atomic" /\ \E p \in a.atomics : Unordered(p, now)
  \/ kind = "Atomic" /\ \E p \in a.atomics : OutOfScope(p, now)
  \/ kind # "Read" /\ \E r \in a.readers : Unordered(r, now)

(* Mutant: one stamp in all.                                               *)
NotedLast(stamps, now) == {now}

(* One stamp per thread: a later one replaces the thread's earlier one.    *)
Noted(stamps, now) == {s \in stamps : s.thread # now.thread} \cup {now}

Logged(a, now, kind) ==
  CASE kind = "Write"  -> [writer |-> {now}, atomics |-> {}, readers |-> {}]
    [] kind = "Atomic" -> [a EXCEPT !.atomics = Noted(@, now)]
    [] kind = "Read"   -> [a EXCEPT !.readers = Noted(@, now)]

-----------------------------------------------------------------------------
(* Edges.                                                                  *)

(* The records an absorb at this scope takes in.                           *)
InScope(recs, t, scope) == {r \in recs : Contains(Narrower(r.scope, scope), r.from, t)}

(* absorb: join those records into a clock, component by component.        *)
Absorb(clock, recs, t, scope) ==
  [u \in Threads |->
     LET known == {clock[u]} \cup {r.clock[u] : r \in InScope(recs, t, scope)}
     IN  CHOOSE n \in known : \A m \in known : m <= n]

(* snapshot: what a release by t at sequence number n publishes.           *)
Snapshot(clock, t, n) == [clock EXCEPT ![t] = n]

(* Mutant: every atomic releases.                                          *)
LeftAlways(t, clock, order, scope) ==
  {[from |-> t, scope |-> scope, clock |-> Snapshot(clock, t, seq + 1)]}

(* Mutant: an atomic after a release fence publishes what t did since.     *)
LeftSinceFence(t, clock, order, scope) ==
  {[from |-> t, scope |-> Narrower(f.scope, scope), clock |-> Snapshot(clock, t, seq + 1)] : f \in fenceRel[t]}

(* What an atomic leaves: nothing, its own release, or that of t's latest  *)
(* release fence.                                                          *)
Left(t, clock, order, scope) ==
  IF Releases(order)
    THEN {[from |-> t, scope |-> scope, clock |-> Snapshot(clock, t, seq + 1)]}
    ELSE {[from |-> t, scope |-> Narrower(f.scope, scope), clock |-> f.clock] : f \in fenceRel[t]}

(* Mutant: an atomic that leaves nothing ends the release sequence.        *)
ReplaceAll(recs, new) == new

(* Records are kept one per releasing thread; later ones replace earlier.  *)
Replace(recs, new) == {r \in recs : \A n \in new : n.from # r.from} \cup new

(* Edges::atomic, on the state before it.                                  *)
AtomicEdges(t, k, order, scope) ==
  LET recs == records[k]
      clock == IF Acquires(order) THEN Absorb(know[t], recs, t, scope) ELSE know[t]
  IN
  /\ know' = [know EXCEPT ![t] = clock]
  /\ acquired' = (acquired \/ Acquires(order))
  /\ pending' = [pending EXCEPT ![t] = Replace(@, recs)]
  /\ records' = [records EXCEPT ![k] = Replace(@, Left(t, clock, order, scope))]
  /\ UNCHANGED fenceRel

-----------------------------------------------------------------------------
(* An access: stamp, touch, and (for an atomic) the edges it makes.        *)
Admit(t, k, kind, order, scope) ==
  LET now == StampOf(t, kind, scope) IN
  /\ ~rejected
  /\ ~Races(log[k], now, kind)
  /\ seq' = seq + 1
  /\ log' = [log EXCEPT ![k] = Logged(@, now, kind)]
  /\ IF kind = "Atomic" THEN AtomicEdges(t, k, order, scope) ELSE UNCHANGED edgeVars
  /\ UNCHANGED <<epochVars, rejected>>

Refuse(t, k, kind, order, scope) ==
  /\ ~rejected
  /\ Races(log[k], StampOf(t, kind, scope), kind)
  /\ seq' = seq + 1
  /\ rejected' = TRUE
  /\ UNCHANGED <<edgeVars, epochVars, log>>

(* Edges::fence.                                                           *)
FenceBy(t, order, scope) ==
  LET clock == IF Acquires(order) THEN Absorb(know[t], pending[t], t, scope) ELSE know[t] IN
  /\ ~rejected
  /\ seq' = seq + 1
  /\ know' = [know EXCEPT ![t] = clock]
  /\ acquired' = (acquired \/ Acquires(order))
  /\ pending' = IF Acquires(order) THEN [pending EXCEPT ![t] = {}] ELSE pending
  /\ fenceRel' = IF Releases(order)
                   THEN [fenceRel EXCEPT ![t] = {[scope |-> scope, clock |-> Snapshot(clock, t, seq + 1)]}]
                   ELSE fenceRel
  /\ UNCHANGED <<records, epochVars, log, rejected>>

-----------------------------------------------------------------------------
(* Barriers count; they touch no clock.  release counts every subgroup of  *)
(* one block that is ready at once, or the block.                          *)
SubgroupBarriers(b, subs) ==
  /\ ~rejected
  /\ subEpoch' = [subEpoch EXCEPT ![b] = [s \in Subgroups |-> IF s \in subs THEN @[s] + 1 ELSE @[s]]]
  /\ UNCHANGED <<seq, edgeVars, devEpoch, clusterEpoch, blockEpoch, log, rejected>>

BlockBarrier(b) ==
  /\ ~rejected
  /\ blockEpoch' = [blockEpoch EXCEPT ![b] = @ + 1]
  /\ UNCHANGED <<seq, edgeVars, devEpoch, clusterEpoch, subEpoch, log, rejected>>

(* launch_checked counts every cluster that grid_release lets go.          *)
ClusterBarriers(cs) ==
  /\ ~rejected
  /\ clusterEpoch' = [c \in Clusters |-> IF c \in cs THEN clusterEpoch[c] + 1 ELSE clusterEpoch[c]]
  /\ UNCHANGED <<seq, edgeVars, devEpoch, blockEpoch, subEpoch, log, rejected>>

DeviceBarrier ==
  /\ ~rejected
  /\ devEpoch' = devEpoch + 1
  /\ UNCHANGED <<seq, edgeVars, clusterEpoch, blockEpoch, subEpoch, log, rejected>>

=============================================================================
