------------------------- MODULE RaceSoundnessProofs -------------------------
(***************************************************************************)
(* Proofs about the race detector: its type invariant, the invariant that  *)
(* makes it sound, and soundness itself, for every launch shape, every set *)
(* of elements and statements, and any number of accesses and barriers.    *)
(***************************************************************************)
EXTENDS RaceSoundness, WellFoundedInduction, TLAPS

-----------------------------------------------------------------------------
(* Scopes.                                                                 *)

(* The narrower of two scopes contains what both contain.                  *)
LEMMA ContainsNarrower ==
  ASSUME NEW a \in Scope, NEW b \in Scope, NEW x \in Threads, NEW y \in Threads
  PROVE  Contains(Narrower(a, b), x, y) <=> Contains(a, x, y) /\ Contains(b, x, y)
BY DEF Contains, Narrower, Width, Scope, BlockOf, ClusterOf

(* The narrower of two scopes is a scope (kernel_sync::narrower).          *)
LEMMA NarrowerType ==
  ASSUME NEW a \in Scope, NEW b \in Scope
  PROVE  Narrower(a, b) \in Scope
BY DEF Narrower

(* The abstract specification speaks of the same hierarchy.                *)
LEMMA SameHierarchy ==
  /\ HB!Threads = Threads
  /\ HB!Blocks = Blocks
  /\ HB!Subgroups = Subgroups
  /\ HB!Clusters = Clusters
  /\ HB!Scope = Scope
  /\ HB!Order = Order
  /\ HB!Kind = Kind
BY DEF HB!Threads, Threads, HB!Blocks, Blocks, HB!Subgroups, Subgroups, HB!SubOf, SubOf,
       HB!Clusters, Clusters, HB!ClusterOfBlock, ClusterOfBlock, HB!Scope, Scope,
       HB!Order, Order, HB!Kind, Kind

(* The scopes and memory orders of the two modules are the same, so a      *)
(* record in scope for the detector is in scope for the specification.     *)
LEMMA SameScopes ==
  /\ \A a, b : HB!Narrower(a, b) = Narrower(a, b)
  /\ \A s, a, b : HB!Contains(s, a, b) <=> Contains(s, a, b)
  /\ \A o : HB!Releases(o) <=> Releases(o)
  /\ \A o : HB!Acquires(o) <=> Acquires(o)
<1>1. \A a, b : HB!Narrower(a, b) = Narrower(a, b)
  BY DEF HB!Narrower, Narrower, HB!Width, Width
<1>2. \A s, a, b : HB!Contains(s, a, b) <=> Contains(s, a, b)
  BY DEF HB!Contains, Contains, HB!BlockOf, BlockOf, HB!SubOf, SubOf,
         HB!ClusterOf, ClusterOf, HB!ClusterOfBlock, ClusterOfBlock
<1>3. \A o : (HB!Releases(o) <=> Releases(o)) /\ (HB!Acquires(o) <=> Acquires(o))
  BY DEF HB!Releases, Releases, HB!Acquires, Acquires
<1> QED BY <1>1, <1>2, <1>3

-----------------------------------------------------------------------------
(* Clocks.                                                                 *)

(* A set of numbers that has a bound has a largest one.                    *)
LEMMA LargestExists ==
  ASSUME NEW N \in Nat, NEW S, S \subseteq 0 .. N, S # {}
  PROVE  \E n \in S : \A m \in S : m <= n
<1> DEFINE T == {N - m : m \in S}
<1>1. T \subseteq Nat
  <2> SUFFICES ASSUME NEW m \in S PROVE N - m \in Nat
    OBVIOUS
  <2>1. m \in Int /\ m <= N
    OBVIOUS
  <2> QED BY <2>1
<1>2. T # {}
  <2> PICK m \in S : TRUE
    OBVIOUS
  <2> QED OBVIOUS
<1>3. \E x \in T : \A y \in T : <<y, x>> \notin OpToRel(<, Nat)
  <2> HIDE DEF T
  <2> QED BY <1>1, <1>2, NatLessThanWellFounded, WFMin, Zenon
<1>4. PICK x \in T : \A y \in T : <<y, x>> \notin OpToRel(<, Nat)
  BY <1>3
<1>5. \A y \in T : x <= y
  <2> TAKE y \in T
  <2>1. x \in Nat /\ y \in Nat
    BY <1>1
  <2>2. <<y, x>> \notin OpToRel(<, Nat)
    BY <1>4
  <2>3. ~(y < x)
    BY <2>1, <2>2 DEF OpToRel
  <2> QED BY <2>1, <2>3
<1>6. PICK n \in S : x = N - n
  OBVIOUS
<1>7. \A m \in S : m <= n
  <2> TAKE m \in S
  <2>1. N - n <= N - m
    BY <1>5, <1>6
  <2>2. m \in Int /\ n \in Int
    OBVIOUS
  <2> QED BY <2>1, <2>2
<1> QED BY <1>7

Bounded(clock, n) == \A u \in Threads : clock[u] <= n

(* What absorbing records makes of a clock: each component is its own or   *)
(* that of a record in scope, and no smaller than any of them.             *)
LEMMA AbsorbClock ==
  ASSUME NEW n \in Nat, NEW clock \in Clock, Bounded(clock, n),
         NEW recs \in SUBSET Record, \A r \in recs : Bounded(r.clock, n),
         NEW t \in Threads, NEW scope \in Scope
  PROVE  /\ Absorb(clock, recs, t, scope) \in Clock
         /\ Bounded(Absorb(clock, recs, t, scope), n)
         /\ \A u \in Threads :
              \/ Absorb(clock, recs, t, scope)[u] = clock[u]
              \/ \E r \in InScope(recs, t, scope) : Absorb(clock, recs, t, scope)[u] = r.clock[u]
<1> DEFINE known(u) == {clock[u]} \cup {r.clock[u] : r \in InScope(recs, t, scope)}
           result(u) == CHOOSE m \in known(u) : \A k \in known(u) : k <= m
<1>1. ASSUME NEW u \in Threads PROVE result(u) \in known(u) /\ result(u) \in 0 .. n
  <2>1. clock[u] \in 0 .. n
    BY DEF Clock, Bounded
  <2>2. ASSUME NEW r \in InScope(recs, t, scope) PROVE r.clock[u] \in 0 .. n
    <3>1. r \in recs /\ r \in Record
      BY DEF InScope
    <3>2. r.clock[u] \in Nat
      BY <3>1 DEF Record, Clock
    <3>3. r.clock[u] <= n
      BY <3>1 DEF Bounded
    <3> QED BY <3>2, <3>3
  <2>3. known(u) \subseteq 0 .. n /\ known(u) # {}
    BY <2>1, <2>2
  <2> HIDE DEF known
  <2>4. \E m \in known(u) : \A k \in known(u) : k <= m
    BY <2>3, LargestExists
  <2> QED BY <2>3, <2>4
<1>2. Absorb(clock, recs, t, scope) = [u \in Threads |-> result(u)]
  BY DEF Absorb
<1> HIDE DEF result
<1>3. \A u \in Threads : Absorb(clock, recs, t, scope)[u] = result(u)
  BY <1>2
<1>4. Absorb(clock, recs, t, scope) \in Clock
  BY <1>1, <1>2 DEF Clock
<1>5. Bounded(Absorb(clock, recs, t, scope), n)
  BY <1>1, <1>3 DEF Bounded
<1>6. \A u \in Threads : \/ result(u) = clock[u]
                         \/ \E r \in InScope(recs, t, scope) : result(u) = r.clock[u]
  BY <1>1
<1> QED BY <1>3, <1>4, <1>5, <1>6

(* A snapshot stands for the thread's own accesses up to now.              *)
LEMMA SnapshotClock ==
  ASSUME NEW n \in Nat, NEW clock \in Clock, Bounded(clock, n), NEW t \in Threads
  PROVE  /\ Snapshot(clock, t, n + 1) \in Clock
         /\ Bounded(Snapshot(clock, t, n + 1), n + 1)
         /\ Snapshot(clock, t, n + 1)[t] = n + 1
         /\ \A u \in Threads : u # t => Snapshot(clock, t, n + 1)[u] = clock[u]
BY DEF Snapshot, Clock, Bounded

-----------------------------------------------------------------------------
(* Types.                                                                  *)

LEMMA StampType ==
  ASSUME TypeOK, NEW t \in Threads, NEW kind \in Kind, NEW scope \in Scope
  PROVE  StampOf(t, kind, scope) \in Stamp
<1>1. BlockOf(t) \in Blocks /\ SubOf(t) \in Subgroups /\ ClusterOf(t) \in Clusters
  BY DEF Threads, BlockOf, SubOf, ClusterOf, Subgroups, Clusters
<1>2. /\ blockEpoch[BlockOf(t)] \in Nat
      /\ subEpoch[BlockOf(t)][SubOf(t)] \in Nat
      /\ clusterEpoch[ClusterOf(t)] \in Nat
      /\ devEpoch \in Nat /\ seq + 1 \in Nat \ {0}
  BY <1>1 DEF TypeOK
<1>3. (IF kind = "Atomic" THEN scope ELSE "Device") \in Scope
  BY DEF Scope
<1> QED BY <1>2, <1>3 DEF StampOf, Stamp

(* touch leaves a well-typed log entry.                                    *)
LEMMA LoggedType ==
  ASSUME NEW entry \in Entry, NEW now \in Stamp, NEW kind \in Kind
  PROVE  Logged(entry, now, kind) \in Entry
<1>1. CASE kind = "Write"
  BY <1>1 DEF Logged, Entry, Noted
<1>2. CASE kind = "Atomic"
  BY <1>2 DEF Logged, Entry, Noted
<1>3. CASE kind = "Read"
  BY <1>3 DEF Logged, Entry, Noted
<1> QED BY <1>1, <1>2, <1>3 DEF Kind

(* The conjuncts of TypeOK about the edges and the log, apart.             *)
EdgeTypes ==
  /\ know \in [Threads -> Clock]
  /\ records \in [Keys -> SUBSET Record]
  /\ pending \in [Threads -> SUBSET Record]
  /\ fenceRel \in [Threads -> SUBSET [scope : Scope, clock : Clock]]
  /\ acquired \in BOOLEAN

(* What an atomic's clock becomes before it leaves anything.               *)
AcquiredClock(t, recs, order, scope) ==
  IF Acquires(order) THEN Absorb(know[t], recs, t, scope) ELSE know[t]

(* An atomic keeps the edges well typed, and no clock it builds runs       *)
(* ahead of the launch's sequence (Edges::atomic).                         *)
LEMMA AtomicEdgesType ==
  ASSUME TypeOK, ClocksBounded,
         NEW t \in Threads, NEW k \in Keys, NEW order \in Order, NEW scope \in Scope,
         seq' = seq + 1, AtomicEdges(t, k, order, scope)
  PROVE  EdgeTypes' /\ ClocksBounded'
<1> DEFINE clock == AcquiredClock(t, records[k], order, scope)
           left == Left(t, clock, order, scope)
<1>1. clock \in Clock /\ Bounded(clock, seq)
  <2>1. /\ seq \in Nat /\ know[t] \in Clock /\ Bounded(know[t], seq)
        /\ records[k] \in SUBSET Record /\ \A r \in records[k] : Bounded(r.clock, seq)
    BY DEF TypeOK, ClocksBounded, Bounded
  <2> QED BY <2>1, AbsorbClock DEF AcquiredClock
<1>2. \A r \in left : r \in Record /\ Bounded(r.clock, seq + 1)
  <2>1. CASE Releases(order)
    <3>1. left = {[from |-> t, scope |-> scope, clock |-> Snapshot(clock, t, seq + 1)]}
      BY <2>1 DEF Left
    <3>2. Snapshot(clock, t, seq + 1) \in Clock /\ Bounded(Snapshot(clock, t, seq + 1), seq + 1)
      <4> HIDE DEF clock
      <4> QED BY <1>1, SnapshotClock DEF TypeOK
    <3> HIDE DEF left, clock
    <3> QED BY <3>1, <3>2 DEF Record
  <2>2. CASE ~Releases(order)
    <3>1. left = {[from |-> t, scope |-> Narrower(f.scope, scope), clock |-> f.clock] : f \in fenceRel[t]}
      BY <2>2 DEF Left
    <3>2. ASSUME NEW f \in fenceRel[t]
          PROVE  f.scope \in Scope /\ f.clock \in Clock /\ Bounded(f.clock, seq + 1)
      BY DEF TypeOK, ClocksBounded, Bounded, Clock
    <3>3. ASSUME NEW f \in fenceRel[t] PROVE Narrower(f.scope, scope) \in Scope
      BY <3>2, NarrowerType
    <3> HIDE DEF left
    <3> QED BY <3>1, <3>2, <3>3 DEF Record
  <2> QED BY <2>1, <2>2
<1>3. /\ know' = [know EXCEPT ![t] = clock]
      /\ acquired' = (acquired \/ Acquires(order))
      /\ pending' = [pending EXCEPT ![t] = Replace(@, records[k])]
      /\ records' = [records EXCEPT ![k] = Replace(@, left)]
      /\ fenceRel' = fenceRel
  BY DEF AtomicEdges, AcquiredClock
<1> HIDE DEF clock, left
<1>4. Replace(pending[t], records[k]) \subseteq pending[t] \cup records[k]
  BY DEF Replace
<1>5. Replace(records[k], left) \subseteq records[k] \cup left
  BY DEF Replace
<1>6. EdgeTypes'
  <2>1. know' \in [Threads -> Clock]
    BY <1>1, <1>3 DEF TypeOK
  <2>2. records' \in [Keys -> SUBSET Record]
    BY <1>2, <1>3, <1>5 DEF TypeOK
  <2>3. pending' \in [Threads -> SUBSET Record]
    BY <1>3, <1>4 DEF TypeOK
  <2>4. acquired' \in BOOLEAN
    BY <1>3 DEF TypeOK
  <2> QED BY <1>3, <2>1, <2>2, <2>3, <2>4 DEF TypeOK, EdgeTypes
<1>7. ASSUME NEW c \in Clock, Bounded(c, seq) PROVE Bounded(c, seq')
  BY <1>7 DEF Bounded, Clock, TypeOK
<1>8. ClocksBounded'
  <2>1. ASSUME NEW u \in Threads PROVE Bounded(know'[u], seq')
    BY <1>1, <1>3, <1>7 DEF TypeOK, ClocksBounded, Bounded
  <2>2. ASSUME NEW j \in Keys, NEW r \in records'[j] PROVE Bounded(r.clock, seq')
    <3>1. CASE r \in records[j]
      <4>1. r.clock \in Clock /\ Bounded(r.clock, seq)
        BY <3>1 DEF TypeOK, Record, ClocksBounded, Bounded
      <4> QED BY <4>1, <1>7
    <3>2. CASE r \in left
      BY <3>2, <1>2
    <3> QED BY <3>1, <3>2, <1>3, <1>5 DEF TypeOK
  <2>3. ASSUME NEW u \in Threads, NEW r \in pending'[u] PROVE Bounded(r.clock, seq')
    <3>1. r \in pending[u] \/ r \in records[k]
      BY <1>3, <1>4 DEF TypeOK
    <3>2. r.clock \in Clock /\ Bounded(r.clock, seq)
      BY <3>1 DEF TypeOK, Record, ClocksBounded, Bounded
    <3> QED BY <3>2, <1>7
  <2>4. ASSUME NEW u \in Threads, NEW f \in fenceRel'[u] PROVE Bounded(f.clock, seq')
    <3>1. f.clock \in Clock /\ Bounded(f.clock, seq)
      BY <1>3 DEF TypeOK, ClocksBounded, Bounded
    <3> QED BY <3>1, <1>7
  <2> QED BY <2>1, <2>2, <2>3, <2>4 DEF ClocksBounded, Bounded
<1> QED BY <1>6, <1>8

(* Bounds only grow.                                                       *)
LEMMA BoundGrows ==
  ASSUME NEW n \in Nat, NEW m \in Nat, n <= m, NEW c \in Clock, Bounded(c, n)
  PROVE  Bounded(c, m)
BY DEF Bounded, Clock

(* A fence keeps the edges well typed and no clock beyond the sequence.    *)
LEMMA FenceEdgesType ==
  ASSUME TypeOK, ClocksBounded,
         NEW t \in Threads, NEW order \in Order, NEW scope \in Scope,
         FenceBy(t, order, scope)
  PROVE  EdgeTypes' /\ ClocksBounded'
<1> DEFINE clock == AcquiredClock(t, pending[t], order, scope)
<1>0. seq \in Nat /\ seq' = seq + 1 /\ seq <= seq' /\ seq' \in Nat
  BY DEF TypeOK, FenceBy
<1>1. clock \in Clock /\ Bounded(clock, seq)
  <2>1. /\ seq \in Nat /\ know[t] \in Clock /\ Bounded(know[t], seq)
        /\ pending[t] \in SUBSET Record /\ \A r \in pending[t] : Bounded(r.clock, seq)
    BY DEF TypeOK, ClocksBounded, Bounded
  <2> QED BY <2>1, AbsorbClock DEF AcquiredClock
<1>2. /\ know' = [know EXCEPT ![t] = clock]
      /\ acquired' = (acquired \/ Acquires(order))
      /\ pending' = IF Acquires(order) THEN [pending EXCEPT ![t] = {}] ELSE pending
      /\ fenceRel' = IF Releases(order)
                       THEN [fenceRel EXCEPT ![t] = {[scope |-> scope, clock |-> Snapshot(clock, t, seq + 1)]}]
                       ELSE fenceRel
      /\ records' = records
  BY DEF FenceBy, AcquiredClock
<1> HIDE DEF clock
<1>3. Snapshot(clock, t, seq + 1) \in Clock /\ Bounded(Snapshot(clock, t, seq + 1), seq')
  BY <1>0, <1>1, SnapshotClock
<1>4. EdgeTypes'
  <2>1. know' \in [Threads -> Clock]
    BY <1>1, <1>2 DEF TypeOK
  <2>2. pending' \in [Threads -> SUBSET Record]
    BY <1>2 DEF TypeOK
  <2>3. fenceRel' \in [Threads -> SUBSET [scope : Scope, clock : Clock]]
    BY <1>2, <1>3 DEF TypeOK
  <2>4. acquired' \in BOOLEAN /\ records' \in [Keys -> SUBSET Record]
    BY <1>2 DEF TypeOK
  <2> QED BY <2>1, <2>2, <2>3, <2>4 DEF EdgeTypes
<1>5. ClocksBounded'
  <2>1. ASSUME NEW u \in Threads PROVE Bounded(know'[u], seq')
    <3>1. know'[u] \in Clock /\ Bounded(know'[u], seq)
      BY <1>1, <1>2 DEF TypeOK, ClocksBounded, Bounded
    <3> QED BY <3>1, <1>0, BoundGrows
  <2>2. ASSUME NEW j \in Keys, NEW r \in records'[j] PROVE Bounded(r.clock, seq')
    <3>1. r.clock \in Clock /\ Bounded(r.clock, seq)
      BY <1>2 DEF TypeOK, Record, ClocksBounded, Bounded
    <3> QED BY <3>1, <1>0, BoundGrows
  <2>3. ASSUME NEW u \in Threads, NEW r \in pending'[u] PROVE Bounded(r.clock, seq')
    <3>1. r \in pending[u]
      BY <1>2 DEF TypeOK
    <3>2. r.clock \in Clock /\ Bounded(r.clock, seq)
      BY <3>1 DEF TypeOK, Record, ClocksBounded, Bounded
    <3> QED BY <3>2, <1>0, BoundGrows
  <2>4. ASSUME NEW u \in Threads, NEW f \in fenceRel'[u] PROVE Bounded(f.clock, seq')
    <3>1. CASE f \in fenceRel[u]
      <4>1. f.clock \in Clock /\ Bounded(f.clock, seq)
        BY <3>1 DEF TypeOK, ClocksBounded, Bounded
      <4> QED BY <4>1, <1>0, BoundGrows
    <3>2. CASE f = [scope |-> scope, clock |-> Snapshot(clock, t, seq + 1)]
      BY <3>2, <1>3
    <3> QED BY <3>1, <3>2, <1>2 DEF TypeOK
  <2> QED BY <2>1, <2>2, <2>3, <2>4 DEF ClocksBounded, Bounded
<1> QED BY <1>4, <1>5

(* The conjuncts of TypeOK about the history, apart.                       *)
Event == [seq : Nat \ {0}, thread : Threads, key : Keys, kind : Kind,
          scope : Scope, before : SUBSET Nat, after : SUBSET Nat]

Publications == [from : Threads, scope : Scope, before : SUBSET Nat]

HistoryTypes ==
  /\ hist \subseteq Event
  /\ hb \in [Threads -> SUBSET Nat]
  /\ rel \in [Keys -> SUBSET Publications]
  /\ seen \in [Threads -> SUBSET Publications]
  /\ fences \in [Threads -> SUBSET Publications]

(* What publications carry to a thread is a set of event numbers.          *)
LEMMA CarriedType ==
  ASSUME NEW pubs \in SUBSET Publications, NEW t \in Threads, NEW scope \in Scope
  PROVE  HB!Carried(pubs, t, scope) \in SUBSET Nat
BY DEF HB!Carried, Publications

(* An access keeps the history well typed.                                 *)
LEMMA PerformType ==
  ASSUME TypeOK, NEW t \in Threads, NEW k \in Keys, NEW kind \in Kind,
         NEW order \in Order, NEW scope \in Scope,
         HB!Perform(t, k, kind, order, scope)
  PROVE  HistoryTypes'
<1> DEFINE e == seq + 1
           got == IF kind = "Atomic" /\ HB!Acquires(order)
                    THEN HB!Carried(rel[k], t, scope) ELSE {}
           past == hb[t] \cup {e} \cup got
           event == [seq |-> e, thread |-> t, key |-> k, kind |-> kind,
                     scope |-> scope, before |-> hb[t], after |-> past]
           published == HB!Published(t, order, scope, past)
           noticed == {HB!Publication(p.from, HB!Narrower(p.scope, scope), p.before) : p \in rel[k]}
<1>1. HistoryTypes /\ seq \in Nat
  BY DEF TypeOK, HistoryTypes, Event, Publications
<1>2. got \in SUBSET Nat
  BY <1>1, CarriedType DEF HistoryTypes
<1>3. past \in SUBSET Nat /\ event \in Event
  <2> HIDE DEF got
  <2>1. e \in Nat \ {0} /\ hb[t] \in SUBSET Nat
    BY <1>1 DEF HistoryTypes
  <2>2. past \in SUBSET Nat
    BY <1>2, <2>1
  <2> HIDE DEF past, e
  <2> QED BY <2>1, <2>2 DEF Event
<1>4. published \in SUBSET Publications
  <2> HIDE DEF past
  <2>1. ASSUME NEW f \in fences[t]
        PROVE  HB!Publication(t, HB!Narrower(f.scope, scope), f.before) \in Publications
    <3>1. f \in Publications
      BY <1>1 DEF HistoryTypes
    <3>2. f.scope \in Scope /\ f.before \in SUBSET Nat
      BY <3>1 DEF Publications
    <3> QED BY <3>2, NarrowerType, SameScopes DEF HB!Publication, Publications
  <2>2. HB!Publication(t, scope, past) \in Publications
    BY <1>3 DEF HB!Publication, Publications
  <2> QED BY <2>1, <2>2 DEF HB!Published
<1>5. noticed \in SUBSET Publications
  <2> SUFFICES ASSUME NEW p \in rel[k]
               PROVE  HB!Publication(p.from, HB!Narrower(p.scope, scope), p.before) \in Publications
    OBVIOUS
  <2>1. p \in Publications
    BY <1>1 DEF HistoryTypes
  <2>2. p.scope \in Scope /\ p.before \in SUBSET Nat /\ p.from \in Threads
    BY <2>1 DEF Publications
  <2> QED BY <2>2, NarrowerType, SameScopes DEF HB!Publication, Publications
<1>6. /\ hist' = hist \cup {event}
      /\ hb' = [hb EXCEPT ![t] = past]
      /\ rel' = [rel EXCEPT ![k] = CASE kind = "Read"   -> @
                                     [] kind = "Write"  -> {}
                                     [] kind = "Atomic" -> @ \cup published]
      /\ seen' = IF kind = "Atomic" THEN [seen EXCEPT ![t] = @ \cup noticed] ELSE seen
      /\ fences' = fences
  BY DEF HB!Perform
<1> HIDE DEF past, event, published, noticed
<1>7. hist' \subseteq Event /\ hb' \in [Threads -> SUBSET Nat] /\ fences' \in [Threads -> SUBSET Publications]
  BY <1>1, <1>3, <1>6 DEF HistoryTypes
<1>8. seen' \in [Threads -> SUBSET Publications]
  BY <1>1, <1>5, <1>6 DEF HistoryTypes
<1>9. rel' \in [Keys -> SUBSET Publications]
  <2>1. rel \in [Keys -> SUBSET Publications]
    BY <1>1 DEF HistoryTypes
  <2>2. CASE kind = "Read"
    BY <1>6, <2>1, <2>2
  <2>3. CASE kind = "Write"
    BY <1>6, <2>1, <2>3
  <2>4. CASE kind = "Atomic"
    BY <1>4, <1>6, <2>1, <2>4
  <2> QED BY <2>2, <2>3, <2>4 DEF Kind
<1> QED BY <1>7, <1>8, <1>9 DEF HistoryTypes

(* A fence keeps the history well typed.                                   *)
LEMMA FenceHistoryType ==
  ASSUME TypeOK, NEW t \in Threads, NEW order \in Order, NEW scope \in Scope,
         HB!Fence(t, order, scope)
  PROVE  HistoryTypes'
<1> DEFINE past == hb[t] \cup (IF HB!Acquires(order) THEN HB!Carried(seen[t], t, scope) ELSE {})
<1>1. HistoryTypes
  BY DEF TypeOK, HistoryTypes, Event, Publications
<1>2. past \in SUBSET Nat
  BY <1>1, CarriedType DEF HistoryTypes
<1>3. HB!Publication(t, scope, past) \in Publications
  BY <1>2 DEF HB!Publication, Publications
<1>4. /\ hb' = [hb EXCEPT ![t] = past]
      /\ fences' = IF HB!Releases(order)
                     THEN [fences EXCEPT ![t] = @ \cup {HB!Publication(t, scope, past)}] ELSE fences
      /\ UNCHANGED <<hist, rel, seen>>
  BY DEF HB!Fence
<1> HIDE DEF past
<1> QED BY <1>1, <1>2, <1>3, <1>4 DEF HistoryTypes

(* A barrier keeps the history well typed.                                 *)
LEMMA RendezvousType ==
  ASSUME TypeOK, NEW groups \in SUBSET (SUBSET Threads), HB!Rendezvous(groups)
  PROVE  HistoryTypes'
<1>1. HistoryTypes
  BY DEF TypeOK, HistoryTypes, Event, Publications
<1>2. \A t \in Threads :
        hb[t] \cup UNION {UNION {hb[u] : u \in g} : g \in {h \in groups : t \in h}} \in SUBSET Nat
  BY <1>1 DEF HistoryTypes
<1>3. /\ hb' = [t \in Threads |-> hb[t] \cup UNION {UNION {hb[u] : u \in g} : g \in {h \in groups : t \in h}}]
      /\ UNCHANGED <<hist, rel, seen, fences>>
  BY SameHierarchy DEF HB!Rendezvous
<1> QED BY <1>1, <1>2, <1>3 DEF HistoryTypes

(* The conjuncts of TypeOK about the barrier counts, apart.                *)
EpochTypes ==
  /\ devEpoch \in Nat
  /\ clusterEpoch \in [Clusters -> Nat]
  /\ blockEpoch \in [Blocks -> Nat]
  /\ subEpoch \in [Blocks -> [Subgroups -> Nat]]

(* Clocks that do not change stay bounded.                                 *)
LEMMA SameClocksBounded ==
  ASSUME TypeOK, ClocksBounded, seq' \in Nat, seq <= seq', UNCHANGED <<know, records, pending, fenceRel>>
  PROVE  ClocksBounded'
<1>1. ASSUME NEW c \in Clock, Bounded(c, seq) PROVE Bounded(c, seq')
  BY <1>1, BoundGrows DEF TypeOK
<1>2. ASSUME NEW u \in Threads PROVE Bounded(know[u], seq')
  BY <1>1 DEF TypeOK, ClocksBounded, Bounded
<1>3. ASSUME NEW j \in Keys, NEW r \in records[j] PROVE Bounded(r.clock, seq')
  <2>1. r.clock \in Clock /\ Bounded(r.clock, seq)
    BY DEF TypeOK, Record, ClocksBounded, Bounded
  <2> QED BY <2>1, <1>1
<1>4. ASSUME NEW u \in Threads, NEW r \in pending[u] \cup fenceRel[u] PROVE Bounded(r.clock, seq')
  <2>1. r.clock \in Clock /\ Bounded(r.clock, seq)
    BY DEF TypeOK, Record, ClocksBounded, Bounded
  <2> QED BY <2>1, <1>1
<1> QED BY <1>2, <1>3, <1>4 DEF ClocksBounded, Bounded

(* The fields of a statement that touches memory.                          *)
LEMMA SiteType ==
  ASSUME NEW site \in AccessSites
  PROVE  site.key \in Keys /\ site.kind \in Kind /\ site.order \in Order /\ site.scope \in Scope
BY SitesAssumption DEF Site

(* An admitted access keeps the types and the bounds on the clocks.        *)
LEMMA AccessType ==
  ASSUME TypeOK, ClocksBounded, NEW t \in Threads, NEW site \in AccessSites, Access(t, site)
  PROVE  TypeOK' /\ ClocksBounded'
<1> DEFINE k == site.key
           kind == site.kind
           order == site.order
           scope == site.scope
<1>1. k \in Keys /\ kind \in Kind /\ order \in Order /\ scope \in Scope
  BY SiteType
<1>2. /\ Admit(t, k, kind, order, scope)
      /\ HB!Perform(t, k, kind, order, scope)
      /\ UNCHANGED <<offender, barriers>>
  BY DEF Access
<1> HIDE DEF k, kind, order, scope
<1>3. seq' = seq + 1 /\ seq \in Nat /\ seq' \in Nat /\ seq <= seq'
  BY <1>2 DEF Admit, TypeOK
<1>4. EdgeTypes' /\ ClocksBounded'
  <2>1. CASE kind = "Atomic"
    <3>1. AtomicEdges(t, k, order, scope)
      BY <1>2, <2>1 DEF Admit
    <3> QED BY <1>1, <1>3, <3>1, AtomicEdgesType
  <2>2. CASE kind # "Atomic"
    <3>1. UNCHANGED edgeVars
      BY <1>2, <2>2 DEF Admit
    <3>2. EdgeTypes'
      BY <3>1 DEF edgeVars, TypeOK, EdgeTypes
    <3>3. UNCHANGED <<know, records, pending, fenceRel>>
      BY <3>1 DEF edgeVars
    <3> QED BY <1>3, <3>2, <3>3, SameClocksBounded
  <2> QED BY <2>1, <2>2
<1>5. log' \in [Keys -> Entry]
  <2>1. StampOf(t, kind, scope) \in Stamp
    BY <1>1, StampType
  <2>2. log \in [Keys -> Entry]
    BY DEF TypeOK
  <2>3. Logged(log[k], StampOf(t, kind, scope), kind) \in Entry
    BY <1>1, <2>1, <2>2, LoggedType
  <2>4. log' = [log EXCEPT ![k] = Logged(@, StampOf(t, kind, scope), kind)]
    BY <1>2 DEF Admit
  <2> QED BY <2>2, <2>3, <2>4
<1>6. HistoryTypes'
  BY <1>1, <1>2, PerformType
<1>7. EpochTypes' /\ rejected' \in BOOLEAN
  BY <1>2 DEF Admit, epochVars, TypeOK, EpochTypes
<1>8. offender' \subseteq [thread : Threads, site : AccessSites] /\ barriers' \in Nat
  BY <1>2 DEF TypeOK
<1>9. TypeOK'
  BY <1>3, <1>4, <1>5, <1>6, <1>7, <1>8
     DEF TypeOK, EdgeTypes, EpochTypes, HistoryTypes, Event, Publications
<1> QED BY <1>4, <1>9

(* A refused access spends a sequence number and changes no edge.          *)
LEMMA RefuseType ==
  ASSUME TypeOK, ClocksBounded, NEW t \in Threads, NEW site \in AccessSites, RefuseAccess(t, site)
  PROVE  TypeOK' /\ ClocksBounded'
<1>1. /\ seq' = seq + 1 /\ rejected' = TRUE
      /\ UNCHANGED <<edgeVars, epochVars, log, historyVars, barriers>>
      /\ offender' = {[thread |-> t, site |-> site]}
  BY DEF RefuseAccess, Refuse
<1>2. seq' \in Nat /\ seq <= seq'
  BY <1>1 DEF TypeOK
<1>3. TypeOK'
  BY <1>1, <1>2 DEF TypeOK, edgeVars, epochVars, historyVars
<1>4. UNCHANGED <<know, records, pending, fenceRel>>
  BY <1>1 DEF edgeVars
<1> QED BY <1>2, <1>3, <1>4, SameClocksBounded

(* A fence keeps the types and the bounds on the clocks (Edges::fence).    *)
LEMMA FenceType ==
  ASSUME TypeOK, ClocksBounded, NEW t \in Threads, NEW f \in FenceSites, Fence(t, f)
  PROVE  TypeOK' /\ ClocksBounded'
<1>1. f.order \in Order /\ f.scope \in Scope
  BY SitesAssumption
<1>2. FenceBy(t, f.order, f.scope) /\ HB!Fence(t, f.order, f.scope) /\ UNCHANGED <<offender, barriers>>
  BY DEF Fence
<1>3. EdgeTypes' /\ ClocksBounded'
  BY <1>1, <1>2, FenceEdgesType
<1>4. HistoryTypes'
  BY <1>1, <1>2, FenceHistoryType
<1>5. /\ seq' \in Nat /\ EpochTypes' /\ log' \in [Keys -> Entry] /\ rejected' \in BOOLEAN
      /\ offender' \subseteq [thread : Threads, site : AccessSites] /\ barriers' \in Nat
  BY <1>2 DEF FenceBy, epochVars, TypeOK, EpochTypes
<1>6. TypeOK'
  BY <1>3, <1>4, <1>5
     DEF TypeOK, EdgeTypes, EpochTypes, HistoryTypes, Event, Publications
<1> QED BY <1>3, <1>6

(* What the four barriers leave alone, and the groups they synchronise.    *)
BarrierOf(groups) ==
  /\ HB!Rendezvous(groups)
  /\ barriers' = barriers + 1
  /\ UNCHANGED <<seq, edgeVars, log, rejected, offender>>

(* A barrier of any scope keeps them: it counts, and touches no clock.     *)
LEMMA BarrierType ==
  ASSUME TypeOK, ClocksBounded, NEW groups \in SUBSET (SUBSET Threads), BarrierOf(groups), EpochTypes'
  PROVE  TypeOK' /\ ClocksBounded'
<1>1. HistoryTypes'
  BY RendezvousType DEF BarrierOf
<1>2. /\ seq' = seq /\ seq \in Nat /\ EdgeTypes' /\ log' \in [Keys -> Entry] /\ rejected' \in BOOLEAN
      /\ offender' \subseteq [thread : Threads, site : AccessSites] /\ barriers' \in Nat
  BY DEF BarrierOf, edgeVars, TypeOK, EdgeTypes
<1>3. UNCHANGED <<know, records, pending, fenceRel>>
  BY DEF BarrierOf, edgeVars
<1>4. TypeOK'
  BY <1>1, <1>2
     DEF TypeOK, EdgeTypes, EpochTypes, HistoryTypes, Event, Publications
<1> QED BY <1>2, <1>3, <1>4, SameClocksBounded

(* Each barrier release is one, of these groups.                           *)
LEMMA SubgroupReleaseGroups ==
  ASSUME TypeOK, NEW b \in Blocks, NEW subs \in SUBSET Subgroups, SubgroupRelease(b, subs)
  PROVE  /\ {HB!SubgroupThreads(b, s) : s \in subs} \in SUBSET (SUBSET Threads)
         /\ BarrierOf({HB!SubgroupThreads(b, s) : s \in subs})
         /\ EpochTypes'
<1>1. {HB!SubgroupThreads(b, s) : s \in subs} \in SUBSET (SUBSET Threads)
  BY SameHierarchy DEF HB!SubgroupThreads
<1>2. BarrierOf({HB!SubgroupThreads(b, s) : s \in subs})
  BY DEF SubgroupRelease, CountBarrier, SubgroupBarriers, BarrierOf
<1>3. subEpoch' = [subEpoch EXCEPT ![b] =
                     [s \in Subgroups |-> IF s \in subs THEN subEpoch[b][s] + 1 ELSE subEpoch[b][s]]]
  BY DEF SubgroupRelease, SubgroupBarriers, TypeOK
<1>4. [s \in Subgroups |-> IF s \in subs THEN subEpoch[b][s] + 1 ELSE subEpoch[b][s]] \in [Subgroups -> Nat]
  BY DEF TypeOK
<1>5. EpochTypes'
  BY <1>3, <1>4 DEF SubgroupRelease, SubgroupBarriers, EpochTypes, TypeOK
<1> QED BY <1>1, <1>2, <1>5

(* A block barrier is a rendezvous of one block.                           *)
LEMMA BlockReleaseGroups ==
  ASSUME TypeOK, NEW b \in Blocks, BlockRelease(b)
  PROVE  /\ {HB!BlockThreads(b)} \in SUBSET (SUBSET Threads)
         /\ BarrierOf({HB!BlockThreads(b)})
         /\ EpochTypes'
<1>1. {HB!BlockThreads(b)} \in SUBSET (SUBSET Threads)
  BY SameHierarchy DEF HB!BlockThreads
<1>2. BarrierOf({HB!BlockThreads(b)})
  BY DEF BlockRelease, CountBarrier, BlockBarrier, BarrierOf
<1>3. EpochTypes'
  BY DEF BlockRelease, BlockBarrier, EpochTypes, TypeOK
<1> QED BY <1>1, <1>2, <1>3

(* Cluster barriers released together are a rendezvous of those clusters.  *)
LEMMA ClusterReleaseGroups ==
  ASSUME TypeOK, NEW cs \in SUBSET Clusters, ClusterRelease(cs)
  PROVE  /\ {HB!ClusterThreads(c) : c \in cs} \in SUBSET (SUBSET Threads)
         /\ BarrierOf({HB!ClusterThreads(c) : c \in cs})
         /\ EpochTypes'
<1>1. {HB!ClusterThreads(c) : c \in cs} \in SUBSET (SUBSET Threads)
  BY SameHierarchy DEF HB!ClusterThreads
<1>2. BarrierOf({HB!ClusterThreads(c) : c \in cs})
  BY DEF ClusterRelease, CountBarrier, ClusterBarriers, BarrierOf
<1>3. EpochTypes'
  BY DEF ClusterRelease, ClusterBarriers, EpochTypes, TypeOK
<1> QED BY <1>1, <1>2, <1>3

(* A device barrier is a rendezvous of the whole grid.                     *)
LEMMA DeviceReleaseGroups ==
  ASSUME TypeOK, DeviceRelease
  PROVE  /\ {Threads} \in SUBSET (SUBSET Threads)
         /\ BarrierOf({Threads})
         /\ EpochTypes'
<1>1. BarrierOf({Threads})
  BY DEF DeviceRelease, CountBarrier, DeviceBarrier, BarrierOf
<1>2. EpochTypes'
  BY DEF DeviceRelease, DeviceBarrier, EpochTypes, TypeOK
<1> QED BY <1>1, <1>2

(* No step breaks a type or takes a clock beyond the sequence.             *)
LEMMA TypeStep ==
  ASSUME TypeOK, ClocksBounded, [Next]_vars
  PROVE  TypeOK' /\ ClocksBounded'
<1>1. ASSUME NEW t \in Threads, NEW site \in AccessSites, Access(t, site) \/ RefuseAccess(t, site)
      PROVE  TypeOK' /\ ClocksBounded'
  BY <1>1, AccessType, RefuseType
<1>2. ASSUME NEW t \in Threads, NEW f \in FenceSites, Fence(t, f)
      PROVE  TypeOK' /\ ClocksBounded'
  BY <1>2, FenceType
<1>3. ASSUME NEW b \in Blocks, NEW subs \in (SUBSET Subgroups) \ {{}}, SubgroupRelease(b, subs)
      PROVE  TypeOK' /\ ClocksBounded'
  BY <1>3, SubgroupReleaseGroups, BarrierType
<1>4. ASSUME NEW b \in Blocks, BlockRelease(b)
      PROVE  TypeOK' /\ ClocksBounded'
  BY <1>4, BlockReleaseGroups, BarrierType
<1>5. ASSUME NEW cs \in (SUBSET Clusters) \ {{}}, ClusterRelease(cs)
      PROVE  TypeOK' /\ ClocksBounded'
  BY <1>5, ClusterReleaseGroups, BarrierType
<1>6. CASE DeviceRelease
  BY <1>6, DeviceReleaseGroups, BarrierType
<1>7. CASE UNCHANGED vars
  BY <1>7 DEF vars, detectorVars, edgeVars, epochVars, historyVars, TypeOK, ClocksBounded
<1> QED BY <1>1, <1>2, <1>3, <1>4, <1>5, <1>6, <1>7 DEF Next

(* A launch starts well typed, with every clock at zero.                   *)
LEMMA TypeInit ==
  ASSUME Init
  PROVE  TypeOK /\ ClocksBounded
<1>1. [u \in Threads |-> 0] \in Clock /\ EmptyEntry \in Entry
  BY DEF Clock, EmptyEntry, Entry
<1>2. TypeOK
  BY <1>1 DEF Init, DetectorInit, TypeOK
<1>3. ClocksBounded
  BY DEF Init, DetectorInit, ClocksBounded
<1> QED BY <1>2, <1>3

(* The detector's state and the history are always well typed, whatever    *)
(* the launch: in particular absorbing records always leaves a clock.      *)
THEOREM TypeCorrect == Spec => []TypeOK
<1>1. Init => TypeOK /\ ClocksBounded
  BY TypeInit
<1>2. TypeOK /\ ClocksBounded /\ [Next]_vars => (TypeOK /\ ClocksBounded)'
  BY TypeStep
<1> QED BY <1>1, <1>2, PTL DEF Spec

-----------------------------------------------------------------------------
(* Soundness: steps that make no event.                                    *)

(* The fields of an event, a publication and a record.                     *)
LEMMA EventType ==
  ASSUME TypeOK, NEW e \in hist
  PROVE  /\ e.seq \in Nat \ {0} /\ e.thread \in Threads /\ e.key \in Keys /\ e.kind \in Kind
         /\ e.scope \in Scope /\ e.before \in SUBSET Nat /\ e.after \in SUBSET Nat
BY DEF TypeOK

(* The parts of SoundInv that speak of the history alone.                  *)
HistoryInv == PastClosed /\ PublicationsClosed /\ HistoryBounded

(* Those that relate the edges to it.                                      *)
EdgesInv == KnowledgeSound /\ FencesSound /\ RecordsSound /\ PendingSound

(* What t knows after a barrier, from any member u of a group of its.      *)
LEMMA RendezvousGrows ==
  ASSUME TypeOK, NEW groups \in SUBSET (SUBSET Threads), HB!Rendezvous(groups)
  PROVE  /\ \A t \in Threads : hb[t] \subseteq hb'[t]
         /\ \A g \in groups : \A u, t \in g : hb[u] \subseteq hb'[t]
         /\ \A t \in Threads : \A n \in hb'[t] :
              n \in hb[t] \/ \E g \in groups : t \in g /\ \E u \in g : n \in hb[u]
         /\ UNCHANGED <<seq, hist, rel, seen, fences>>
<1>1. /\ hb' = [t \in Threads |-> hb[t] \cup UNION {UNION {hb[u] : u \in g} : g \in {h \in groups : t \in h}}]
      /\ UNCHANGED <<seq, hist, rel, seen, fences>>
  BY SameHierarchy DEF HB!Rendezvous
<1>2. \A t \in Threads :
        hb'[t] = hb[t] \cup UNION {UNION {hb[u] : u \in g} : g \in {h \in groups : t \in h}}
  BY <1>1
<1>3. \A g \in groups : \A u, t \in g : hb[u] \subseteq hb'[t]
  BY <1>2
<1>4. \A t \in Threads : \A n \in hb'[t] :
        n \in hb[t] \/ \E g \in groups : t \in g /\ \E u \in g : n \in hb[u]
  BY <1>2
<1> QED BY <1>1, <1>2, <1>3, <1>4

(* A barrier keeps the history sound ...                                   *)
LEMMA RendezvousHistory ==
  ASSUME TypeOK, HistoryInv, NEW groups \in SUBSET (SUBSET Threads), HB!Rendezvous(groups)
  PROVE  HistoryInv'
<1>1. /\ \A t \in Threads : hb[t] \subseteq hb'[t]
      /\ \A g \in groups : \A u, t \in g : hb[u] \subseteq hb'[t]
      /\ \A t \in Threads : \A n \in hb'[t] :
           n \in hb[t] \/ \E g \in groups : t \in g /\ \E u \in g : n \in hb[u]
      /\ UNCHANGED <<seq, hist, rel, seen, fences>>
  BY RendezvousGrows
<1>2. \A e \in hist : e.seq \in hb'[e.thread]
  <2> TAKE e \in hist
  <2>1. e.thread \in Threads /\ e.seq \in hb[e.thread]
    BY EventType DEF HistoryInv, PastClosed
  <2> QED BY <1>1, <2>1
<1>3. ASSUME NEW t \in Threads, NEW e \in hist, e.seq \in hb'[t] PROVE e.after \subseteq hb'[t]
  <2>1. CASE e.seq \in hb[t]
    BY <1>1, <2>1 DEF HistoryInv, PastClosed, Closed
  <2>2. CASE \E g \in groups : t \in g /\ \E u \in g : e.seq \in hb[u]
    <3>0. PICK g \in groups : t \in g /\ \E u \in g : e.seq \in hb[u]
      BY <2>2
    <3>1. PICK u \in g : e.seq \in hb[u]
      BY <3>0
    <3>2. u \in Threads
      OBVIOUS
    <3>3. e.after \subseteq hb[u]
      BY <3>1, <3>2 DEF HistoryInv, PastClosed, Closed
    <3> QED BY <1>1, <3>0, <3>3
  <2> QED BY <1>1, <1>3, <2>1, <2>2
<1>4. PastClosed'
  BY <1>1, <1>2, <1>3 DEF HistoryInv, PastClosed, Closed
<1>5. PublicationsClosed'
  BY <1>1 DEF HistoryInv, PublicationsClosed, Closed
<1>6. ASSUME NEW t \in Threads, NEW n \in hb'[t] PROVE n <= seq
  <2>1. CASE n \in hb[t]
    BY <2>1 DEF HistoryInv, HistoryBounded, UpToNow
  <2>2. CASE \E g \in groups : t \in g /\ \E u \in g : n \in hb[u]
    BY <2>2 DEF HistoryInv, HistoryBounded, UpToNow
  <2> QED BY <1>1, <1>6, <2>1, <2>2
<1>7. HistoryBounded'
  BY <1>1, <1>6 DEF HistoryInv, HistoryBounded, UpToNow
<1> QED BY <1>4, <1>5, <1>7 DEF HistoryInv

(* ... and whatever the edges stand for stays so while the past only       *)
(* grows and nothing else that matters changes.                            *)
LEMMA EdgesKept ==
  ASSUME TypeOK, EdgesInv, \A t \in Threads : hb[t] \subseteq hb'[t],
         UNCHANGED <<edgeVars, log, hist, rel, seen, fences>>
  PROVE  EdgesInv'
<1>1. ASSUME NEW clock, NEW t \in Threads, Covered(clock, hb[t]) PROVE Covered(clock, hb[t])'
  BY <1>1 DEF Covered
<1> QED
  <2>1. KnowledgeSound'
    BY DEF edgeVars, EdgesInv, KnowledgeSound, Covered
  <2>2. FencesSound'
    BY DEF edgeVars, EdgesInv, FencesSound, Covered
  <2>3. RecordsSound'
    BY DEF edgeVars, EdgesInv, RecordsSound, Live, Stale, Covered
  <2>4. PendingSound'
    BY DEF edgeVars, EdgesInv, PendingSound, Covered
  <2> QED BY <2>1, <2>2, <2>3, <2>4 DEF EdgesInv

(* Nor does the log depend on anything but itself and the history.         *)
LEMMA LogKept ==
  ASSUME LogComplete, UNCHANGED <<log, hist>>
  PROVE  LogComplete'
BY DEF LogComplete, Stands, Standing

(* A stamp is of an event that is in its own thread's past.                *)
LEMMA StampHappened ==
  ASSUME TypeOK, PastClosed, EpochsSound, NEW k \in Keys, NEW s \in Stamps(k)
  PROVE  /\ s \in Stamp /\ s.thread \in Threads /\ s.seq \in Nat
         /\ s.seq \in hb[s.thread]
         /\ \E e \in hist : e.seq = s.seq /\ e.thread = s.thread
<1>1. s \in Stamp
  BY DEF TypeOK, Entry, Stamps
<1>2. PICK e \in hist : e.seq = s.seq /\ e.thread = s.thread
  BY DEF EpochsSound
<1>3. e.seq \in hb[e.thread]
  BY DEF PastClosed
<1> QED BY <1>1, <1>2, <1>3 DEF Stamp

(* A barrier keeps its promise if every order it adds between a stamp and  *)
(* a thread is between two members of a group it synchronises.             *)
LEMMA BarrierEpochs ==
  ASSUME TypeOK, PastClosed, EpochsSound, NEW groups \in SUBSET (SUBSET Threads), BarrierOf(groups),
         ASSUME NEW s \in Stamp, NEW t \in Threads, BarrierOrders(s, StampOf(t, "Read", "Device"))'
         PROVE  \/ BarrierOrders(s, StampOf(t, "Read", "Device"))
                \/ \E g \in groups : s.thread \in g /\ t \in g
  PROVE  EpochsSound'
<1>1. /\ \A t \in Threads : hb[t] \subseteq hb'[t]
      /\ \A g \in groups : \A u, t \in g : hb[u] \subseteq hb'[t]
      /\ hist' = hist
  BY RendezvousGrows DEF BarrierOf
<1>2. \A k \in Keys : Stamps(k)' = Stamps(k)
  BY DEF BarrierOf, Stamps
<1>3. ASSUME NEW k \in Keys, NEW s \in Stamps(k), NEW t \in Threads,
             BarrierOrders(s, StampOf(t, "Read", "Device"))'
      PROVE  s.seq \in hb'[t]
  <2>1. s \in Stamp /\ s.thread \in Threads /\ s.seq \in hb[s.thread]
    BY StampHappened
  <2>2. CASE BarrierOrders(s, StampOf(t, "Read", "Device"))
    BY <1>1, <2>2 DEF EpochsSound
  <2>3. CASE \E g \in groups : s.thread \in g /\ t \in g
    BY <1>1, <2>1, <2>3
  <2> QED BY <1>3, <2>1, <2>2, <2>3
<1>4. \A k \in Keys : \A s \in Stamps(k) : \E e \in hist : e.seq = s.seq /\ e.thread = s.thread
  BY DEF EpochsSound
<1> QED BY <1>1, <1>2, <1>3, <1>4 DEF EpochsSound

(* One more barrier of a block's subgroups orders only threads of one of   *)
(* those subgroups.                                                        *)
LEMMA SubgroupEpochs ==
  ASSUME TypeOK, PastClosed, EpochsSound, NEW b \in Blocks, NEW subs \in SUBSET Subgroups,
         SubgroupRelease(b, subs)
  PROVE  EpochsSound'
<1> DEFINE groups == {HB!SubgroupThreads(b, s) : s \in subs}
<1>1. groups \in SUBSET (SUBSET Threads) /\ BarrierOf(groups)
  BY SubgroupReleaseGroups
<1>2. /\ subEpoch' = [subEpoch EXCEPT ![b] =
                        [x \in Subgroups |-> IF x \in subs THEN subEpoch[b][x] + 1 ELSE subEpoch[b][x]]]
      /\ UNCHANGED <<devEpoch, clusterEpoch, blockEpoch>>
  BY DEF SubgroupRelease, SubgroupBarriers, TypeOK
<1>3. ASSUME NEW s \in Stamp, NEW t \in Threads, BarrierOrders(s, StampOf(t, "Read", "Device"))'
      PROVE  \/ BarrierOrders(s, StampOf(t, "Read", "Device"))
             \/ \E g \in groups : s.thread \in g /\ t \in g
  <2>1. BlockOf(t) \in Blocks /\ SubOf(t) \in Subgroups /\ s.thread \in Threads
    BY DEF Threads, BlockOf, SubOf, Subgroups, Stamp
  <2>2. CASE BlockOf(t) = b /\ SubOf(t) \in subs /\ BlockOf(s.thread) = b /\ SubOf(s.thread) = SubOf(t)
    <3>1. {s.thread, t} \subseteq HB!SubgroupThreads(b, SubOf(t))
      BY <2>1, <2>2, SameHierarchy DEF HB!SubgroupThreads, HB!BlockOf, BlockOf, HB!SubOf, SubOf
    <3> QED BY <2>2, <3>1
  <2>3. CASE ~(BlockOf(t) = b /\ SubOf(t) \in subs)
    <3>1. subEpoch'[BlockOf(t)][SubOf(t)] = subEpoch[BlockOf(t)][SubOf(t)]
      BY <1>2, <2>1, <2>3 DEF TypeOK
    <3> QED BY <1>2, <1>3, <3>1 DEF BarrierOrders, StampOf
  <2>4. CASE ~(BlockOf(s.thread) = BlockOf(t) /\ SubOf(s.thread) = SubOf(t))
    BY <1>2, <1>3, <2>4 DEF BarrierOrders, StampOf
  <2> QED BY <2>2, <2>3, <2>4
<1> HIDE DEF groups
<1> QED BY <1>1, <1>3, BarrierEpochs

(* One more barrier of a block orders only threads of that block.          *)
LEMMA BlockEpochs ==
  ASSUME TypeOK, PastClosed, EpochsSound, NEW b \in Blocks, BlockRelease(b)
  PROVE  EpochsSound'
<1> DEFINE groups == {HB!BlockThreads(b)}
<1>1. groups \in SUBSET (SUBSET Threads) /\ BarrierOf(groups)
  BY BlockReleaseGroups
<1>2. /\ blockEpoch' = [blockEpoch EXCEPT ![b] = @ + 1]
      /\ UNCHANGED <<devEpoch, clusterEpoch, subEpoch>>
  BY DEF BlockRelease, BlockBarrier
<1>3. ASSUME NEW s \in Stamp, NEW t \in Threads, BarrierOrders(s, StampOf(t, "Read", "Device"))'
      PROVE  \/ BarrierOrders(s, StampOf(t, "Read", "Device"))
             \/ \E g \in groups : s.thread \in g /\ t \in g
  <2>1. BlockOf(t) \in Blocks /\ s.thread \in Threads
    BY DEF Threads, BlockOf, Stamp
  <2>2. CASE BlockOf(t) = b /\ BlockOf(s.thread) = b
    <3>1. {s.thread, t} \subseteq HB!BlockThreads(b)
      BY <2>1, <2>2, SameHierarchy DEF HB!BlockThreads, HB!BlockOf, BlockOf
    <3> QED BY <3>1
  <2>3. CASE BlockOf(t) # b
    <3>1. blockEpoch'[BlockOf(t)] = blockEpoch[BlockOf(t)]
      BY <1>2, <2>1, <2>3 DEF TypeOK
    <3> QED BY <1>2, <1>3, <3>1 DEF BarrierOrders, StampOf
  <2>4. CASE BlockOf(s.thread) # BlockOf(t)
    BY <1>2, <1>3, <2>4 DEF BarrierOrders, StampOf
  <2> QED BY <2>2, <2>3, <2>4
<1> HIDE DEF groups
<1> QED BY <1>1, <1>3, BarrierEpochs

(* One more barrier of clusters orders only threads of one of them.        *)
LEMMA ClusterEpochs ==
  ASSUME TypeOK, PastClosed, EpochsSound, NEW cs \in SUBSET Clusters, ClusterRelease(cs)
  PROVE  EpochsSound'
<1> DEFINE groups == {HB!ClusterThreads(c) : c \in cs}
<1>1. groups \in SUBSET (SUBSET Threads) /\ BarrierOf(groups)
  BY ClusterReleaseGroups
<1>2. /\ clusterEpoch' = [c \in Clusters |-> IF c \in cs THEN clusterEpoch[c] + 1 ELSE clusterEpoch[c]]
      /\ UNCHANGED <<devEpoch, blockEpoch, subEpoch>>
  BY DEF ClusterRelease, ClusterBarriers
<1>3. ASSUME NEW s \in Stamp, NEW t \in Threads, BarrierOrders(s, StampOf(t, "Read", "Device"))'
      PROVE  \/ BarrierOrders(s, StampOf(t, "Read", "Device"))
             \/ \E g \in groups : s.thread \in g /\ t \in g
  <2>1. ClusterOf(t) \in Clusters /\ s.thread \in Threads
    BY DEF Threads, ClusterOf, Clusters, Stamp
  <2>2. CASE ClusterOf(t) \in cs /\ ClusterOf(s.thread) = ClusterOf(t)
    <3>1. {s.thread, t} \subseteq HB!ClusterThreads(ClusterOf(t))
      BY <2>1, <2>2, SameHierarchy
         DEF HB!ClusterThreads, HB!ClusterOf, ClusterOf, HB!ClusterOfBlock, ClusterOfBlock
    <3> QED BY <2>2, <3>1
  <2>3. CASE ClusterOf(t) \notin cs
    <3>1. clusterEpoch'[ClusterOf(t)] = clusterEpoch[ClusterOf(t)]
      BY <1>2, <2>1, <2>3
    <3> QED BY <1>2, <1>3, <3>1 DEF BarrierOrders, StampOf
  <2>4. CASE ClusterOf(s.thread) # ClusterOf(t)
    BY <1>2, <1>3, <2>4 DEF BarrierOrders, StampOf
  <2> QED BY <2>2, <2>3, <2>4
<1> HIDE DEF groups
<1> QED BY <1>1, <1>3, BarrierEpochs

(* A barrier of the grid orders every thread.                              *)
LEMMA DeviceEpochs ==
  ASSUME TypeOK, PastClosed, EpochsSound, DeviceRelease
  PROVE  EpochsSound'
<1>1. {Threads} \in SUBSET (SUBSET Threads) /\ BarrierOf({Threads})
  BY DeviceReleaseGroups
<1>2. ASSUME NEW s \in Stamp, NEW t \in Threads
      PROVE  \E g \in {Threads} : s.thread \in g /\ t \in g
  BY DEF Stamp
<1> QED BY <1>1, <1>2, BarrierEpochs

(* A barrier, with its epochs, preserves everything.                       *)
LEMMA BarrierSound ==
  ASSUME SoundInv, NEW groups \in SUBSET (SUBSET Threads), BarrierOf(groups), EpochTypes', EpochsSound'
  PROVE  SoundInv'
<1>1. /\ TypeOK /\ HistoryInv /\ ClocksBounded /\ EdgesInv /\ LogComplete
      /\ HB!Rendezvous(groups)
  BY DEF SoundInv, HistoryInv, EdgesInv, BarrierOf
<1>2. TypeOK' /\ ClocksBounded'
  BY <1>1, BarrierType
<1>3. HistoryInv'
  BY <1>1, RendezvousHistory
<1>4. EdgesInv'
  <2>1. \A t \in Threads : hb[t] \subseteq hb'[t]
    BY <1>1, RendezvousGrows
  <2>2. UNCHANGED <<edgeVars, log, hist, rel, seen, fences>>
    BY <1>1, RendezvousGrows DEF BarrierOf
  <2> QED BY <1>1, <2>1, <2>2, EdgesKept
<1>5. LogComplete'
  BY <1>1, LogKept, RendezvousGrows DEF BarrierOf
<1> QED BY <1>2, <1>3, <1>4, <1>5 DEF SoundInv, HistoryInv, EdgesInv

(* The order a stamp has to a thread does not depend on the sequence.      *)
LEMMA EpochsKept ==
  ASSUME TypeOK, EpochsSound, \A t \in Threads : hb[t] \subseteq hb'[t],
         UNCHANGED <<epochVars, log, hist>>
  PROVE  EpochsSound'
<1>1. \A k \in Keys : Stamps(k)' = Stamps(k)
  BY DEF Stamps
<1>2. ASSUME NEW k \in Keys, NEW s \in Stamps(k), NEW t \in Threads,
             BarrierOrders(s, StampOf(t, "Read", "Device"))'
      PROVE  s.seq \in hb'[t]
  <2>1. BarrierOrders(s, StampOf(t, "Read", "Device"))
    BY <1>2 DEF BarrierOrders, StampOf, epochVars
  <2> QED BY <2>1 DEF EpochsSound
<1> QED BY <1>1, <1>2 DEF EpochsSound

(* A refused access changes nothing that matters.                          *)
LEMMA RefuseSound ==
  ASSUME SoundInv, NEW t \in Threads, NEW site \in AccessSites, RefuseAccess(t, site)
  PROVE  SoundInv'
<1>1. /\ seq' = seq + 1 /\ seq \in Nat
      /\ UNCHANGED <<edgeVars, epochVars, log, hist, hb, rel, seen, fences>>
  BY DEF RefuseAccess, Refuse, historyVars, SoundInv, TypeOK
<1>2. TypeOK /\ ClocksBounded /\ EdgesInv /\ HistoryInv
  BY DEF SoundInv, EdgesInv, HistoryInv
<1>3. TypeOK' /\ ClocksBounded'
  BY <1>2, RefuseType
<1>4. EdgesInv'
  BY <1>1, <1>2, EdgesKept
<1>5. HistoryInv'
  <2>1. \A e \in hist : e.seq \in Nat
    BY <1>2, EventType
  <2>2. PastClosed'
    BY <1>1, <1>2, <2>1 DEF HistoryInv, PastClosed, Closed
  <2>3. PublicationsClosed'
    BY <1>1, <1>2 DEF HistoryInv, PublicationsClosed, Closed
  <2>4. ASSUME NEW events \in SUBSET Nat, UpToNow(events) PROVE UpToNow(events)'
    BY <1>1, <2>4 DEF UpToNow
  <2>5. \A u \in Threads : UpToNow(hb[u])'
    BY <1>2, <2>4, <1>1 DEF HistoryInv, HistoryBounded, TypeOK
  <2>6. \A k \in Keys : \A p \in rel[k] : UpToNow(p.before)'
    BY <1>2, <2>4, <1>1 DEF HistoryInv, HistoryBounded, TypeOK
  <2>7. \A u \in Threads : \A p \in seen[u] \cup fences[u] : UpToNow(p.before)'
    BY <1>2, <2>4, <1>1 DEF HistoryInv, HistoryBounded, TypeOK
  <2>8. HistoryBounded'
    BY <1>1, <2>5, <2>6, <2>7 DEF HistoryBounded, UpToNow
  <2> QED BY <2>2, <2>3, <2>8 DEF HistoryInv
<1>6. LogComplete'
  BY <1>1, LogKept DEF SoundInv
<1>7. EpochsSound'
  BY <1>1, <1>2, EpochsKept DEF SoundInv
<1> QED BY <1>3, <1>4, <1>5, <1>6, <1>7 DEF SoundInv, EdgesInv, HistoryInv

-----------------------------------------------------------------------------
(* Soundness: fences.                                                      *)

(* A publication both scopes let through is carried whole, and nothing is  *)
(* carried that was not published.                                         *)
LEMMA CarriedFacts ==
  ASSUME NEW pubs \in SUBSET Publications, NEW t \in Threads, NEW scope \in Scope
  PROVE  /\ \A p \in pubs : Contains(p.scope, p.from, t) /\ Contains(scope, p.from, t)
                              => p.before \subseteq HB!Carried(pubs, t, scope)
         /\ \A n \in HB!Carried(pubs, t, scope) : \E p \in pubs : n \in p.before
<1>1. ASSUME NEW p \in pubs, Contains(p.scope, p.from, t), Contains(scope, p.from, t)
      PROVE  HB!Contains(HB!Narrower(p.scope, scope), p.from, t)
  <2>1. p.scope \in Scope /\ p.from \in Threads
    BY DEF Publications
  <2>2. Contains(Narrower(p.scope, scope), p.from, t)
    BY <1>1, <2>1, ContainsNarrower
  <2> QED BY <2>2, SameScopes
<1>2. \A p \in pubs : Contains(p.scope, p.from, t) /\ Contains(scope, p.from, t)
                        => p.before \subseteq HB!Carried(pubs, t, scope)
  BY <1>1 DEF HB!Carried
<1>3. \A n \in HB!Carried(pubs, t, scope) : \E p \in pubs : n \in p.before
  BY DEF HB!Carried
<1> QED BY <1>2, <1>3

(* The past of a thread after a fence.                                     *)
FencedPast(t, order, scope) ==
  hb[t] \cup (IF Acquires(order) THEN HB!Carried(seen[t], t, scope) ELSE {})

(* What a fence does to the history.                                       *)
LEMMA FenceHistoryStep ==
  ASSUME TypeOK, NEW t \in Threads, NEW order \in Order, NEW scope \in Scope,
         HB!Fence(t, order, scope)
  PROVE  /\ FencedPast(t, order, scope) \in SUBSET Nat
         /\ seq' = seq + 1
         /\ hb'[t] = FencedPast(t, order, scope)
         /\ \A u \in Threads : u # t => hb'[u] = hb[u]
         /\ \A u \in Threads : hb[u] \subseteq hb'[u]
         /\ \A u \in Threads : u # t => fences'[u] = fences[u]
         /\ fences'[t] = IF Releases(order)
                           THEN fences[t] \cup {HB!Publication(t, scope, FencedPast(t, order, scope))}
                           ELSE fences[t]
         /\ UNCHANGED <<hist, rel, seen>>
<1>1. HB!Carried(seen[t], t, scope) \in SUBSET Nat
  BY CarriedType DEF TypeOK, Publications
<1>2. FencedPast(t, order, scope) \in SUBSET Nat
  BY <1>1 DEF TypeOK, FencedPast
<1>3. /\ seq' = seq + 1
      /\ hb' = [hb EXCEPT ![t] = FencedPast(t, order, scope)]
      /\ fences' = IF Releases(order)
                     THEN [fences EXCEPT ![t] = @ \cup {HB!Publication(t, scope, FencedPast(t, order, scope))}]
                     ELSE fences
      /\ UNCHANGED <<hist, rel, seen>>
  BY SameScopes DEF HB!Fence, FencedPast
<1>4. hb[t] \subseteq FencedPast(t, order, scope)
  BY DEF FencedPast
<1> HIDE DEF FencedPast
<1> QED BY <1>2, <1>3, <1>4 DEF TypeOK

(* A fence keeps the history closed and bounded.                           *)
LEMMA FenceHistory ==
  ASSUME TypeOK, HistoryInv, NEW t \in Threads, NEW order \in Order, NEW scope \in Scope,
         HB!Fence(t, order, scope)
  PROVE  HistoryInv'
<1> DEFINE past == FencedPast(t, order, scope)
<1>1. /\ past \in SUBSET Nat /\ seq' = seq + 1 /\ seq \in Nat
      /\ hb'[t] = past
      /\ \A u \in Threads : u # t => hb'[u] = hb[u]
      /\ \A u \in Threads : hb[u] \subseteq hb'[u]
      /\ \A u \in Threads : u # t => fences'[u] = fences[u]
      /\ fences'[t] = IF Releases(order) THEN fences[t] \cup {HB!Publication(t, scope, past)} ELSE fences[t]
      /\ UNCHANGED <<hist, rel, seen>>
  BY FenceHistoryStep DEF TypeOK
<1>2. \A n \in past : n \in hb[t] \/ \E p \in seen[t] : n \in p.before
  BY CarriedFacts DEF TypeOK, Publications, FencedPast
<1>4. Closed(past)
  <2> SUFFICES ASSUME NEW e \in hist, e.seq \in past PROVE e.after \subseteq past
    BY DEF Closed
  <2>1. CASE e.seq \in hb[t]
    <3>1. e.after \subseteq hb[t]
      BY <2>1 DEF HistoryInv, PastClosed, Closed
    <3> QED BY <3>1, <1>1
  <2>2. CASE e.seq \notin hb[t]
    <3>1. e.seq \in HB!Carried(seen[t], t, scope) /\ Acquires(order)
      BY <2>2 DEF FencedPast
    <3>2. PICK p \in {q \in seen[t] : HB!Contains(HB!Narrower(q.scope, scope), q.from, t)} : e.seq \in p.before
      BY <3>1 DEF HB!Carried
    <3>3. e.after \subseteq p.before
      BY <3>2 DEF HistoryInv, PublicationsClosed, Closed
    <3>4. p.before \subseteq HB!Carried(seen[t], t, scope)
      BY <3>2 DEF HB!Carried
    <3> QED BY <3>1, <3>3, <3>4 DEF FencedPast
  <2> QED BY <2>1, <2>2
<1>5. \A n \in past : n <= seq
  BY <1>2 DEF HistoryInv, HistoryBounded, UpToNow
<1>6. HB!Publication(t, scope, past).before = past
  BY DEF HB!Publication
<1> HIDE DEF past
<1>7. PastClosed'
  <2>1. \A e \in hist : e.seq <= seq' /\ e.seq \in e.after /\ e.before \subseteq e.after
    BY <1>1, EventType DEF HistoryInv, PastClosed
  <2>2. \A e \in hist : e.seq \in hb'[e.thread]
    BY <1>1, EventType DEF HistoryInv, PastClosed
  <2>3. \A u \in Threads : Closed(hb'[u])
    BY <1>1, <1>4 DEF HistoryInv, PastClosed
  <2> QED BY <1>1, <2>1, <2>2, <2>3 DEF HistoryInv, PastClosed, Closed
<1>8. PublicationsClosed'
  <2>1. \A u \in Threads : \A p \in fences'[u] : Closed(p.before)
    BY <1>1, <1>4, <1>6 DEF HistoryInv, PublicationsClosed
  <2> QED BY <1>1, <2>1 DEF HistoryInv, PublicationsClosed, Closed
<1>9. HistoryBounded'
  <2>1. \A n \in Nat : n <= seq => n <= seq'
    BY <1>1
  <2>2. \A u \in Threads : \A n \in hb'[u] : n <= seq'
    <3>1. ASSUME NEW u \in Threads, u # t, NEW n \in hb[u] PROVE n <= seq'
      BY <2>1 DEF HistoryInv, HistoryBounded, UpToNow, TypeOK
    <3>2. ASSUME NEW n \in past PROVE n <= seq'
      BY <1>1, <1>5, <2>1
    <3> QED BY <1>1, <3>1, <3>2
  <2>3. ASSUME NEW k \in Keys, NEW p \in rel[k], NEW n \in p.before PROVE n <= seq'
    <3>1. p \in Publications
      BY DEF TypeOK, Publications
    <3>2. n \in Nat /\ n <= seq
      BY <3>1 DEF Publications, HistoryInv, HistoryBounded, UpToNow
    <3> QED BY <2>1, <3>2
  <2>4. ASSUME NEW u \in Threads, NEW p \in seen[u] \cup fences[u], NEW n \in p.before PROVE n <= seq'
    <3>1. p \in Publications
      BY DEF TypeOK, Publications
    <3>2. n \in Nat /\ n <= seq
      BY <3>1 DEF Publications, HistoryInv, HistoryBounded, UpToNow
    <3> QED BY <2>1, <3>2
  <2>5. ASSUME NEW u \in Threads, NEW p \in fences'[u], NEW n \in p.before PROVE n <= seq'
    <3>1. CASE p \in fences[u]
      BY <2>4, <3>1
    <3>2. CASE p = HB!Publication(t, scope, past)
      <4>1. n \in past
        BY <1>6, <3>2
      <4>2. n \in Nat /\ n <= seq
        BY <1>1, <1>5, <4>1
      <4> QED BY <2>1, <4>2
    <3> QED BY <1>1, <3>1, <3>2
  <2> QED BY <1>1, <2>2, <2>3, <2>4, <2>5 DEF HistoryBounded, UpToNow
<1> QED BY <1>7, <1>8, <1>9 DEF HistoryInv

(* A set that covers a clock and every record in scope covers what the     *)
(* clock becomes by absorbing them.                                        *)
LEMMA AbsorbCovered ==
  ASSUME TypeOK, NEW clock \in Clock, Bounded(clock, seq),
         NEW recs \in SUBSET Record, \A r \in recs : Bounded(r.clock, seq),
         NEW t \in Threads, NEW scope \in Scope, NEW S,
         Covered(clock, S), \A r \in InScope(recs, t, scope) : Covered(r.clock, S)
  PROVE  Covered(Absorb(clock, recs, t, scope), S)
<1> SUFFICES ASSUME NEW e \in hist, e.seq <= Absorb(clock, recs, t, scope)[e.thread]
             PROVE  e.seq \in S
  BY DEF Covered
<1>1. e.thread \in Threads /\ seq \in Nat
  BY EventType DEF TypeOK
<1>2. \/ Absorb(clock, recs, t, scope)[e.thread] = clock[e.thread]
      \/ \E r \in InScope(recs, t, scope) : Absorb(clock, recs, t, scope)[e.thread] = r.clock[e.thread]
  BY <1>1, AbsorbClock
<1> QED BY <1>2 DEF Covered

(* A set that covers a clock and holds all accesses of a thread covers the *)
(* thread's snapshot of that clock.                                        *)
LEMMA SnapshotCovered ==
  ASSUME TypeOK, NEW clock \in Clock, Bounded(clock, seq), NEW t \in Threads, NEW S,
         Covered(clock, S), \A e \in hist : e.thread = t => e.seq \in S
  PROVE  Covered(Snapshot(clock, t, seq + 1), S)
<1> SUFFICES ASSUME NEW e \in hist, e.seq <= Snapshot(clock, t, seq + 1)[e.thread], e.thread # t
             PROVE  e.seq \in S
  BY DEF Covered
<1>1. e.thread \in Threads /\ seq \in Nat
  BY EventType DEF TypeOK
<1>2. Snapshot(clock, t, seq + 1)[e.thread] = clock[e.thread]
  BY <1>1, SnapshotClock
<1> QED BY <1>2 DEF Covered

(* A fence keeps what the edges stand for.                                 *)
LEMMA FenceEdges ==
  ASSUME TypeOK, ClocksBounded, HistoryInv, EdgesInv,
         NEW t \in Threads, NEW order \in Order, NEW scope \in Scope,
         FenceBy(t, order, scope), HB!Fence(t, order, scope)
  PROVE  EdgesInv'
<1> DEFINE past == FencedPast(t, order, scope)
           clock == AcquiredClock(t, pending[t], order, scope)
<1>1. /\ past \in SUBSET Nat
      /\ hb'[t] = past
      /\ \A u \in Threads : u # t => hb'[u] = hb[u]
      /\ \A u \in Threads : hb[u] \subseteq hb'[u]
      /\ \A u \in Threads : u # t => fences'[u] = fences[u]
      /\ fences'[t] = IF Releases(order) THEN fences[t] \cup {HB!Publication(t, scope, past)} ELSE fences[t]
      /\ UNCHANGED <<hist, rel, seen>>
  BY FenceHistoryStep
<1>2. /\ know' = [know EXCEPT ![t] = clock]
      /\ pending' = IF Acquires(order) THEN [pending EXCEPT ![t] = {}] ELSE pending
      /\ fenceRel' = IF Releases(order)
                       THEN [fenceRel EXCEPT ![t] = {[scope |-> scope, clock |-> Snapshot(clock, t, seq + 1)]}]
                       ELSE fenceRel
      /\ UNCHANGED <<records, log>>
  BY DEF FenceBy, AcquiredClock
<1>3. /\ know[t] \in Clock /\ Bounded(know[t], seq) /\ seq \in Nat
      /\ pending[t] \in SUBSET Record /\ \A r \in pending[t] : Bounded(r.clock, seq)
  BY DEF TypeOK, ClocksBounded, Bounded
<1>4. clock \in Clock /\ Bounded(clock, seq)
  BY <1>3, AbsorbClock DEF AcquiredClock
<1>5. hb[t] \subseteq past
  BY <1>1
<1>6. Covered(know[t], past)
  BY <1>5 DEF EdgesInv, KnowledgeSound, Covered
<1>7. ASSUME Acquires(order), NEW r \in InScope(pending[t], t, scope) PROVE Covered(r.clock, past)
  <2>1. r \in pending[t] /\ r.scope \in Scope /\ r.from \in Threads
    BY <1>3 DEF InScope, Record
  <2>2. Contains(r.scope, r.from, t) /\ Contains(scope, r.from, t)
    BY <2>1, ContainsNarrower DEF InScope
  <2>3. CASE Covered(r.clock, hb[t])
    BY <1>5, <2>3 DEF Covered
  <2>4. CASE \E p \in seen[t] : /\ p.from = r.from
                                /\ Contains(r.scope, r.from, t) => Contains(p.scope, r.from, t)
                                /\ Covered(r.clock, p.before)
    <3>1. PICK p \in seen[t] : /\ p.from = r.from
                               /\ Contains(p.scope, r.from, t)
                               /\ Covered(r.clock, p.before)
      BY <2>2, <2>4
    <3>2. seen[t] \in SUBSET Publications
      BY DEF TypeOK, Publications
    <3>3. p.before \subseteq HB!Carried(seen[t], t, scope)
      BY <2>2, <3>1, <3>2, CarriedFacts
    <3>4. p.before \subseteq past
      BY <1>7, <3>3 DEF FencedPast
    <3> QED BY <3>1, <3>4 DEF Covered
  <2> QED BY <2>1, <2>3, <2>4 DEF EdgesInv, PendingSound
<1>8. Covered(clock, past)
  <2>1. CASE Acquires(order)
    <3>1. \A r \in InScope(pending[t], t, scope) : Covered(r.clock, past)
      BY <1>7, <2>1
    <3> HIDE DEF past
    <3> QED BY <1>3, <1>6, <2>1, <3>1, AbsorbCovered DEF AcquiredClock
  <2>2. CASE ~Acquires(order)
    BY <1>6, <2>2 DEF AcquiredClock
  <2> QED BY <2>1, <2>2
<1>9. Covered(Snapshot(clock, t, seq + 1), past)
  <2>1. \A e \in hist : e.thread = t => e.seq \in past
    BY <1>5 DEF HistoryInv, PastClosed
  <2> HIDE DEF past, clock
  <2> QED BY <1>4, <1>8, <2>1, SnapshotCovered
<1> HIDE DEF past, clock
<1>10. KnowledgeSound'
  <2>1. ASSUME NEW u \in Threads, NEW e \in hist, e.seq <= know'[u][e.thread] PROVE e.seq \in hb'[u]
    <3>1. CASE u = t
      BY <1>1, <1>2, <1>8, <2>1, <3>1 DEF Covered, TypeOK
    <3>2. CASE u # t
      BY <1>1, <1>2, <2>1, <3>2 DEF EdgesInv, KnowledgeSound, Covered, TypeOK
    <3> QED BY <3>1, <3>2
  <2> QED BY <1>1, <2>1 DEF KnowledgeSound, Covered
<1>11. FencesSound'
  <2>1. ASSUME NEW u \in Threads, NEW f \in fenceRel[u]
        PROVE  /\ \E p \in fences'[u] : p.from = u /\ p.scope = f.scope /\ Covered(f.clock, p.before)
               /\ Covered(f.clock, hb'[u])
    <3>1. PICK p \in fences[u] : p.from = u /\ p.scope = f.scope /\ Covered(f.clock, p.before)
      BY DEF EdgesInv, FencesSound
    <3>2. p \in fences'[u]
      BY <1>1
    <3>3. Covered(f.clock, hb'[u])
      BY <1>1 DEF EdgesInv, FencesSound, Covered
    <3> QED BY <3>1, <3>2, <3>3
  <2>2. ASSUME Releases(order), NEW f, f = [scope |-> scope, clock |-> Snapshot(clock, t, seq + 1)]
        PROVE  /\ \E p \in fences'[t] : p.from = t /\ p.scope = f.scope /\ Covered(f.clock, p.before)
               /\ Covered(f.clock, hb'[t])
    <3> DEFINE p == HB!Publication(t, scope, past)
    <3>1. p \in fences'[t] /\ p.from = t /\ p.scope = scope /\ p.before = past
      BY <1>1, <2>2 DEF HB!Publication
    <3>2. f.scope = scope /\ f.clock = Snapshot(clock, t, seq + 1)
      BY <2>2
    <3> HIDE DEF p
    <3> QED BY <1>1, <1>9, <3>1, <3>2
  <2>3. ASSUME NEW u \in Threads, NEW f \in fenceRel'[u]
        PROVE  f \in fenceRel[u] \/ (u = t /\ Releases(order) /\ f = [scope |-> scope, clock |-> Snapshot(clock, t, seq + 1)])
    BY <1>2 DEF TypeOK
  <2>4. ASSUME NEW u \in Threads, NEW f \in fenceRel'[u]
        PROVE  /\ \E p \in fences'[u] : p.from = u /\ p.scope = f.scope /\ Covered(f.clock, p.before)
               /\ Covered(f.clock, hb'[u])
    BY <2>1, <2>2, <2>3
  <2> QED BY <1>1, <2>4 DEF FencesSound, Covered
<1>12. RecordsSound'
  BY <1>1, <1>2 DEF EdgesInv, RecordsSound, Live, Stale, Covered
<1>13. PendingSound'
  <2>1. ASSUME NEW u \in Threads, NEW r \in pending'[u] PROVE r \in pending[u]
    BY <1>2 DEF TypeOK
  <2> QED BY <1>1, <2>1 DEF EdgesInv, PendingSound, Covered
<1> QED BY <1>10, <1>11, <1>12, <1>13 DEF EdgesInv

(* A fence preserves everything.                                           *)
LEMMA FenceSound ==
  ASSUME SoundInv, NEW t \in Threads, NEW f \in FenceSites, Fence(t, f)
  PROVE  SoundInv'
<1>1. f.order \in Order /\ f.scope \in Scope
  BY SitesAssumption
<1>2. FenceBy(t, f.order, f.scope) /\ HB!Fence(t, f.order, f.scope)
  BY DEF Fence
<1>3. TypeOK /\ ClocksBounded /\ HistoryInv /\ EdgesInv /\ LogComplete /\ EpochsSound
  BY DEF SoundInv, HistoryInv, EdgesInv
<1>4. TypeOK' /\ ClocksBounded'
  BY <1>3, FenceType
<1>5. HistoryInv' /\ EdgesInv'
  BY <1>1, <1>2, <1>3, FenceHistory, FenceEdges
<1>6. (\A u \in Threads : hb[u] \subseteq hb'[u]) /\ UNCHANGED <<epochVars, log, hist>>
  BY <1>1, <1>2, <1>3, FenceHistoryStep DEF FenceBy
<1>7. LogComplete' /\ EpochsSound'
  BY <1>3, <1>6, LogKept, EpochsKept
<1> QED BY <1>4, <1>5, <1>7 DEF SoundInv, HistoryInv, EdgesInv

-----------------------------------------------------------------------------
(* Soundness: accesses.                                                    *)

(* An event is in a thread's past with everything up to and after it.      *)
Before(t, n) == n \in hb[t] /\ \A e \in hist : e.seq = n => e.before \subseteq hb[t] /\ e.after \subseteq hb[t]

(* A stamp the detector finds ordered is of an event that happens before.  *)
LEMMA OrderedStamp ==
  ASSUME SoundInv, NEW k \in Keys, NEW s \in Stamps(k), NEW t \in Threads,
         NEW kind \in Kind, NEW scope \in Scope, ~Unordered(s, StampOf(t, kind, scope))
  PROVE  Before(t, s.seq)
<1>1. TypeOK /\ PastClosed /\ KnowledgeSound /\ EpochsSound
  BY DEF SoundInv
<1>2. /\ s \in Stamp /\ s.thread \in Threads /\ s.seq \in Nat /\ s.seq \in hb[s.thread]
      /\ \E e \in hist : e.seq = s.seq /\ e.thread = s.thread
  BY <1>1, StampHappened
<1>3. PICK e \in hist : e.seq = s.seq /\ e.thread = s.thread
  BY <1>2
<1>4. s.seq \in hb[t]
  <2>1. CASE BarrierOrders(s, StampOf(t, kind, scope))
    <3>1. BarrierOrders(s, StampOf(t, "Read", "Device"))
      BY <2>1 DEF BarrierOrders, StampOf
    <3> QED BY <1>1, <3>1 DEF EpochsSound
  <2>2. CASE s.thread = t
    BY <1>2, <2>2
  <2>3. CASE Knows(StampOf(t, kind, scope), s)
    <3>1. s.seq <= know[t][s.thread]
      BY <1>1, <1>2, <2>3 DEF Knows, StampOf, TypeOK, Clock
    <3> QED BY <1>1, <1>3, <3>1 DEF KnowledgeSound, Covered
  <2>4. StampOf(t, kind, scope).thread = t
    BY DEF StampOf
  <2> QED BY <2>1, <2>2, <2>3, <2>4 DEF Unordered
<1>5. \A f \in hist : f.seq = s.seq => f.before \subseteq hb[t] /\ f.after \subseteq hb[t]
  BY <1>1, <1>4 DEF PastClosed, Closed
<1> QED BY <1>4, <1>5 DEF Before

(* What admitting an access means for the stamps of its element.           *)
AdmittedAt(t, k, kind, scope) ==
  /\ \A s \in log[k].writer : Before(t, s.seq)
  /\ kind # "Atomic" => \A s \in log[k].atomics : Before(t, s.seq)
  /\ kind # "Read" => \A s \in log[k].readers : Before(t, s.seq)
  /\ kind = "Atomic" => \A s \in log[k].atomics : Contains(scope, s.thread, t)

(* When touch admits an access, each stamp the log still holds and that    *)
(* conflicts with it is in the thread's past: by program order, by a       *)
(* barrier, or by an acquire.                                              *)
LEMMA AdmittedStamps ==
  ASSUME SoundInv, NEW k \in Keys, NEW t \in Threads, NEW kind \in Kind, NEW scope \in Scope,
         ~Races(log[k], StampOf(t, kind, scope), kind)
  PROVE  AdmittedAt(t, k, kind, scope)
<1> DEFINE now == StampOf(t, kind, scope)
<1>1. log[k].writer \subseteq Stamps(k) /\ log[k].atomics \subseteq Stamps(k) /\ log[k].readers \subseteq Stamps(k)
  BY DEF Stamps
<1>2. ASSUME NEW s \in log[k].writer PROVE Before(t, s.seq)
  <2>1. ~Unordered(s, now)
    BY DEF Races
  <2> QED BY <1>1, <2>1, OrderedStamp
<1>3. ASSUME kind # "Atomic", NEW s \in log[k].atomics PROVE Before(t, s.seq)
  <2>1. ~Unordered(s, now)
    BY <1>3 DEF Races
  <2> QED BY <1>1, <2>1, OrderedStamp
<1>4. ASSUME kind # "Read", NEW s \in log[k].readers PROVE Before(t, s.seq)
  <2>1. ~Unordered(s, now)
    BY <1>4 DEF Races
  <2> QED BY <1>1, <2>1, OrderedStamp
<1>5. ASSUME kind = "Atomic", NEW s \in log[k].atomics PROVE Contains(scope, s.thread, t)
  <2>1. ~OutOfScope(s, now)
    BY <1>5 DEF Races
  <2>2. now.thread = t /\ now.scope = scope
    BY <1>5 DEF StampOf
  <2>3. s \in Stamp
    BY <1>1, StampHappened DEF SoundInv
  <2>4. Contains(Narrower(s.scope, scope), s.thread, t)
    BY <2>1, <2>2 DEF OutOfScope
  <2>5. s.scope \in Scope /\ s.thread \in Threads
    BY <2>3 DEF Stamp
  <2> QED BY <2>4, <2>5, ContainsNarrower
<1> QED BY <1>2, <1>3, <1>4, <1>5 DEF AdmittedAt

(* The event a stamp stands for carries what it stands for with it.        *)
LEMMA StandsBefore ==
  ASSUME SoundInv, NEW t \in Threads, NEW e \in hist, NEW stamps,
         Stands(e, stamps), \A s \in stamps : Before(t, s.seq)
  PROVE  e.seq \in hb[t]
<1>1. PICK s \in stamps : \E f \in hist : f.seq = s.seq /\ (e = f \/ e.seq \in f.before)
  BY DEF Stands
<1>2. PICK f \in hist : f.seq = s.seq /\ (e = f \/ e.seq \in f.before)
  BY <1>1
<1> QED BY <1>1, <1>2 DEF Before

(* The rule is sound: an access that is admitted is one the abstract       *)
(* specification allows, each conflicting earlier access being in the      *)
(* thread's past.                                                          *)
LEMMA AdmittedIsOrdered ==
  ASSUME SoundInv, NEW k \in Keys, NEW t \in Threads, NEW kind \in Kind, NEW scope \in Scope,
         ~Races(log[k], StampOf(t, kind, scope), kind)
  PROVE  HB!Ordered(t, k, kind)
<1> SUFFICES ASSUME NEW p \in hist, p.key = k, HB!Conflict(p.kind, kind)
             PROVE  p.seq \in hb[t]
  BY DEF HB!Ordered
<1>1. AdmittedAt(t, k, kind, scope)
  BY AdmittedStamps
<1>2. Stands(p, Standing(log[k], p.kind))
  BY DEF SoundInv, LogComplete
<1>3. p.kind \in Kind
  BY EventType DEF SoundInv
<1>4. \A s \in Standing(log[k], p.kind) : Before(t, s.seq)
  <2>1. CASE p.kind = "Write"
    BY <1>1, <2>1 DEF Standing, AdmittedAt
  <2>2. CASE p.kind = "Atomic"
    <3>1. kind # "Atomic"
      BY <2>2 DEF HB!Conflict
    <3> QED BY <1>1, <2>2, <3>1 DEF Standing, AdmittedAt
  <2>3. CASE p.kind = "Read"
    <3>1. kind # "Read"
      BY <2>3 DEF HB!Conflict
    <3> QED BY <1>1, <2>3, <3>1 DEF Standing, AdmittedAt
  <2> QED BY <1>3, <2>1, <2>2, <2>3 DEF Kind
<1> QED BY <1>2, <1>4, StandsBefore

(* The past of a thread once it has made an access, and that access.       *)
Gained(t, k, kind, order, scope) ==
  IF kind = "Atomic" /\ Acquires(order) THEN HB!Carried(rel[k], t, scope) ELSE {}

PastAfter(t, k, kind, order, scope) == hb[t] \cup {seq + 1} \cup Gained(t, k, kind, order, scope)

EventOf(t, k, kind, order, scope) ==
  [seq |-> seq + 1, thread |-> t, key |-> k, kind |-> kind, scope |-> scope,
   before |-> hb[t], after |-> PastAfter(t, k, kind, order, scope)]

(* What an atomic publishes, and what it notices for an acquire fence.     *)
PublishedBy(t, k, kind, order, scope) ==
  HB!Published(t, order, scope, PastAfter(t, k, kind, order, scope))

Noticed(k, scope) == {HB!Publication(p.from, HB!Narrower(p.scope, scope), p.before) : p \in rel[k]}

(* What an access does to the history.                                     *)
Performed(t, k, kind, order, scope) ==
  /\ seq' = seq + 1
  /\ hist' = hist \cup {EventOf(t, k, kind, order, scope)}
  /\ hb'[t] = PastAfter(t, k, kind, order, scope)
  /\ \A u \in Threads : u # t => hb'[u] = hb[u]
  /\ \A u \in Threads : hb[u] \subseteq hb'[u]
  /\ \A j \in Keys : j # k => rel'[j] = rel[j]
  /\ kind = "Read" => rel'[k] = rel[k]
  /\ kind = "Write" => rel'[k] = {}
  /\ kind = "Atomic" => rel'[k] = rel[k] \cup PublishedBy(t, k, kind, order, scope)
  /\ \A u \in Threads : u # t => seen'[u] = seen[u]
  /\ seen'[t] = IF kind = "Atomic" THEN seen[t] \cup Noticed(k, scope) ELSE seen[t]
  /\ fences' = fences

(* HB!Perform, unfolded into the names above.                              *)
LEMMA PerformStep ==
  ASSUME TypeOK, NEW t \in Threads, NEW k \in Keys, NEW kind \in Kind,
         NEW order \in Order, NEW scope \in Scope,
         HB!Perform(t, k, kind, order, scope)
  PROVE  Performed(t, k, kind, order, scope)
<1> DEFINE past == PastAfter(t, k, kind, order, scope)
           event == EventOf(t, k, kind, order, scope)
           published == PublishedBy(t, k, kind, order, scope)
           noticed == Noticed(k, scope)
<1>1. hb \in [Threads -> SUBSET Nat] /\ DOMAIN rel = Keys /\ DOMAIN seen = Threads
  BY DEF TypeOK
<1>2. /\ seq' = seq + 1
      /\ hist' = hist \cup {event}
      /\ hb' = [hb EXCEPT ![t] = past]
      /\ rel' = [rel EXCEPT ![k] = CASE kind = "Read"   -> @
                                     [] kind = "Write"  -> {}
                                     [] kind = "Atomic" -> @ \cup published]
      /\ seen' = IF kind = "Atomic" THEN [seen EXCEPT ![t] = @ \cup noticed] ELSE seen
      /\ fences' = fences
  BY SameScopes DEF HB!Perform, PastAfter, EventOf, PublishedBy, Noticed, Gained
<1>3. hb[t] \subseteq past
  BY DEF PastAfter
<1> HIDE DEF past, event, published, noticed
<1>4. /\ hb'[t] = past
      /\ \A u \in Threads : u # t => hb'[u] = hb[u]
      /\ \A u \in Threads : hb[u] \subseteq hb'[u]
  BY <1>1, <1>2, <1>3
<1>5. \A j \in Keys : j # k => rel'[j] = rel[j]
  BY <1>1, <1>2
<1>6. /\ kind = "Read" => rel'[k] = rel[k]
      /\ kind = "Write" => rel'[k] = {}
      /\ kind = "Atomic" => rel'[k] = rel[k] \cup published
  <2>1. rel'[k] = CASE kind = "Read"   -> rel[k]
                    [] kind = "Write"  -> {}
                    [] kind = "Atomic" -> rel[k] \cup published
    BY <1>1, <1>2
  <2> QED BY <2>1
<1>7. /\ \A u \in Threads : u # t => seen'[u] = seen[u]
      /\ seen'[t] = IF kind = "Atomic" THEN seen[t] \cup noticed ELSE seen[t]
  BY <1>1, <1>2
<1> QED BY <1>2, <1>4, <1>5, <1>6, <1>7 DEF past, event, published, noticed, Performed

(* The past it has then: old events, the new one, nothing else.            *)
LEMMA PastAfterFacts ==
  ASSUME TypeOK, HistoryInv, NEW t \in Threads, NEW k \in Keys, NEW kind \in Kind,
         NEW order \in Order, NEW scope \in Scope
  PROVE  /\ PastAfter(t, k, kind, order, scope) \in SUBSET Nat
         /\ hb[t] \subseteq PastAfter(t, k, kind, order, scope)
         /\ seq + 1 \in PastAfter(t, k, kind, order, scope)
         /\ Closed(PastAfter(t, k, kind, order, scope))
         /\ \A n \in PastAfter(t, k, kind, order, scope) : n <= seq + 1
<1> DEFINE gained == Gained(t, k, kind, order, scope)
           past == PastAfter(t, k, kind, order, scope)
<1>1. seq \in Nat /\ hb[t] \in SUBSET Nat /\ rel[k] \in SUBSET Publications
  BY DEF TypeOK, Publications
<1>2. gained \in SUBSET Nat /\ \A n \in gained : \E p \in rel[k] : n \in p.before /\ p.before \subseteq gained
  <2>1. HB!Carried(rel[k], t, scope) \in SUBSET Nat
    BY <1>1, CarriedType
  <2>2. \A n \in HB!Carried(rel[k], t, scope) :
          \E p \in rel[k] : n \in p.before /\ p.before \subseteq HB!Carried(rel[k], t, scope)
    BY DEF HB!Carried
  <2> QED BY <2>1, <2>2 DEF Gained
<1>3. past = hb[t] \cup {seq + 1} \cup gained
  BY DEF PastAfter
<1> HIDE DEF gained, past
<1>4. past \in SUBSET Nat /\ hb[t] \subseteq past /\ seq + 1 \in past
  <2>1. gained \in SUBSET Nat /\ seq + 1 \in Nat
    BY <1>1, <1>2
  <2> QED BY <1>1, <1>3, <2>1
<1>5. ASSUME NEW e \in hist, e.seq \in past PROVE e.after \subseteq past
  <2>1. e.seq # seq + 1
    BY <1>1, EventType DEF HistoryInv, PastClosed
  <2>2. CASE e.seq \in hb[t]
    <3>1. e.after \subseteq hb[t]
      BY <2>2 DEF HistoryInv, PastClosed, Closed
    <3> QED BY <1>4, <3>1
  <2>3. CASE e.seq \in gained
    <3>1. PICK p \in rel[k] : e.seq \in p.before /\ p.before \subseteq gained
      BY <1>2, <2>3
    <3>2. e.after \subseteq p.before
      BY <3>1 DEF HistoryInv, PublicationsClosed, Closed
    <3> QED BY <1>3, <3>1, <3>2
  <2> QED BY <1>3, <1>5, <2>1, <2>2, <2>3
<1>6. ASSUME NEW n \in past PROVE n <= seq + 1
  <2>1. CASE n \in hb[t]
    <3>1. n <= seq /\ n \in Nat
      BY <1>1, <2>1 DEF HistoryInv, HistoryBounded, UpToNow
    <3> QED BY <1>1, <3>1
  <2>2. CASE n \in gained
    <3>1. PICK p \in rel[k] : n \in p.before
      BY <1>2, <2>2
    <3>2. n <= seq /\ n \in Nat
      BY <1>2, <2>2, <3>1 DEF HistoryInv, HistoryBounded, UpToNow
    <3> QED BY <1>1, <3>2
  <2>3. CASE n = seq + 1
    BY <1>1, <2>3
  <2> QED BY <1>3, <2>1, <2>2, <2>3
<1> QED BY <1>4, <1>5, <1>6 DEF Closed, past

(* A closed set of old events stays closed: the new event is not in it.    *)
LEMMA ClosedKept ==
  ASSUME TypeOK, NEW event, hist' = hist \cup {event}, event.seq = seq + 1,
         NEW events \in SUBSET Nat, Closed(events), UpToNow(events)
  PROVE  \A e \in hist' : e.seq \in events => e.after \subseteq events
<1>1. seq \in Nat
  BY DEF TypeOK
<1>2. event.seq \notin events
  BY <1>1 DEF UpToNow
<1> QED BY <1>2 DEF Closed

(* An access keeps the history closed and bounded.                         *)
LEMMA AccessHistory ==
  ASSUME TypeOK, HistoryInv, NEW t \in Threads, NEW k \in Keys, NEW kind \in Kind,
         NEW order \in Order, NEW scope \in Scope,
         HB!Perform(t, k, kind, order, scope)
  PROVE  HistoryInv'
<1> DEFINE past == PastAfter(t, k, kind, order, scope)
           event == EventOf(t, k, kind, order, scope)
           published == PublishedBy(t, k, kind, order, scope)
           noticed == Noticed(k, scope)
           Good(events) == /\ events \in SUBSET Nat
                           /\ \A n \in events : n <= seq'
                           /\ \A e \in hist' : e.seq \in events => e.after \subseteq events
<1>1. /\ seq' = seq + 1
      /\ hist' = hist \cup {event}
      /\ hb'[t] = past
      /\ \A u \in Threads : u # t => hb'[u] = hb[u]
      /\ \A u \in Threads : hb[u] \subseteq hb'[u]
      /\ \A j \in Keys : j # k => rel'[j] = rel[j]
      /\ kind = "Read" => rel'[k] = rel[k]
      /\ kind = "Write" => rel'[k] = {}
      /\ kind = "Atomic" => rel'[k] = rel[k] \cup published
      /\ \A u \in Threads : u # t => seen'[u] = seen[u]
      /\ seen'[t] = IF kind = "Atomic" THEN seen[t] \cup noticed ELSE seen[t]
      /\ fences' = fences
  <2>1. Performed(t, k, kind, order, scope)
    BY PerformStep
  <2> QED BY <2>1 DEF Performed
<1>2. /\ past \in SUBSET Nat /\ hb[t] \subseteq past /\ seq + 1 \in past
      /\ Closed(past) /\ \A n \in past : n <= seq + 1
  BY PastAfterFacts
<1>3. /\ event.seq = seq + 1 /\ event.thread = t /\ event.before = hb[t] /\ event.after = past
      /\ seq \in Nat /\ hist' \subseteq Event /\ seq' \in Nat
  <2>1. hist' \subseteq Event
    BY PerformType DEF HistoryTypes
  <2> QED BY <1>1, <2>1 DEF EventOf, TypeOK
<1>4. ASSUME NEW events \in SUBSET Nat, Closed(events), UpToNow(events) PROVE Good(events)
  <2>1. \A e \in hist' : e.seq \in events => e.after \subseteq events
    BY <1>1, <1>3, <1>4, ClosedKept
  <2>2. \A n \in events : n <= seq'
    BY <1>1, <1>3, <1>4 DEF UpToNow
  <2> QED BY <2>1, <2>2
<1>5. Good(past)
  <2>1. \A e \in hist : e.seq \in past => e.after \subseteq past
    BY <1>2 DEF Closed
  <2> QED BY <1>1, <1>2, <1>3, <2>1
<1>6. \A u \in Threads : Good(hb[u])
  <2> TAKE u \in Threads
  <2>1. hb[u] \in SUBSET Nat /\ Closed(hb[u]) /\ UpToNow(hb[u])
    BY DEF HistoryInv, PastClosed, HistoryBounded, TypeOK
  <2> QED BY <1>4, <2>1
<1>7. \A j \in Keys : \A p \in rel[j] : Good(p.before)
  <2> TAKE j \in Keys
  <2> TAKE p \in rel[j]
  <2>1. p.before \in SUBSET Nat /\ Closed(p.before) /\ UpToNow(p.before)
    BY DEF HistoryInv, PublicationsClosed, HistoryBounded, TypeOK
  <2> QED BY <1>4, <2>1
<1>8. \A u \in Threads : \A p \in seen[u] \cup fences[u] : Good(p.before)
  <2> TAKE u \in Threads
  <2> TAKE p \in seen[u] \cup fences[u]
  <2>1. p.before \in SUBSET Nat /\ Closed(p.before) /\ UpToNow(p.before)
    BY DEF HistoryInv, PublicationsClosed, HistoryBounded, TypeOK
  <2> QED BY <1>4, <2>1
<1>9. \A p \in published : p.before = past \/ \E f \in fences[t] : p.before = f.before
  BY DEF PublishedBy, HB!Published, HB!Publication
<1>10. \A p \in noticed : \E q \in rel[k] : p.before = q.before
  BY DEF Noticed, HB!Publication
<1> HIDE DEF past, event, published, noticed
<1>11. \A u \in Threads : Good(hb'[u])
  <2> HIDE DEF Good
  <2> QED BY <1>1, <1>5, <1>6
<1>12. \A j \in Keys : \A p \in rel'[j] : Good(p.before)
  <2> HIDE DEF Good
  <2>1. ASSUME NEW j \in Keys, NEW p \in rel'[j] PROVE p \in rel[j] \/ p \in published
    <3>1. CASE j = k
      BY <1>1, <2>1, <3>1 DEF Kind
    <3>2. CASE j # k
      BY <1>1, <2>1, <3>2
    <3> QED BY <3>1, <3>2
  <2>2. \A p \in published : Good(p.before)
    BY <1>5, <1>8, <1>9
  <2> QED BY <1>7, <2>1, <2>2
<1>13. \A u \in Threads : \A p \in seen'[u] \cup fences'[u] : Good(p.before)
  <2> HIDE DEF Good
  <2>1. \A p \in noticed : Good(p.before)
    BY <1>7, <1>10
  <2>2. ASSUME NEW u \in Threads, NEW p \in seen'[u] PROVE p \in seen[u] \/ p \in noticed
    <3>1. CASE u = t
      BY <1>1, <2>2, <3>1
    <3>2. CASE u # t
      BY <1>1, <2>2, <3>2
    <3> QED BY <3>1, <3>2
  <2> QED BY <1>1, <1>8, <2>1, <2>2
<1>14. PastClosed'
  <2>1. \A e \in hist' : e.seq <= seq' /\ e.seq \in e.after /\ e.before \subseteq e.after
    <3>1. \A e \in hist : e.seq <= seq' /\ e.seq \in e.after /\ e.before \subseteq e.after
      BY <1>1, <1>3, EventType DEF HistoryInv, PastClosed
    <3>2. event.seq <= seq' /\ event.seq \in event.after /\ event.before \subseteq event.after
      BY <1>1, <1>2, <1>3
    <3> QED BY <1>1, <3>1, <3>2
  <2>2. \A e, f \in hist' : e.seq = f.seq => e = f
    <3>1. \A e \in hist : e.seq # seq + 1
      BY <1>3, EventType DEF HistoryInv, PastClosed
    <3>2. \A e, f \in hist : e.seq = f.seq => e = f
      BY DEF HistoryInv, PastClosed
    <3> QED BY <1>1, <1>3, <3>1, <3>2
  <2>3. \A e \in hist' : e.seq \in hb'[e.thread]
    <3>1. \A e \in hist : e.seq \in hb'[e.thread]
      BY <1>1, EventType DEF HistoryInv, PastClosed
    <3>2. event.seq \in hb'[event.thread]
      BY <1>1, <1>2, <1>3
    <3> QED BY <1>1, <3>1, <3>2
  <2> QED BY <1>11, <2>1, <2>2, <2>3 DEF PastClosed, Closed
<1>15. PublicationsClosed'
  BY <1>12, <1>13 DEF PublicationsClosed, Closed
<1>16. HistoryBounded'
  BY <1>11, <1>12, <1>13 DEF HistoryBounded, UpToNow
<1> QED BY <1>14, <1>15, <1>16 DEF HistoryInv

(* A thread's own stamps are of events before its next one.                *)
LEMMA OwnStamp ==
  ASSUME SoundInv, NEW k \in Keys, NEW s \in Stamps(k)
  PROVE  Before(s.thread, s.seq)
<1>1. s.seq \in hb[s.thread] /\ s.thread \in Threads
  BY StampHappened DEF SoundInv
<1>2. \A f \in hist : f.seq = s.seq => f.before \subseteq hb[s.thread] /\ f.after \subseteq hb[s.thread]
  BY <1>1 DEF SoundInv, PastClosed, Closed
<1> QED BY <1>1, <1>2 DEF Before

(* A stamp the log drops for a new one of an admitted access, or keeps.    *)
LEMMA StandsKept ==
  ASSUME SoundInv, NEW t \in Threads, NEW k \in Keys, NEW kind \in Kind, NEW scope \in Scope,
         ~Races(log[k], StampOf(t, kind, scope), kind), NEW e \in hist, e.key = k
  PROVE  LET now == StampOf(t, kind, scope)
             after == Standing(Logged(log[k], now, kind), e.kind)
         IN  Stands(e, after) \/ (now \in after /\ e.seq \in hb[t])
<1> DEFINE now == StampOf(t, kind, scope)
           after == Standing(Logged(log[k], now, kind), e.kind)
<1>1. e.kind \in Kind /\ now.thread = t /\ log[k] \in Entry
  BY EventType DEF SoundInv, TypeOK, StampOf
<1>2. PICK s \in Standing(log[k], e.kind) : \E f \in hist : f.seq = s.seq /\ (e = f \/ e.seq \in f.before)
  BY DEF SoundInv, LogComplete, Stands
<1>3. s \in Stamps(k)
  BY <1>1 DEF Standing, Stamps, Kind
<1>4. ASSUME s.thread = t PROVE e.seq \in hb[t]
  BY <1>2, <1>3, <1>4, OwnStamp DEF Before
<1>5. s \in after => Stands(e, after)
  BY <1>2 DEF Stands
<1>6. CASE kind = "Write"
  <2>1. HB!Conflict(e.kind, kind)
    BY <1>6 DEF HB!Conflict
  <2>2. e.seq \in hb[t]
    BY <2>1, AdmittedIsOrdered DEF HB!Ordered
  <2>3. now \in after
    BY <1>6 DEF Standing, Logged
  <2> QED BY <2>2, <2>3
<1>7. CASE kind = "Atomic"
  <2>1. Logged(log[k], now, kind) = [log[k] EXCEPT !.atomics = Noted(log[k].atomics, now)]
    BY <1>7 DEF Logged
  <2>2. /\ Logged(log[k], now, kind).writer = log[k].writer
        /\ Logged(log[k], now, kind).readers = log[k].readers
        /\ Logged(log[k], now, kind).atomics = Noted(log[k].atomics, now)
    BY <1>1, <2>1 DEF Entry
  <2>3. CASE s \in after
    BY <1>5, <2>3
  <2>4. CASE s \notin after
    <3>1. e.kind = "Atomic" /\ s \in log[k].atomics /\ s \notin Noted(log[k].atomics, now)
      BY <1>1, <1>2, <2>2, <2>4 DEF Standing, Kind
    <3>2. s.thread = t
      BY <1>1, <3>1 DEF Noted
    <3>3. now \in after
      BY <2>2, <3>1 DEF Standing, Noted
    <3> QED BY <1>4, <3>2, <3>3
  <2> QED BY <2>3, <2>4
<1>8. CASE kind = "Read"
  <2>1. Logged(log[k], now, kind) = [log[k] EXCEPT !.readers = Noted(log[k].readers, now)]
    BY <1>8 DEF Logged
  <2>2. /\ Logged(log[k], now, kind).writer = log[k].writer
        /\ Logged(log[k], now, kind).atomics = log[k].atomics
        /\ Logged(log[k], now, kind).readers = Noted(log[k].readers, now)
    BY <1>1, <2>1 DEF Entry
  <2>3. CASE s \in after
    BY <1>5, <2>3
  <2>4. CASE s \notin after
    <3>1. e.kind = "Read" /\ s \in log[k].readers /\ s \notin Noted(log[k].readers, now)
      BY <1>1, <1>2, <2>2, <2>4 DEF Standing, Kind
    <3>2. s.thread = t
      BY <1>1, <3>1 DEF Noted
    <3>3. now \in after
      BY <2>2, <3>1 DEF Standing, Noted
    <3> QED BY <1>4, <3>2, <3>3
  <2> QED BY <2>3, <2>4
<1> QED BY <1>6, <1>7, <1>8 DEF Kind

(* An admitted access leaves every access stood for.                       *)
LEMMA AccessLog ==
  ASSUME SoundInv, NEW t \in Threads, NEW k \in Keys, NEW kind \in Kind,
         NEW order \in Order, NEW scope \in Scope,
         Admit(t, k, kind, order, scope), HB!Perform(t, k, kind, order, scope)
  PROVE  LogComplete'
<1> DEFINE now == StampOf(t, kind, scope)
           event == EventOf(t, k, kind, order, scope)
<1>0. TypeOK
  BY DEF SoundInv
<1>1. hist' = hist \cup {event}
  <2>1. Performed(t, k, kind, order, scope)
    BY <1>0, PerformStep
  <2> QED BY ONLY <2>1 DEF Performed
<1>2. ~Races(log[k], now, kind) /\ log' = [log EXCEPT ![k] = Logged(log[k], now, kind)]
  BY DEF Admit
<1>3. log \in [Keys -> Entry] /\ now.seq = seq + 1
  BY DEF SoundInv, TypeOK, StampOf
<1>4. event.seq = seq + 1 /\ event.key = k /\ event.kind = kind /\ event.before = hb[t]
  BY DEF EventOf
<1>5. now \in Standing(Logged(log[k], now, kind), kind)
  <2>1. log[k] \in Entry
    BY <1>3
  <2>2. CASE kind = "Write"
    BY <2>2 DEF Standing, Logged
  <2>3. CASE kind = "Atomic"
    BY <2>1, <2>3 DEF Standing, Logged, Noted, Entry
  <2>4. CASE kind = "Read"
    BY <2>1, <2>4 DEF Standing, Logged, Noted, Entry
  <2> QED BY <2>2, <2>3, <2>4 DEF Kind
<1>6. \A e \in hist : e.key = k =>
        \/ Stands(e, Standing(Logged(log[k], now, kind), e.kind))
        \/ now \in Standing(Logged(log[k], now, kind), e.kind) /\ e.seq \in hb[t]
  BY <1>2, StandsKept
<1> HIDE DEF now, event
<1>7. /\ log'[k] = Logged(log[k], now, kind)
      /\ \A j \in Keys : j # k => log'[j] = log[j]
  BY <1>2, <1>3
<1>8. ASSUME NEW e \in hist'
      PROVE  \E s \in Standing(log'[e.key], e.kind) : \E f \in hist' : f.seq = s.seq /\ (e = f \/ e.seq \in f.before)
  <2>1. CASE e = event
    BY <1>1, <1>3, <1>4, <1>5, <1>7, <2>1
  <2>2. CASE e \in hist /\ e.key # k
    <3>1. e.key \in Keys
      BY <2>2, EventType DEF SoundInv
    <3>2. Stands(e, Standing(log[e.key], e.kind))
      BY <2>2 DEF SoundInv, LogComplete
    <3> QED BY <1>1, <1>7, <2>2, <3>1, <3>2 DEF Stands
  <2>3. CASE e \in hist /\ e.key = k
    <3>1. CASE Stands(e, Standing(log'[k], e.kind))
      BY <1>1, <2>3, <3>1 DEF Stands
    <3>2. CASE now \in Standing(log'[k], e.kind) /\ e.seq \in hb[t]
      BY <1>1, <1>3, <1>4, <2>3, <3>2
    <3> QED BY <1>6, <1>7, <2>3, <3>1, <3>2
  <2> QED BY <1>1, <1>8, <2>1, <2>2, <2>3
<1> QED BY <1>8 DEF LogComplete, Stands, Standing

(* An access leaves only stamps of events, and adds no order.              *)
LEMMA AccessEpochs ==
  ASSUME SoundInv, NEW t \in Threads, NEW k \in Keys, NEW kind \in Kind,
         NEW order \in Order, NEW scope \in Scope,
         Admit(t, k, kind, order, scope), HB!Perform(t, k, kind, order, scope)
  PROVE  EpochsSound'
<1> DEFINE now == StampOf(t, kind, scope)
           event == EventOf(t, k, kind, order, scope)
<1>1. TypeOK /\ EpochsSound
  BY DEF SoundInv
<1>2. hist' = hist \cup {event} /\ \A u \in Threads : hb[u] \subseteq hb'[u]
  <2>1. Performed(t, k, kind, order, scope)
    BY <1>1, PerformStep
  <2> QED BY ONLY <2>1 DEF Performed
<1>3. event.seq = seq + 1 /\ event.thread = t /\ now.seq = seq + 1 /\ now.thread = t
  BY DEF EventOf, StampOf
<1>4. /\ log' = [log EXCEPT ![k] = Logged(log[k], now, kind)]
      /\ UNCHANGED epochVars
      /\ log \in [Keys -> Entry]
  BY <1>1 DEF Admit, TypeOK
<1>5. ASSUME NEW j \in Keys, NEW s \in Stamps(j)' PROVE s \in Stamps(j) \/ s = now
  <2>1. CASE j # k
    BY <1>4, <2>1 DEF Stamps
  <2>2. CASE j = k
    <3>1. log'[k] = Logged(log[k], now, kind) /\ log[k] \in Entry
      BY <1>4
    <3>2. s \in log'[k].writer \cup log'[k].atomics \cup log'[k].readers
      BY <1>5, <2>2 DEF Stamps
    <3>3. CASE kind = "Write"
      BY <3>1, <3>2, <3>3 DEF Logged
    <3>4. CASE kind = "Atomic"
      BY <2>2, <3>1, <3>2, <3>4 DEF Logged, Noted, Stamps, Entry
    <3>5. CASE kind = "Read"
      BY <2>2, <3>1, <3>2, <3>5 DEF Logged, Noted, Stamps, Entry
    <3> QED BY <3>3, <3>4, <3>5 DEF Kind
  <2> QED BY <2>1, <2>2
<1>6. ASSUME NEW u \in Threads, NEW s, s = now
      PROVE  ~BarrierOrders(s, StampOf(u, "Read", "Device"))'
  <2>1. BlockOf(u) \in Blocks /\ SubOf(u) \in Subgroups /\ ClusterOf(u) \in Clusters
    BY DEF Threads, BlockOf, SubOf, ClusterOf, Subgroups, Clusters
  <2>2. /\ devEpoch \in Nat /\ clusterEpoch[ClusterOf(u)] \in Nat
        /\ blockEpoch[BlockOf(u)] \in Nat /\ subEpoch[BlockOf(u)][SubOf(u)] \in Nat
    BY <1>1, <2>1 DEF TypeOK
  <2> QED BY <1>4, <1>6, <2>2 DEF BarrierOrders, StampOf, epochVars
<1>7. ASSUME NEW j \in Keys, NEW s \in Stamps(j), NEW u \in Threads,
             BarrierOrders(s, StampOf(u, "Read", "Device"))'
      PROVE  s.seq \in hb'[u]
  <2>1. BarrierOrders(s, StampOf(u, "Read", "Device"))
    BY <1>4, <1>7 DEF BarrierOrders, StampOf, epochVars
  <2> QED BY <1>1, <1>2, <2>1 DEF EpochsSound
<1>8. \A j \in Keys : \A s \in Stamps(j) : \E e \in hist : e.seq = s.seq /\ e.thread = s.thread
  BY <1>1 DEF EpochsSound
<1> HIDE DEF now, event
<1>9. ASSUME NEW j \in Keys, NEW s \in Stamps(j)'
      PROVE  /\ \E e \in hist' : e.seq = s.seq /\ e.thread = s.thread
             /\ \A u \in Threads : BarrierOrders(s, StampOf(u, "Read", "Device"))' => s.seq \in hb'[u]
  <2>1. CASE s = now
    BY <1>2, <1>3, <1>6, <2>1
  <2>2. CASE s \in Stamps(j)
    BY <1>2, <1>7, <1>8, <2>2
  <2> QED BY <1>5, <1>9, <2>1, <2>2
<1> QED BY <1>9 DEF EpochsSound

(* Covering, in a given history.                                           *)
CoveredIn(events, clock, S) == \A e \in events : e.seq <= clock[e.thread] => e.seq \in S

(* A clock of the past says nothing of a new event.                        *)
LEMMA CoveredGrows ==
  ASSUME TypeOK, NEW event, hist' = hist \cup {event}, event.seq = seq + 1, event.thread \in Threads,
         NEW clock \in Clock, Bounded(clock, seq), NEW S, NEW T, Covered(clock, S), S \subseteq T
  PROVE  CoveredIn(hist', clock, T)
<1>1. ~(event.seq <= clock[event.thread])
  <2>1. clock[event.thread] \in Nat /\ clock[event.thread] <= seq /\ seq \in Nat
    BY DEF Clock, Bounded, TypeOK
  <2> QED BY <2>1
<1>2. \A e \in hist : e.seq <= clock[e.thread] => e.seq \in T
  BY DEF Covered
<1> QED BY <1>1, <1>2 DEF CoveredIn

(* What an access means for the records of elements: those of its element  *)
(* are known to whoever is ordered after what was stored there.            *)
LEMMA StaleIsKnown ==
  ASSUME NEW k \in Keys, NEW r, Stale(k, r), NEW t \in Threads, \A w \in log[k].writer : Before(t, w.seq)
  PROVE  Covered(r.clock, hb[t])
BY DEF Stale, Before, Covered

(* A thread that is ordered after every atomic in the log of an element    *)
(* has what a live record of that element would bring: this is why a plain *)
(* store that passes touch leaves only stale records behind.               *)
LEMMA LiveIsKnown ==
  ASSUME NEW k \in Keys, NEW r, Live(k, r), NEW t \in Threads, \A a \in log[k].atomics : Before(t, a.seq)
  PROVE  Covered(r.clock, hb[t])
BY DEF Live, Before, Covered

(* A record stays live or stale while nothing it rests on goes.            *)
LEMMA RecordKept ==
  ASSUME TypeOK, NEW event, hist' = hist \cup {event}, event.seq = seq + 1, event.thread \in Threads,
         NEW j \in Keys, NEW r, r.clock \in Clock, Bounded(r.clock, seq),
         rel[j] \subseteq rel'[j], log[j].writer \subseteq log'[j].writer,
         \A a \in log[j].atomics : a.thread = r.from => a \in log'[j].atomics,
         Live(j, r) \/ Stale(j, r)
  PROVE  Live(j, r)' \/ Stale(j, r)'
<1>1. ASSUME NEW S, Covered(r.clock, S) PROVE CoveredIn(hist', r.clock, S)
  BY <1>1, CoveredGrows
<1>2. CASE Live(j, r)
  <2>1. PICK p \in rel[j] : p.from = r.from /\ p.scope = r.scope /\ Covered(r.clock, p.before)
    BY <1>2 DEF Live
  <2>2. PICK a \in log[j].atomics : \E e \in hist :
               a.thread = r.from /\ e.seq = a.seq /\ Covered(r.clock, e.after)
    BY <1>2 DEF Live
  <2>3. PICK e \in hist : a.thread = r.from /\ e.seq = a.seq /\ Covered(r.clock, e.after)
    BY <2>2
  <2>4. p \in rel'[j] /\ a \in log'[j].atomics /\ e \in hist'
    BY <2>3
  <2>5. CoveredIn(hist', r.clock, p.before) /\ CoveredIn(hist', r.clock, e.after)
    BY <1>1, <2>1, <2>3
  <2> QED BY <2>1, <2>3, <2>4, <2>5 DEF Live, Covered, CoveredIn
<1>3. CASE Stale(j, r)
  <2>1. PICK w \in log[j].writer : \E e \in hist : e.seq = w.seq /\ Covered(r.clock, e.before)
    BY <1>3 DEF Stale
  <2>2. PICK e \in hist : e.seq = w.seq /\ Covered(r.clock, e.before)
    BY <2>1
  <2>3. CoveredIn(hist', r.clock, e.before)
    BY <1>1, <2>2
  <2>4. w \in log'[j].writer /\ e \in hist'
    OBVIOUS
  <2> QED BY <2>2, <2>3, <2>4 DEF Stale, Covered, CoveredIn
<1> QED BY <1>2, <1>3

(* A plain access makes no edge, and keeps what the edges stand for; a     *)
(* store makes its element's records stale.                                *)
LEMMA PlainEdges ==
  ASSUME SoundInv, NEW t \in Threads, NEW k \in Keys, NEW kind \in Kind, kind # "Atomic",
         NEW order \in Order, NEW scope \in Scope,
         Admit(t, k, kind, order, scope), HB!Perform(t, k, kind, order, scope)
  PROVE  EdgesInv'
<1> DEFINE event == EventOf(t, k, kind, order, scope)
           now == StampOf(t, kind, scope)
<1>0. TypeOK /\ ClocksBounded /\ EdgesInv /\ HistoryInv
  BY DEF SoundInv, EdgesInv, HistoryInv
<1>1. /\ hist' = hist \cup {event}
      /\ \A u \in Threads : hb[u] \subseteq hb'[u]
      /\ \A j \in Keys : j # k => rel'[j] = rel[j]
      /\ kind = "Read" => rel'[k] = rel[k]
      /\ seen' = seen
      /\ fences' = fences
  <2>1. seen' = seen
    BY DEF HB!Perform
  <2>2. fences' = fences
    BY DEF HB!Perform
  <2>3. Performed(t, k, kind, order, scope)
    BY <1>0, PerformStep
  <2> QED BY <2>1, <2>2, <2>3 DEF Performed
<1>2. event.seq = seq + 1 /\ event.thread = t /\ event.before = hb[t] /\ now.seq = seq + 1
  BY DEF EventOf, StampOf
<1>3. /\ UNCHANGED edgeVars
      /\ log' = [log EXCEPT ![k] = Logged(log[k], now, kind)]
      /\ log \in [Keys -> Entry]
      /\ ~Races(log[k], now, kind)
  BY <1>0 DEF Admit, TypeOK
<1>4. AdmittedAt(t, k, kind, scope)
  BY <1>3, AdmittedStamps
<1> HIDE DEF event, now
<1>5. ASSUME NEW clock \in Clock, Bounded(clock, seq), NEW S, NEW T, Covered(clock, S), S \subseteq T
      PROVE  CoveredIn(hist', clock, T)
  BY <1>0, <1>1, <1>2, <1>5, CoveredGrows
<1>6. KnowledgeSound'
  <2>1. ASSUME NEW u \in Threads PROVE CoveredIn(hist', know[u], hb'[u])
    <3>1. know[u] \in Clock /\ Bounded(know[u], seq) /\ Covered(know[u], hb[u]) /\ hb[u] \subseteq hb'[u]
      BY <1>0, <1>1 DEF TypeOK, ClocksBounded, Bounded, EdgesInv, KnowledgeSound
    <3> QED BY <1>5, <3>1
  <2> QED BY <1>3, <2>1 DEF edgeVars, KnowledgeSound, Covered, CoveredIn
<1>7. FencesSound'
  <2>1. ASSUME NEW u \in Threads, NEW f \in fenceRel[u]
        PROVE  /\ \E p \in fences[u] : p.from = u /\ p.scope = f.scope /\ CoveredIn(hist', f.clock, p.before)
               /\ CoveredIn(hist', f.clock, hb'[u])
    <3>1. f.clock \in Clock /\ Bounded(f.clock, seq) /\ Covered(f.clock, hb[u]) /\ hb[u] \subseteq hb'[u]
      BY <1>0, <1>1 DEF TypeOK, ClocksBounded, Bounded, EdgesInv, FencesSound
    <3>2. PICK p \in fences[u] : p.from = u /\ p.scope = f.scope /\ Covered(f.clock, p.before)
      BY <1>0 DEF EdgesInv, FencesSound
    <3>3. CoveredIn(hist', f.clock, p.before) /\ CoveredIn(hist', f.clock, hb'[u])
      BY <1>5, <3>1, <3>2
    <3> QED BY <3>2, <3>3
  <2> QED BY <1>1, <1>3, <2>1 DEF edgeVars, FencesSound, Covered, CoveredIn
<1>8. PendingSound'
  <2>1. ASSUME NEW u \in Threads, NEW r \in pending[u]
        PROVE  \/ \E p \in seen[u] :
                    /\ p.from = r.from
                    /\ Contains(r.scope, r.from, u) => Contains(p.scope, r.from, u)
                    /\ CoveredIn(hist', r.clock, p.before)
               \/ CoveredIn(hist', r.clock, hb'[u])
    <3>1. r.clock \in Clock /\ Bounded(r.clock, seq) /\ hb[u] \subseteq hb'[u]
      BY <1>0, <1>1 DEF TypeOK, Record, ClocksBounded, Bounded
    <3>2. CASE Covered(r.clock, hb[u])
      BY <1>5, <3>1, <3>2
    <3>3. CASE \E p \in seen[u] : /\ p.from = r.from
                                  /\ Contains(r.scope, r.from, u) => Contains(p.scope, r.from, u)
                                  /\ Covered(r.clock, p.before)
      <4>1. PICK p \in seen[u] : /\ p.from = r.from
                                 /\ Contains(r.scope, r.from, u) => Contains(p.scope, r.from, u)
                                 /\ Covered(r.clock, p.before)
        BY <3>3
      <4>2. CoveredIn(hist', r.clock, p.before)
        BY <1>5, <3>1, <4>1
      <4> QED BY <4>1, <4>2
    <3> QED BY <1>0, <3>2, <3>3 DEF EdgesInv, PendingSound
  <2> QED BY <1>1, <1>3, <2>1 DEF edgeVars, PendingSound, Covered, CoveredIn
<1>9. ASSUME NEW j \in Keys, NEW r \in records[j] PROVE Live(j, r)' \/ Stale(j, r)'
  <2>1. r.clock \in Clock /\ Bounded(r.clock, seq) /\ (Live(j, r) \/ Stale(j, r))
    BY <1>0 DEF TypeOK, Record, ClocksBounded, Bounded, EdgesInv, RecordsSound
  <2>2. CASE j # k \/ kind = "Read"
    <3>1. log'[j].writer = log[j].writer /\ log'[j].atomics = log[j].atomics
      <4>1. CASE j # k
        BY <1>3, <4>1
      <4>2. CASE j = k /\ kind = "Read"
        <5>1. log'[k] = [log[k] EXCEPT !.readers = Noted(log[k].readers, now)] /\ log[k] \in Entry
          BY <1>3, <4>2 DEF Logged
        <5> QED BY <4>2, <5>1 DEF Entry
      <4> QED BY <2>2, <4>1, <4>2
    <3>2. rel[j] \subseteq rel'[j]
      BY <1>1, <2>2
    <3> QED BY <1>0, <1>1, <1>2, <2>1, <3>1, <3>2, RecordKept
  <2>3. CASE j = k /\ kind = "Write"
    <3>1. Covered(r.clock, hb[t])
      BY <1>4, <2>1, <2>3, StaleIsKnown, LiveIsKnown DEF AdmittedAt
    <3>2. CoveredIn(hist', r.clock, event.before)
      BY <1>2, <1>5, <2>1, <3>1
    <3>3. log'[k].writer = {now}
      BY <1>3, <2>3 DEF Logged
    <3>4. event \in hist' /\ event.seq = now.seq /\ now \in log'[k].writer
      BY <1>1, <1>2, <3>3
    <3>5. \E w \in log'[k].writer : \E e \in hist' : e.seq = w.seq /\ CoveredIn(hist', r.clock, e.before)
      BY <3>2, <3>4
    <3> QED BY <2>3, <3>5 DEF Stale, Covered, CoveredIn
  <2> QED BY <2>2, <2>3 DEF Kind
<1>10. RecordsSound'
  BY <1>3, <1>9 DEF edgeVars, RecordsSound
<1> QED BY <1>6, <1>7, <1>8, <1>10 DEF EdgesInv

(* An atomic's past covers what it has acquired ...                        *)
LEMMA AtomicKnowledge ==
  ASSUME SoundInv, NEW t \in Threads, NEW k \in Keys, NEW order \in Order, NEW scope \in Scope,
         ~Races(log[k], StampOf(t, "Atomic", scope), "Atomic")
  PROVE  LET clock == AcquiredClock(t, records[k], order, scope)
         IN  /\ clock \in Clock /\ Bounded(clock, seq)
             /\ Covered(clock, PastAfter(t, k, "Atomic", order, scope))
<1> DEFINE past == PastAfter(t, k, "Atomic", order, scope)
           clock == AcquiredClock(t, records[k], order, scope)
<1>1. TypeOK /\ HistoryInv
  BY DEF SoundInv, HistoryInv
<1>2. /\ know[t] \in Clock /\ Bounded(know[t], seq) /\ seq \in Nat
      /\ records[k] \in SUBSET Record /\ \A r \in records[k] : Bounded(r.clock, seq)
  BY DEF SoundInv, TypeOK, ClocksBounded, Bounded
<1>3. hb[t] \subseteq past
  BY DEF PastAfter
<1>4. Covered(know[t], past)
  BY <1>3 DEF SoundInv, KnowledgeSound, Covered
<1>5. AdmittedAt(t, k, "Atomic", scope)
  BY AdmittedStamps DEF Kind
<1>6. ASSUME Acquires(order), NEW r \in InScope(records[k], t, scope) PROVE Covered(r.clock, past)
  <2>1. r \in records[k] /\ r.scope \in Scope /\ r.from \in Threads
    BY <1>2 DEF InScope, Record
  <2>2. Contains(r.scope, r.from, t) /\ Contains(scope, r.from, t)
    BY <2>1, ContainsNarrower DEF InScope
  <2>3. CASE Stale(k, r)
    <3>1. Covered(r.clock, hb[t])
      BY <1>5, <2>3, StaleIsKnown DEF AdmittedAt
    <3> QED BY <1>3, <3>1 DEF Covered
  <2>4. CASE Live(k, r)
    <3>1. PICK p \in rel[k] : p.from = r.from /\ p.scope = r.scope /\ Covered(r.clock, p.before)
      BY <2>4 DEF Live
    <3>2. rel[k] \in SUBSET Publications
      BY <1>1 DEF TypeOK, Publications
    <3>3. p.before \subseteq HB!Carried(rel[k], t, scope)
      BY <2>2, <3>1, <3>2, CarriedFacts
    <3>4. p.before \subseteq past
      BY <1>6, <3>3 DEF PastAfter, Gained
    <3> QED BY <3>1, <3>4 DEF Covered
  <2> QED BY <2>1, <2>3, <2>4 DEF SoundInv, RecordsSound
<1>7. clock \in Clock /\ Bounded(clock, seq)
  BY <1>2, AbsorbClock DEF AcquiredClock
<1>8. Covered(clock, past)
  <2>1. CASE Acquires(order)
    <3>1. \A r \in InScope(records[k], t, scope) : Covered(r.clock, past)
      BY <1>6, <2>1
    <3> HIDE DEF past
    <3> QED BY <1>1, <1>2, <1>4, <2>1, <3>1, AbsorbCovered DEF AcquiredClock
  <2>2. CASE ~Acquires(order)
    BY <1>4, <2>2 DEF AcquiredClock
  <2> QED BY <2>1, <2>2
<1> QED BY <1>7, <1>8

(* ... and what it leaves on the element is something it publishes.        *)
LEMMA AtomicLeaves ==
  ASSUME SoundInv, NEW t \in Threads, NEW k \in Keys, NEW order \in Order, NEW scope \in Scope,
         ~Races(log[k], StampOf(t, "Atomic", scope), "Atomic"),
         NEW r \in Left(t, AcquiredClock(t, records[k], order, scope), order, scope)
  PROVE  LET events == hist \cup {EventOf(t, k, "Atomic", order, scope)}
         IN  /\ r.from = t
             /\ \E p \in PublishedBy(t, k, "Atomic", order, scope) :
                  p.from = t /\ p.scope = r.scope /\ CoveredIn(events, r.clock, p.before)
             /\ CoveredIn(events, r.clock, PastAfter(t, k, "Atomic", order, scope))
<1> DEFINE past == PastAfter(t, k, "Atomic", order, scope)
           clock == AcquiredClock(t, records[k], order, scope)
           published == PublishedBy(t, k, "Atomic", order, scope)
           event == EventOf(t, k, "Atomic", order, scope)
<1>1. clock \in Clock /\ Bounded(clock, seq) /\ Covered(clock, past)
  BY AtomicKnowledge
<1>2. TypeOK /\ PastClosed /\ FencesSound /\ seq \in Nat
  BY DEF SoundInv, TypeOK
<1>3. hb[t] \subseteq past /\ seq + 1 \in past /\ event.seq = seq + 1 /\ event.thread = t
  BY DEF PastAfter, EventOf
<1>4. CASE Releases(order)
  <2>1. r = [from |-> t, scope |-> scope, clock |-> Snapshot(clock, t, seq + 1)]
    BY <1>4 DEF Left
  <2> DEFINE p == HB!Publication(t, scope, past)
  <2>2. p \in published /\ p.from = t /\ p.scope = scope /\ p.before = past
    <3>1. p \in {HB!Publication(t, scope, past) : o \in {o \in {order} : HB!Releases(o)}}
      BY <1>4, SameScopes
    <3> QED BY <3>1 DEF PublishedBy, HB!Published, HB!Publication
  <2>3. \A e \in hist : e.thread = t => e.seq \in past
    BY <1>2, <1>3 DEF PastClosed
  <2> HIDE DEF clock, past, published, p, event
  <2>4. Covered(Snapshot(clock, t, seq + 1), past)
    BY <1>1, <1>2, <2>3, SnapshotCovered
  <2>5. r.from = t /\ r.scope = scope /\ r.clock = Snapshot(clock, t, seq + 1)
    BY <2>1
  <2>6. CoveredIn(hist \cup {event}, r.clock, past)
    BY <1>3, <2>4, <2>5 DEF Covered, CoveredIn
  <2> QED BY <2>2, <2>5, <2>6 DEF past, published, event
<1>5. CASE ~Releases(order)
  <2>1. r \in {[from |-> t, scope |-> Narrower(f.scope, scope), clock |-> f.clock] : f \in fenceRel[t]}
    BY <1>5 DEF Left
  <2>2. PICK f \in fenceRel[t] : r = [from |-> t, scope |-> Narrower(f.scope, scope), clock |-> f.clock]
    BY <2>1
  <2>3. PICK q \in fences[t] : q.from = t /\ q.scope = f.scope /\ Covered(f.clock, q.before)
    BY <1>2 DEF FencesSound
  <2>4. Covered(f.clock, hb[t])
    BY <1>2 DEF FencesSound
  <2> DEFINE p == HB!Publication(t, HB!Narrower(q.scope, scope), q.before)
  <2>5. p \in published
    BY DEF PublishedBy, HB!Published
  <2>6. p.from = t /\ p.scope = Narrower(q.scope, scope) /\ p.before = q.before
    BY SameScopes DEF HB!Publication
  <2>7. f.clock[t] <= seq /\ f.clock[t] \in Nat
    BY <1>2 DEF SoundInv, ClocksBounded, TypeOK, Clock
  <2> HIDE DEF p, published, past, clock, event
  <2>8. r.from = t /\ r.scope = Narrower(f.scope, scope) /\ r.clock = f.clock
    BY <2>2
  <2>9. ~(event.seq <= r.clock[event.thread])
    BY <1>2, <1>3, <2>7, <2>8
  <2>10. CoveredIn(hist \cup {event}, r.clock, past) /\ CoveredIn(hist \cup {event}, r.clock, p.before)
    BY <1>3, <2>3, <2>4, <2>6, <2>8, <2>9 DEF Covered, CoveredIn
  <2> QED BY <2>3, <2>5, <2>6, <2>8, <2>10 DEF past, published, event
<1> QED BY <1>4, <1>5

(* An atomic keeps what the edges stand for.                               *)
LEMMA AtomicEdgesSound ==
  ASSUME SoundInv, NEW t \in Threads, NEW k \in Keys, NEW order \in Order, NEW scope \in Scope,
         Admit(t, k, "Atomic", order, scope), HB!Perform(t, k, "Atomic", order, scope)
  PROVE  EdgesInv'
<1> DEFINE event == EventOf(t, k, "Atomic", order, scope)
           now == StampOf(t, "Atomic", scope)
           past == PastAfter(t, k, "Atomic", order, scope)
           clock == AcquiredClock(t, records[k], order, scope)
           left == Left(t, clock, order, scope)
           published == PublishedBy(t, k, "Atomic", order, scope)
           noticed == Noticed(k, scope)
<1>0. TypeOK /\ ClocksBounded /\ EdgesInv /\ HistoryInv /\ "Atomic" \in Kind
  BY DEF SoundInv, EdgesInv, HistoryInv, Kind
<1>1. /\ hist' = hist \cup {event}
      /\ hb'[t] = past
      /\ \A u \in Threads : u # t => hb'[u] = hb[u]
      /\ \A u \in Threads : hb[u] \subseteq hb'[u]
      /\ \A j \in Keys : j # k => rel'[j] = rel[j]
      /\ rel'[k] = rel[k] \cup published
      /\ \A u \in Threads : u # t => seen'[u] = seen[u]
      /\ seen'[t] = seen[t] \cup noticed
      /\ fences' = fences
  <2>1. Performed(t, k, "Atomic", order, scope)
    BY <1>0, PerformStep
  <2> QED BY <2>1 DEF Performed
<1>2. /\ event.seq = seq + 1 /\ event.thread = t /\ event.before = hb[t] /\ event.after = past
      /\ now.seq = seq + 1 /\ now.thread = t
  BY DEF EventOf, StampOf
<1>3. /\ log' = [log EXCEPT ![k] = Logged(log[k], now, "Atomic")]
      /\ log \in [Keys -> Entry]
      /\ ~Races(log[k], now, "Atomic")
  BY <1>0 DEF Admit, TypeOK
<1>4. /\ know' = [know EXCEPT ![t] = clock]
      /\ pending' = [pending EXCEPT ![t] = Replace(@, records[k])]
      /\ records' = [records EXCEPT ![k] = Replace(@, left)]
      /\ fenceRel' = fenceRel
  BY DEF Admit, AtomicEdges, AcquiredClock
<1>5. AdmittedAt(t, k, "Atomic", scope)
  BY <1>0, <1>3, AdmittedStamps
<1>6. clock \in Clock /\ Bounded(clock, seq) /\ Covered(clock, past)
  BY <1>3, AtomicKnowledge
<1>7. \A r \in left :
        /\ r.from = t
        /\ \E p \in published : p.from = t /\ p.scope = r.scope /\ CoveredIn(hist', r.clock, p.before)
        /\ CoveredIn(hist', r.clock, past)
  <2> TAKE r \in left
  <2>1. /\ r.from = t
        /\ \E p \in published : p.from = t /\ p.scope = r.scope /\ CoveredIn(hist \cup {event}, r.clock, p.before)
        /\ CoveredIn(hist \cup {event}, r.clock, past)
    BY <1>3, AtomicLeaves
  <2> HIDE DEF event, past, published, left
  <2> QED BY <1>1, <2>1
<1>8. /\ log'[k].writer = log[k].writer /\ log'[k].atomics = Noted(log[k].atomics, now)
      /\ \A j \in Keys : j # k => log'[j] = log[j]
  <2>1. log'[k] = [log[k] EXCEPT !.atomics = Noted(log[k].atomics, now)] /\ log[k] \in Entry
    BY <1>3 DEF Logged
  <2> QED BY <1>3, <2>1 DEF Entry
<1>9. noticed = {HB!Publication(p.from, HB!Narrower(p.scope, scope), p.before) : p \in rel[k]}
  BY DEF Noticed
<1> HIDE DEF event, now, past, clock, left, published, noticed
<1>10. ASSUME NEW c \in Clock, Bounded(c, seq), NEW S, NEW T, Covered(c, S), S \subseteq T
       PROVE  CoveredIn(hist', c, T)
  BY <1>0, <1>1, <1>2, <1>10, CoveredGrows
<1>11. KnowledgeSound'
  <2>1. ASSUME NEW u \in Threads PROVE CoveredIn(hist', know'[u], hb'[u])
    <3>1. CASE u = t
      <4>1. CoveredIn(hist', clock, past)
        BY <1>6, <1>10
      <4> QED BY <1>0, <1>1, <1>4, <3>1, <4>1 DEF TypeOK
    <3>2. CASE u # t
      <4>1. know[u] \in Clock /\ Bounded(know[u], seq) /\ Covered(know[u], hb[u]) /\ know'[u] = know[u]
        BY <1>0, <1>4, <3>2 DEF TypeOK, ClocksBounded, Bounded, EdgesInv, KnowledgeSound
      <4> QED BY <1>1, <1>10, <4>1
    <3> QED BY <3>1, <3>2
  <2> QED BY <2>1 DEF KnowledgeSound, Covered, CoveredIn
<1>12. FencesSound'
  <2>1. ASSUME NEW u \in Threads, NEW f \in fenceRel[u]
        PROVE  /\ \E p \in fences[u] : p.from = u /\ p.scope = f.scope /\ CoveredIn(hist', f.clock, p.before)
               /\ CoveredIn(hist', f.clock, hb'[u])
    <3>1. f.clock \in Clock /\ Bounded(f.clock, seq) /\ Covered(f.clock, hb[u]) /\ hb[u] \subseteq hb'[u]
      BY <1>0, <1>1 DEF TypeOK, ClocksBounded, Bounded, EdgesInv, FencesSound
    <3>2. PICK p \in fences[u] : p.from = u /\ p.scope = f.scope /\ Covered(f.clock, p.before)
      BY <1>0 DEF EdgesInv, FencesSound
    <3>3. CoveredIn(hist', f.clock, p.before) /\ CoveredIn(hist', f.clock, hb'[u])
      BY <1>10, <3>1, <3>2
    <3> QED BY <3>2, <3>3
  <2> QED BY <1>1, <1>4, <2>1 DEF FencesSound, Covered, CoveredIn
<1>13. ASSUME NEW j \in Keys, NEW r \in records'[j] PROVE Live(j, r)' \/ Stale(j, r)'
  <2>1. CASE r \in left /\ j = k
    <3>1. \E p \in rel'[k] : p.from = r.from /\ p.scope = r.scope /\ CoveredIn(hist', r.clock, p.before)
      BY <1>1, <1>7, <2>1
    <3>2. now \in log'[k].atomics /\ event \in hist'
      BY <1>1, <1>8 DEF Noted
    <3>3. now.thread = r.from /\ event.seq = now.seq /\ CoveredIn(hist', r.clock, event.after)
      BY <1>2, <1>7, <2>1
    <3>4. \E a \in log'[k].atomics : \E e \in hist' :
            a.thread = r.from /\ e.seq = a.seq /\ CoveredIn(hist', r.clock, e.after)
      BY <3>2, <3>3
    <3> QED BY <2>1, <3>1, <3>4 DEF Live, Covered, CoveredIn
  <2>2. CASE r \in records[j]
    <3>1. r.clock \in Clock /\ Bounded(r.clock, seq) /\ (Live(j, r) \/ Stale(j, r))
      BY <1>0, <2>2 DEF TypeOK, Record, ClocksBounded, Bounded, EdgesInv, RecordsSound
    <3>2. rel[j] \subseteq rel'[j] /\ log[j].writer \subseteq log'[j].writer
      BY <1>1, <1>8
    <3>3. CASE j # k \/ r.from # t \/ Stale(j, r)
      <4>1. CASE j # k \/ r.from # t
        <5>1. \A a \in log[j].atomics : a.thread = r.from => a \in log'[j].atomics
          BY <1>2, <1>8, <4>1 DEF Noted
        <5> QED BY <1>0, <1>1, <1>2, <3>1, <3>2, <5>1, RecordKept
      <4>2. CASE Stale(j, r)
        <5>1. PICK w \in log[j].writer : \E e \in hist : e.seq = w.seq /\ Covered(r.clock, e.before)
          BY <4>2 DEF Stale
        <5>2. PICK e \in hist : e.seq = w.seq /\ Covered(r.clock, e.before)
          BY <5>1
        <5>3. CoveredIn(hist', r.clock, e.before)
          BY <1>10, <3>1, <5>2
        <5>4. w \in log'[j].writer /\ e \in hist'
          BY <1>1, <3>2
        <5> QED BY <5>2, <5>3, <5>4 DEF Stale, Covered, CoveredIn
      <4> QED BY <3>3, <4>1, <4>2
    <3>4. CASE j = k /\ r.from = t /\ Live(j, r)
      <4>1. PICK p \in rel[k] : p.from = r.from /\ p.scope = r.scope /\ Covered(r.clock, p.before)
        BY <3>4 DEF Live
      <4>2. PICK a \in log[k].atomics : \E e \in hist :
                   a.thread = r.from /\ e.seq = a.seq /\ Covered(r.clock, e.after)
        BY <3>4 DEF Live
      <4>3. PICK e \in hist : a.thread = r.from /\ e.seq = a.seq /\ Covered(r.clock, e.after)
        BY <4>2
      <4>4. a \in Stamps(k)
        BY DEF Stamps
      <4>5. Before(t, a.seq)
        BY <3>4, <4>3, <4>4, OwnStamp
      <4>6. e.after \subseteq past
        <5>1. e.after \subseteq hb[t]
          BY <4>3, <4>5 DEF Before
        <5> QED BY <1>1, <5>1
      <4>7. CoveredIn(hist', r.clock, past) /\ CoveredIn(hist', r.clock, p.before)
        BY <1>10, <3>1, <4>1, <4>3, <4>6
      <4>8. now \in log'[k].atomics /\ event \in hist' /\ p \in rel'[k]
        BY <1>1, <1>8 DEF Noted
      <4>9. \E b \in log'[k].atomics : \E f \in hist' :
              b.thread = r.from /\ f.seq = b.seq /\ CoveredIn(hist', r.clock, f.after)
        BY <1>2, <3>4, <4>7, <4>8
      <4>10. \E q \in rel'[k] : q.from = r.from /\ q.scope = r.scope /\ CoveredIn(hist', r.clock, q.before)
        BY <4>1, <4>7, <4>8
      <4> QED BY <3>4, <4>9, <4>10 DEF Live, Covered, CoveredIn
    <3> QED BY <3>1, <3>3, <3>4
  <2>3. r \in records[j] \/ (r \in left /\ j = k)
    <3>1. CASE j = k
      BY <1>0, <1>4, <1>13, <3>1 DEF TypeOK, Replace
    <3>2. CASE j # k
      BY <1>0, <1>4, <1>13, <3>2 DEF TypeOK
    <3> QED BY <3>1, <3>2
  <2> QED BY <2>1, <2>2, <2>3
<1>14. RecordsSound'
  BY <1>13 DEF RecordsSound
<1>15. ASSUME NEW u \in Threads, NEW r \in pending'[u]
       PROVE  \/ \E p \in seen'[u] :
                   /\ p.from = r.from
                   /\ Contains(r.scope, r.from, u) => Contains(p.scope, r.from, u)
                   /\ CoveredIn(hist', r.clock, p.before)
              \/ CoveredIn(hist', r.clock, hb'[u])
  <2>1. CASE r \in pending[u]
    <3>1. r.clock \in Clock /\ Bounded(r.clock, seq)
      BY <1>0, <2>1 DEF TypeOK, Record, ClocksBounded, Bounded
    <3>2. CASE Covered(r.clock, hb[u])
      BY <1>1, <1>10, <3>1, <3>2
    <3>3. CASE \E p \in seen[u] : /\ p.from = r.from
                                  /\ Contains(r.scope, r.from, u) => Contains(p.scope, r.from, u)
                                  /\ Covered(r.clock, p.before)
      <4>1. PICK p \in seen[u] : /\ p.from = r.from
                                 /\ Contains(r.scope, r.from, u) => Contains(p.scope, r.from, u)
                                 /\ Covered(r.clock, p.before)
        BY <3>3
      <4>2. CoveredIn(hist', r.clock, p.before)
        BY <1>10, <3>1, <4>1
      <4>3. p \in seen'[u]
        BY <1>1
      <4> QED BY <4>1, <4>2, <4>3
    <3> QED BY <1>0, <2>1, <3>2, <3>3 DEF EdgesInv, PendingSound
  <2>2. CASE r \in records[k] /\ u = t
    <3>1. /\ r.clock \in Clock /\ Bounded(r.clock, seq) /\ (Live(k, r) \/ Stale(k, r))
          /\ r.from \in Threads
      BY <1>0, <2>2 DEF TypeOK, Record, ClocksBounded, Bounded, EdgesInv, RecordsSound
    <3>2. CASE Stale(k, r)
      <4>1. Covered(r.clock, hb[t])
        BY <1>5, <3>2, StaleIsKnown DEF AdmittedAt
      <4> QED BY <1>1, <1>10, <2>2, <3>1, <4>1
    <3>3. CASE Live(k, r)
      <4>1. PICK q \in rel[k] : q.from = r.from /\ q.scope = r.scope /\ Covered(r.clock, q.before)
        BY <3>3 DEF Live
      <4>2. PICK a \in log[k].atomics : a.thread = r.from
        BY <3>3 DEF Live
      <4>3. Contains(scope, r.from, t)
        BY <1>5, <4>2 DEF AdmittedAt
      <4>4. q.scope \in Scope
        BY <1>0 DEF TypeOK
      <4> DEFINE p == HB!Publication(q.from, HB!Narrower(q.scope, scope), q.before)
      <4>5. p \in seen'[t]
        BY <1>1, <1>9
      <4>6. p.from = r.from /\ p.scope = Narrower(r.scope, scope) /\ p.before = q.before
        BY <4>1, SameScopes DEF HB!Publication
      <4> HIDE DEF p
      <4>7. Contains(r.scope, r.from, t) => Contains(p.scope, r.from, t)
        BY <3>1, <4>1, <4>3, <4>4, <4>6, ContainsNarrower
      <4>8. CoveredIn(hist', r.clock, p.before)
        BY <1>10, <3>1, <4>1, <4>6
      <4> QED BY <2>2, <4>5, <4>6, <4>7, <4>8
    <3> QED BY <3>1, <3>2, <3>3
  <2>3. r \in pending[u] \/ (r \in records[k] /\ u = t)
    <3>1. CASE u = t
      BY <1>0, <1>4, <1>15, <3>1 DEF TypeOK, Replace
    <3>2. CASE u # t
      BY <1>0, <1>4, <1>15, <3>2 DEF TypeOK
    <3> QED BY <3>1, <3>2
  <2> QED BY <2>1, <2>2, <2>3
<1>16. PendingSound'
  BY <1>15 DEF PendingSound, Covered, CoveredIn
<1> QED BY <1>11, <1>12, <1>14, <1>16 DEF EdgesInv

(* An admitted access preserves everything.                                *)
LEMMA AccessSound ==
  ASSUME SoundInv, NEW t \in Threads, NEW site \in AccessSites, Access(t, site)
  PROVE  SoundInv'
<1> DEFINE k == site.key
           kind == site.kind
           order == site.order
           scope == site.scope
<1>1. k \in Keys /\ kind \in Kind /\ order \in Order /\ scope \in Scope
  BY SiteType
<1>2. Admit(t, k, kind, order, scope) /\ HB!Perform(t, k, kind, order, scope)
  BY DEF Access
<1>3. TypeOK /\ ClocksBounded /\ HistoryInv
  BY DEF SoundInv, HistoryInv
<1>4. TypeOK' /\ ClocksBounded'
  BY <1>3, AccessType
<1> HIDE DEF k, kind, order, scope
<1>5. HistoryInv'
  BY <1>1, <1>2, <1>3, AccessHistory
<1>6. EdgesInv'
  <2>1. CASE kind = "Atomic"
    <3>1. Admit(t, k, "Atomic", order, scope) /\ HB!Perform(t, k, "Atomic", order, scope)
      BY <1>2, <2>1
    <3> QED BY <1>1, <3>1, AtomicEdgesSound
  <2>2. CASE kind # "Atomic"
    BY <1>1, <1>2, <2>2, PlainEdges
  <2> QED BY <2>1, <2>2
<1>7. LogComplete'
  BY <1>1, <1>2, AccessLog
<1>8. EpochsSound'
  BY <1>1, <1>2, AccessEpochs
<1> QED BY <1>4, <1>5, <1>6, <1>7, <1>8 DEF SoundInv, HistoryInv, EdgesInv

-----------------------------------------------------------------------------
(* The invariant, and what follows from it.                                *)

LEMMA SoundInit ==
  ASSUME Init
  PROVE  SoundInv
<1>1. TypeOK /\ ClocksBounded
  BY TypeInit
<1>2. PastClosed /\ PublicationsClosed /\ HistoryBounded
  BY DEF Init, PastClosed, PublicationsClosed, HistoryBounded, UpToNow, Closed
<1>3. KnowledgeSound /\ FencesSound /\ RecordsSound /\ PendingSound
  BY DEF Init, DetectorInit, KnowledgeSound, FencesSound, RecordsSound, PendingSound, Covered
<1>4. LogComplete
  BY DEF Init, LogComplete
<1>5. EpochsSound
  BY DEF Init, DetectorInit, EpochsSound, Stamps, EmptyEntry
<1> QED BY <1>1, <1>2, <1>3, <1>4, <1>5 DEF SoundInv

(* Every step keeps the strengthened invariant, action by action.          *)
LEMMA SoundStep ==
  ASSUME SoundInv, [Next]_vars
  PROVE  SoundInv'
<1>0. TypeOK /\ PastClosed /\ EpochsSound
  BY DEF SoundInv
<1>1. ASSUME NEW t \in Threads, NEW site \in AccessSites, Access(t, site) \/ RefuseAccess(t, site)
      PROVE  SoundInv'
  BY <1>1, AccessSound, RefuseSound
<1>2. ASSUME NEW t \in Threads, NEW f \in FenceSites, Fence(t, f)
      PROVE  SoundInv'
  BY <1>2, FenceSound
<1>3. ASSUME NEW b \in Blocks, NEW subs \in (SUBSET Subgroups) \ {{}}, SubgroupRelease(b, subs)
      PROVE  SoundInv'
  BY <1>0, <1>3, SubgroupReleaseGroups, SubgroupEpochs, BarrierSound
<1>4. ASSUME NEW b \in Blocks, BlockRelease(b)
      PROVE  SoundInv'
  BY <1>0, <1>4, BlockReleaseGroups, BlockEpochs, BarrierSound
<1>5. ASSUME NEW cs \in (SUBSET Clusters) \ {{}}, ClusterRelease(cs)
      PROVE  SoundInv'
  BY <1>0, <1>5, ClusterReleaseGroups, ClusterEpochs, BarrierSound
<1>6. CASE DeviceRelease
  BY <1>0, <1>6, DeviceReleaseGroups, DeviceEpochs, BarrierSound
<1>7. CASE UNCHANGED vars
  <2>1. UNCHANGED <<seq, edgeVars, epochVars, log, rejected, hist, hb, rel, seen, fences, offender, barriers>>
    BY <1>7 DEF vars, detectorVars, historyVars
  <2>2. TypeOK' /\ ClocksBounded'
    BY <1>7, TypeStep DEF SoundInv
  <2>3. HistoryInv'
    BY <2>1 DEF SoundInv, HistoryInv, PastClosed, PublicationsClosed, HistoryBounded, Closed, UpToNow
  <2>4. EdgesInv'
    BY <2>1, EdgesKept DEF SoundInv, EdgesInv
  <2>5. LogComplete' /\ EpochsSound'
    BY <2>1, LogKept, EpochsKept DEF SoundInv
  <2> QED BY <2>2, <2>3, <2>4, <2>5 DEF SoundInv, HistoryInv, EdgesInv
<1> QED BY <1>1, <1>2, <1>3, <1>4, <1>5, <1>6, <1>7 DEF Next

(* The detector's clocks, records, held records, log and barrier counts    *)
(* are always sound summaries of the happens-before order: for every       *)
(* launch shape, every kernel and any number of steps.                     *)
THEOREM SoundInvariant == Spec => []SoundInv
<1>1. Init => SoundInv
  BY SoundInit
<1>2. SoundInv /\ [Next]_vars => SoundInv'
  BY SoundStep
<1> QED BY <1>1, <1>2, PTL DEF Spec

(* An admitted access is ordered after each conflicting one in the whole   *)
(* history, so race freedom is kept; no other action adds an access.       *)
LEMMA RaceFreeStep ==
  ASSUME SoundInv, RaceFree, [Next]_vars
  PROVE  RaceFree'
<1>1. CASE UNCHANGED hist
  BY <1>1 DEF RaceFree
<1>2. ASSUME NEW t \in Threads, NEW site \in AccessSites, Access(t, site)
      PROVE  RaceFree'
  <2> DEFINE event == EventOf(t, site.key, site.kind, site.order, site.scope)
  <2>1. /\ site.key \in Keys /\ site.kind \in Kind /\ site.order \in Order /\ site.scope \in Scope
    BY SiteType
  <2>2. /\ ~Races(log[site.key], StampOf(t, site.kind, site.scope), site.kind)
        /\ HB!Perform(t, site.key, site.kind, site.order, site.scope)
    BY <1>2 DEF Access, Admit
  <2>3. Performed(t, site.key, site.kind, site.order, site.scope)
    BY <2>1, <2>2, PerformStep DEF SoundInv
  <2>4. hist' = hist \cup {event}
    BY <2>3 DEF Performed
  <2>5. HB!Ordered(t, site.key, site.kind)
    BY <2>1, <2>2, AdmittedIsOrdered
  <2>6. event.seq = seq + 1 /\ event.key = site.key /\ event.kind = site.kind /\ event.before = hb[t]
    BY DEF EventOf
  <2>7. \A e \in hist : e.seq \in Nat /\ e.seq <= seq
    BY EventType DEF SoundInv, PastClosed
  <2>8. seq \in Nat
    BY DEF SoundInv, TypeOK
  <2> HIDE DEF event
  <2>9. ASSUME NEW e \in hist', NEW f \in hist', e.key = f.key, e.seq < f.seq, HB!Conflict(e.kind, f.kind)
        PROVE  e.seq \in f.before
    <3>1. e \in hist
      BY <2>4, <2>6, <2>7, <2>8, <2>9
    <3>2. CASE f \in hist
      BY <2>9, <3>1, <3>2 DEF RaceFree
    <3>3. CASE f = event
      BY <2>5, <2>6, <2>9, <3>1, <3>3 DEF HB!Ordered
    <3> QED BY <2>4, <3>2, <3>3
  <2> QED BY <2>9 DEF RaceFree, HB!Conflict
<1>3. ASSUME NEW t \in Threads, NEW site \in AccessSites, RefuseAccess(t, site)
      PROVE  UNCHANGED hist
  BY <1>3 DEF RefuseAccess, historyVars
<1>4. ASSUME NEW t \in Threads, NEW f \in FenceSites, Fence(t, f)
      PROVE  UNCHANGED hist
  BY <1>4 DEF Fence, HB!Fence
<1>5. ASSUME NEW b \in Blocks, NEW subs \in (SUBSET Subgroups) \ {{}}, SubgroupRelease(b, subs)
      PROVE  UNCHANGED hist
  BY <1>5 DEF SubgroupRelease, HB!Rendezvous
<1>6. ASSUME NEW b \in Blocks, BlockRelease(b)
      PROVE  UNCHANGED hist
  BY <1>6 DEF BlockRelease, HB!Rendezvous
<1>7. ASSUME NEW cs \in (SUBSET Clusters) \ {{}}, ClusterRelease(cs)
      PROVE  UNCHANGED hist
  BY <1>7 DEF ClusterRelease, HB!Rendezvous
<1>8. DeviceRelease => UNCHANGED hist
  BY DEF DeviceRelease, HB!Rendezvous
<1>9. UNCHANGED vars => UNCHANGED hist
  BY DEF vars, historyVars
<1> QED BY <1>1, <1>2, <1>3, <1>4, <1>5, <1>6, <1>7, <1>8, <1>9 DEF Next

(* No launch the detector lets through has a race: of two conflicting      *)
(* accesses it admitted, the earlier happens before the later.             *)
THEOREM RaceFreedom == Spec => []RaceFree
<1>1. Init => SoundInv /\ RaceFree
  BY SoundInit DEF Init, RaceFree
<1>2. SoundInv /\ RaceFree /\ [Next]_vars => (SoundInv /\ RaceFree)'
  BY SoundStep, RaceFreeStep
<1> QED BY <1>1, <1>2, PTL DEF Spec

(* A step of the detector is one of the abstract specification.            *)
LEMMA StepRefines ==
  ASSUME SoundInv, [Next]_vars
  PROVE  [HB!HBNext]_HB!hbVars
<1> USE DEF HB!HBNext
<1>1. ASSUME NEW t \in Threads, NEW site \in AccessSites, Access(t, site)
      PROVE  HB!HBNext
  <2>1. site.key \in Keys /\ site.kind \in Kind /\ site.order \in Order /\ site.scope \in Scope
    BY SiteType
  <2>2. /\ ~rejected
        /\ ~Races(log[site.key], StampOf(t, site.kind, site.scope), site.kind)
        /\ HB!Perform(t, site.key, site.kind, site.order, site.scope)
    BY <1>1 DEF Access, Admit
  <2>3. HB!Ordered(t, site.key, site.kind)
    BY <2>1, <2>2, AdmittedIsOrdered
  <2>4. HB!Access(t, site.key, site.kind, site.order, site.scope)
    BY <2>2, <2>3 DEF HB!Access
  <2> QED BY <2>1, <2>4, SameHierarchy
<1>2. ASSUME NEW t \in Threads, NEW site \in AccessSites, RefuseAccess(t, site)
      PROVE  HB!HBNext
  <2>1. HB!Reject
    BY <1>2 DEF RefuseAccess, Refuse, historyVars, HB!Reject
  <2> QED BY <2>1
<1>3. ASSUME NEW t \in Threads, NEW f \in FenceSites, Fence(t, f)
      PROVE  HB!HBNext
  <2>1. f.order \in Order /\ f.scope \in Scope
    BY SitesAssumption
  <2>2. HB!Fence(t, f.order, f.scope)
    BY <1>3 DEF Fence
  <2> QED BY <2>1, <2>2, SameHierarchy
<1>4. ASSUME NEW b \in Blocks, NEW subs \in (SUBSET Subgroups) \ {{}}, SubgroupRelease(b, subs)
      PROVE  HB!HBNext
  <2>1. HB!Rendezvous({HB!SubgroupThreads(b, s) : s \in subs})
    BY <1>4 DEF SubgroupRelease
  <2> QED BY <2>1, SameHierarchy
<1>5. ASSUME NEW b \in Blocks, BlockRelease(b)
      PROVE  HB!HBNext
  <2>1. HB!Rendezvous({HB!BlockThreads(b)})
    BY <1>5 DEF BlockRelease
  <2> QED BY <2>1, SameHierarchy
<1>6. ASSUME NEW cs \in (SUBSET Clusters) \ {{}}, ClusterRelease(cs)
      PROVE  HB!HBNext
  <2>1. HB!Rendezvous({HB!ClusterThreads(c) : c \in cs})
    BY <1>6 DEF ClusterRelease
  <2> QED BY <2>1, SameHierarchy
<1>7. ASSUME DeviceRelease
      PROVE  HB!HBNext
  <2>1. HB!Rendezvous({Threads})
    BY <1>7 DEF DeviceRelease
  <2> QED BY <2>1, SameHierarchy
<1>8. UNCHANGED vars => UNCHANGED HB!hbVars
  BY DEF vars, detectorVars, historyVars, HB!hbVars
<1> QED BY <1>1, <1>2, <1>3, <1>4, <1>5, <1>6, <1>7, <1>8 DEF Next

(* The detector implements the abstract specification, in which an access  *)
(* happens only when every conflicting earlier one happens before it.      *)
THEOREM Refinement == Spec => Sound
<1>1. Init => HB!HBInit
  BY SameHierarchy DEF Init, DetectorInit, HB!HBInit
<1>2. SoundInv /\ [Next]_vars => [HB!HBNext]_HB!hbVars
  BY StepRefines
<1> QED BY <1>1, <1>2, SoundInvariant, PTL DEF Spec, Sound, HB!HBSpec

=============================================================================
