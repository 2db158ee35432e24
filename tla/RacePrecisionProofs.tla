------------------------- MODULE RacePrecisionProofs -------------------------
(***************************************************************************)
(* Proofs that the race detector refuses no access that is ordered, in two *)
(* classes of kernels: those where nothing acquires, so that order comes   *)
(* from barriers, and those without barriers where no record of a release  *)
(* is replaced or dropped that still mattered (EdgesAlone).                *)
(***************************************************************************)
EXTENDS RaceSoundnessProofs

-----------------------------------------------------------------------------
(* What a refusal rests on.                                                *)

(* A stamp is of an event on its element, of its kind and, for an atomic,  *)
(* its scope.                                                              *)
StampsReal ==
  \A k \in Keys :
    /\ \A s \in log[k].writer : \E e \in hist : e.seq = s.seq /\ e.key = k /\ e.kind = "Write"
    /\ \A s \in log[k].readers : \E e \in hist : e.seq = s.seq /\ e.key = k /\ e.kind = "Read"
    /\ \A s \in log[k].atomics : \E e \in hist :
         e.seq = s.seq /\ e.thread = s.thread /\ e.key = k /\ e.kind = "Atomic" /\ e.scope = s.scope

(* What is in a thread's past the detector finds ordered.                  *)
OrderNoticed ==
  \A k \in Keys : \A s \in Stamps(k) : \A t \in Threads :
    s.seq \in hb[t] => ~Unordered(s, StampOf(t, "Read", "Device"))

(* Nobody has been refused yet, or nothing more happens.                   *)
RefusedOnce == ~rejected => offender = {}

-----------------------------------------------------------------------------
(* Barriers: what each scope has counted.                                  *)

(* The barriers of a scope a stamp counts, and those its thread has now.   *)
Counted(s, scope) ==
  CASE scope = "Device"   -> s.devEpoch
    [] scope = "Cluster"  -> s.clusterEpoch
    [] scope = "Block"    -> s.blockEpoch
    [] scope = "Subgroup" -> s.subEpoch
    [] scope = "Thread"   -> 0

CountNow(t, scope) ==
  CASE scope = "Device"   -> devEpoch
    [] scope = "Cluster"  -> clusterEpoch[ClusterOf(t)]
    [] scope = "Block"    -> blockEpoch[BlockOf(t)]
    [] scope = "Subgroup" -> subEpoch[BlockOf(t)][SubOf(t)]
    [] scope = "Thread"   -> 0

(* A barrier of a scope that contains both has passed since the stamp.     *)
PassedSince(s, t) ==
  \E scope \in Scope : Contains(scope, s.thread, t) /\ Counted(s, scope) < CountNow(t, scope)

(* No stamp is ahead of its thread's counts.                               *)
CountsBounded ==
  \A k \in Keys : \A s \in Stamps(k) : \A scope \in Scope :
    Counted(s, scope) <= CountNow(s.thread, scope)

(* An event is in another thread's past only through a barrier, and the    *)
(* counts of a scope containing both still show it.                        *)
EpochsComplete ==
  \A k \in Keys : \A s \in Stamps(k) : \A t \in Threads :
    s.seq \in hb[t] => s.thread = t \/ PassedSince(s, t)

-----------------------------------------------------------------------------
(* Edges: what a clock reaches.                                            *)

(* A clock reaches, of every thread, the last of its events in the set.    *)
Reaches(clock, events) == \A e \in hist : e.seq \in events => e.seq <= clock[e.thread]

(* The same but for t's own, which program order orders.                   *)
ReachesOthers(t, clock, events) ==
  \A e \in hist : e.seq \in events => e.thread = t \/ e.seq <= clock[e.thread]

(* A publication is kept as a record by its releaser.                      *)
Kept(p, recs) == \E r \in recs : r.from = p.from /\ r.scope = p.scope /\ Reaches(r.clock, p.before)

KnowledgeComplete == \A t \in Threads : ReachesOthers(t, know[t], hb[t])

RecordsComplete ==
  \A k \in Keys : \A p \in rel[k] : p.before \subseteq hb[p.from] /\ Kept(p, records[k])

(* Every publication on an element is of the scope its atomics have.       *)
ScopesAgree ==
  \A site \in AtomicSites :
    /\ \A p \in rel[site.key] : p.scope = site.scope
    /\ FenceSites # {} => \A t \in Threads : \A p \in seen[t] : p.scope = site.scope

(* With fences: what a thread's atomics read is still recorded where they  *)
(* read it, and a fence finds it held, knows it, or may not take it.       *)
SeenRecorded ==
  FenceSites # {} =>
    \A t \in Threads : \A p \in seen[t] :
      p.before \subseteq hb[p.from] /\ \A site \in AtomicSites : Kept(p, records[site.key])

HeldComplete ==
  FenceSites # {} =>
    \A t \in Threads : \A p \in seen[t] :
      \/ Kept(p, pending[t])
      \/ ReachesOthers(t, know[t], p.before)
      \/ \A f \in FenceSites : ~Contains(Narrower(p.scope, f.scope), p.from, t)

NoReleaseFence == \A t \in Threads : fenceRel[t] = {} /\ fences[t] = {}

EdgesComplete ==
  /\ KnowledgeComplete /\ RecordsComplete /\ ScopesAgree
  /\ SeenRecorded /\ HeldComplete /\ NoReleaseFence

-----------------------------------------------------------------------------
(* Any kernel: a refusal is justified by the stamps.                       *)

(* The stamps an admitted access leaves are old ones and its own.          *)
LEMMA StampsAfter ==
  ASSUME TypeOK, NEW t \in Threads, NEW k \in Keys, NEW kind \in Kind,
         NEW order \in Order, NEW scope \in Scope, Admit(t, k, kind, order, scope)
  PROVE  /\ \A j \in Keys :
              LET now == StampOf(t, kind, scope)
              IN  /\ \A s \in log'[j].writer : s \in log[j].writer \/ (j = k /\ kind = "Write" /\ s = now)
                  /\ \A s \in log'[j].readers : s \in log[j].readers \/ (j = k /\ kind = "Read" /\ s = now)
                  /\ \A s \in log'[j].atomics : s \in log[j].atomics \/ (j = k /\ kind = "Atomic" /\ s = now)
         /\ \A j \in Keys : \A s \in Stamps(j)' : s \in Stamps(j) \/ s = StampOf(t, kind, scope)
<1> DEFINE now == StampOf(t, kind, scope)
<1>1. log' = [log EXCEPT ![k] = Logged(log[k], now, kind)] /\ log \in [Keys -> Entry]
  BY DEF Admit, TypeOK
<1> HIDE DEF now
<1>2. \A j \in Keys : j # k => log'[j] = log[j]
  BY <1>1
<1>3. log'[k] = Logged(log[k], now, kind) /\ log[k] \in Entry
  BY <1>1
<1>4. /\ \A s \in log'[k].writer : s \in log[k].writer \/ (kind = "Write" /\ s = now)
      /\ \A s \in log'[k].readers : s \in log[k].readers \/ (kind = "Read" /\ s = now)
      /\ \A s \in log'[k].atomics : s \in log[k].atomics \/ (kind = "Atomic" /\ s = now)
  <2>1. CASE kind = "Write"
    BY <1>3, <2>1 DEF Logged
  <2>2. CASE kind = "Atomic"
    <3>1. log'[k] = [log[k] EXCEPT !.atomics = Noted(@, now)]
      BY <1>3, <2>2 DEF Logged
    <3>2. log'[k].writer = log[k].writer /\ log'[k].readers = log[k].readers
      BY <1>3, <3>1 DEF Entry
    <3>3. log'[k].atomics = Noted(log[k].atomics, now)
      BY <1>3, <3>1 DEF Entry
    <3> QED BY <2>2, <3>2, <3>3 DEF Noted
  <2>3. CASE kind = "Read"
    <3>1. log'[k] = [log[k] EXCEPT !.readers = Noted(@, now)]
      BY <1>3, <2>3 DEF Logged
    <3>2. log'[k].writer = log[k].writer /\ log'[k].atomics = log[k].atomics
      BY <1>3, <3>1 DEF Entry
    <3>3. log'[k].readers = Noted(log[k].readers, now)
      BY <1>3, <3>1 DEF Entry
    <3> QED BY <2>3, <3>2, <3>3 DEF Noted
  <2> QED BY <2>1, <2>2, <2>3 DEF Kind
<1>5. \A j \in Keys :
        /\ \A s \in log'[j].writer : s \in log[j].writer \/ (j = k /\ kind = "Write" /\ s = now)
        /\ \A s \in log'[j].readers : s \in log[j].readers \/ (j = k /\ kind = "Read" /\ s = now)
        /\ \A s \in log'[j].atomics : s \in log[j].atomics \/ (j = k /\ kind = "Atomic" /\ s = now)
  BY <1>2, <1>4
<1>6. \A j \in Keys : \A s \in Stamps(j)' : s \in Stamps(j) \/ s = now
  BY <1>5 DEF Stamps
<1> QED BY <1>5, <1>6 DEF now

(* They are real ...                                                       *)
LEMMA AccessStamps ==
  ASSUME SoundInv, StampsReal, NEW t \in Threads, NEW k \in Keys, NEW kind \in Kind,
         NEW order \in Order, NEW scope \in Scope,
         Admit(t, k, kind, order, scope), HB!Perform(t, k, kind, order, scope)
  PROVE  StampsReal'
<1> DEFINE now == StampOf(t, kind, scope)
           event == EventOf(t, k, kind, order, scope)
<1>1. hist' = hist \cup {event}
  <2>1. Performed(t, k, kind, order, scope)
    BY PerformStep DEF SoundInv
  <2> QED BY ONLY <2>1 DEF Performed
<1>2. /\ event.seq = seq + 1 /\ event.thread = t /\ event.key = k /\ event.kind = kind /\ event.scope = scope
      /\ now.seq = seq + 1 /\ now.thread = t
      /\ kind = "Atomic" => now.scope = scope
  BY DEF EventOf, StampOf
<1>3. ASSUME NEW j \in Keys
      PROVE  /\ \A s \in log'[j].writer : s \in log[j].writer \/ (j = k /\ kind = "Write" /\ s = now)
             /\ \A s \in log'[j].readers : s \in log[j].readers \/ (j = k /\ kind = "Read" /\ s = now)
             /\ \A s \in log'[j].atomics : s \in log[j].atomics \/ (j = k /\ kind = "Atomic" /\ s = now)
  BY StampsAfter DEF SoundInv
<1> HIDE DEF now, event
<1>4. event \in hist' /\ hist \subseteq hist'
  BY <1>1
<1>5. ASSUME NEW j \in Keys
      PROVE  /\ \A s \in log'[j].writer : \E e \in hist' : e.seq = s.seq /\ e.key = j /\ e.kind = "Write"
             /\ \A s \in log'[j].readers : \E e \in hist' : e.seq = s.seq /\ e.key = j /\ e.kind = "Read"
             /\ \A s \in log'[j].atomics : \E e \in hist' :
                  e.seq = s.seq /\ e.thread = s.thread /\ e.key = j /\ e.kind = "Atomic" /\ e.scope = s.scope
  <2>1. \A s \in log'[j].writer : \E e \in hist' : e.seq = s.seq /\ e.key = j /\ e.kind = "Write"
    BY <1>2, <1>3, <1>4 DEF StampsReal
  <2>2. \A s \in log'[j].readers : \E e \in hist' : e.seq = s.seq /\ e.key = j /\ e.kind = "Read"
    BY <1>2, <1>3, <1>4 DEF StampsReal
  <2>3. \A s \in log'[j].atomics : \E e \in hist' :
          e.seq = s.seq /\ e.thread = s.thread /\ e.key = j /\ e.kind = "Atomic" /\ e.scope = s.scope
    BY <1>2, <1>3, <1>4 DEF StampsReal
  <2> QED BY <2>1, <2>2, <2>3
<1> QED BY <1>5 DEF StampsReal

(* ... and stay so while nothing is logged or forgotten.                   *)
LEMMA StampsKept ==
  ASSUME StampsReal, UNCHANGED <<log, hist>>
  PROVE  StampsReal'
BY DEF StampsReal

(* A refused access has an earlier event to be refused for, if all that    *)
(* is ordered is noticed.                                                  *)
LEMMA RefusalJustified ==
  ASSUME SoundInv, StampsReal, OrderNoticed, NEW t \in Threads, NEW site \in AccessSites,
         RefuseAccess(t, site)
  PROVE  Precise'
<1> DEFINE k == site.key
           kind == site.kind
           scope == site.scope
           now == StampOf(t, kind, scope)
<1>1. k \in Keys /\ kind \in Kind /\ scope \in Scope
  BY SiteType
<1>2. /\ Races(log[k], now, kind)
      /\ offender' = {[thread |-> t, site |-> site]}
      /\ hist' = hist /\ hb' = hb
  BY DEF RefuseAccess, Refuse, historyVars
<1>3. ASSUME NEW s \in Stamps(k), Unordered(s, now) PROVE s.seq \notin hb[t]
  <2>1. Unordered(s, StampOf(t, "Read", "Device"))
    BY <1>3 DEF Unordered, BarrierOrders, Knows, StampOf
  <2> QED BY <1>1, <2>1 DEF OrderNoticed
<1>4. log[k].writer \subseteq Stamps(k) /\ log[k].atomics \subseteq Stamps(k) /\ log[k].readers \subseteq Stamps(k)
  BY DEF Stamps
<1>5. now.thread = t /\ (kind = "Atomic" => now.scope = scope)
  BY DEF StampOf
<1> HIDE DEF now
<1>6. CASE \E w \in log[k].writer : Unordered(w, now)
  <2>1. PICK w \in log[k].writer : Unordered(w, now)
    BY <1>6
  <2>2. PICK e \in hist : e.seq = w.seq /\ e.key = k /\ e.kind = "Write"
    BY <1>1 DEF StampsReal
  <2>3. HB!Conflict(e.kind, kind) /\ e.seq \notin hb[t]
    BY <1>3, <1>4, <2>1, <2>2 DEF HB!Conflict
  <2>4. ~HB!Ordered(t, k, kind)
    BY <2>2, <2>3 DEF HB!Ordered
  <2>5. ~HB!Ordered(t, k, kind)'
    BY <1>2, <2>4 DEF HB!Ordered
  <2> QED BY <1>2, <2>5 DEF Precise
<1>7. CASE kind # "Atomic" /\ \E p \in log[k].atomics : Unordered(p, now)
  <2>1. PICK w \in log[k].atomics : Unordered(w, now)
    BY <1>7
  <2>2. PICK e \in hist : e.seq = w.seq /\ e.key = k /\ e.kind = "Atomic"
    BY <1>1 DEF StampsReal
  <2>3. HB!Conflict(e.kind, kind) /\ e.seq \notin hb[t]
    BY <1>3, <1>4, <1>7, <2>1, <2>2 DEF HB!Conflict
  <2>4. ~HB!Ordered(t, k, kind)
    BY <2>2, <2>3 DEF HB!Ordered
  <2>5. ~HB!Ordered(t, k, kind)'
    BY <1>2, <2>4 DEF HB!Ordered
  <2> QED BY <1>2, <2>5 DEF Precise
<1>8. CASE kind # "Read" /\ \E r \in log[k].readers : Unordered(r, now)
  <2>1. PICK w \in log[k].readers : Unordered(w, now)
    BY <1>8
  <2>2. PICK e \in hist : e.seq = w.seq /\ e.key = k /\ e.kind = "Read"
    BY <1>1 DEF StampsReal
  <2>3. HB!Conflict(e.kind, kind) /\ e.seq \notin hb[t]
    BY <1>3, <1>4, <1>8, <2>1, <2>2 DEF HB!Conflict
  <2>4. ~HB!Ordered(t, k, kind)
    BY <2>2, <2>3 DEF HB!Ordered
  <2>5. ~HB!Ordered(t, k, kind)'
    BY <1>2, <2>4 DEF HB!Ordered
  <2> QED BY <1>2, <2>5 DEF Precise
<1>9. CASE kind = "Atomic" /\ \E p \in log[k].atomics : OutOfScope(p, now)
  <2>1. PICK p \in log[k].atomics : OutOfScope(p, now)
    BY <1>9
  <2>2. PICK e \in hist :
          e.seq = p.seq /\ e.thread = p.thread /\ e.key = k /\ e.kind = "Atomic" /\ e.scope = p.scope
    BY <1>1 DEF StampsReal
  <2>3. ~Contains(Narrower(e.scope, scope), e.thread, t)
    BY <1>5, <1>9, <2>1, <2>2 DEF OutOfScope
  <2>4. ScopeClash(t, k, scope)'
    BY <1>2, <2>2, <2>3 DEF ScopeClash
  <2> QED BY <1>2, <1>9, <2>4 DEF Precise
<1> QED BY <1>2, <1>6, <1>7, <1>8, <1>9 DEF Races

(* Whoever has been refused stays the only one.                            *)
LEMMA PreciseStep ==
  ASSUME SoundInv, StampsReal, OrderNoticed, RefusedOnce, Precise, [Next]_vars
  PROVE  RefusedOnce' /\ Precise'
<1>1. ASSUME NEW t \in Threads, NEW site \in AccessSites, RefuseAccess(t, site)
      PROVE  RefusedOnce' /\ Precise'
  <2>1. Precise'
    BY <1>1, RefusalJustified
  <2>2. RefusedOnce'
    BY <1>1 DEF RefuseAccess, Refuse, RefusedOnce
  <2> QED BY <2>1, <2>2
<1>2. CASE ~rejected /\ UNCHANGED <<rejected, offender>>
  <2>1. offender' = {}
    BY <1>2 DEF RefusedOnce
  <2> QED BY <2>1 DEF RefusedOnce, Precise
<1>3. ASSUME NEW t \in Threads, NEW site \in AccessSites, Access(t, site)
      PROVE  ~rejected /\ UNCHANGED <<rejected, offender>>
  BY <1>3 DEF Access, Admit
<1>4. ASSUME NEW t \in Threads, NEW f \in FenceSites, Fence(t, f)
      PROVE  ~rejected /\ UNCHANGED <<rejected, offender>>
  BY <1>4 DEF Fence, FenceBy
<1>5. ASSUME NEW b \in Blocks, NEW subs \in (SUBSET Subgroups) \ {{}}, SubgroupRelease(b, subs)
      PROVE  ~rejected /\ UNCHANGED <<rejected, offender>>
  BY <1>5 DEF SubgroupRelease, CountBarrier, SubgroupBarriers
<1>6. ASSUME NEW b \in Blocks, BlockRelease(b)
      PROVE  ~rejected /\ UNCHANGED <<rejected, offender>>
  BY <1>6 DEF BlockRelease, CountBarrier, BlockBarrier
<1>7. ASSUME NEW cs \in (SUBSET Clusters) \ {{}}, ClusterRelease(cs)
      PROVE  ~rejected /\ UNCHANGED <<rejected, offender>>
  BY <1>7 DEF ClusterRelease, CountBarrier, ClusterBarriers
<1>8. CASE DeviceRelease
  <2>1. ~rejected /\ UNCHANGED <<rejected, offender>>
    BY <1>8 DEF DeviceRelease, CountBarrier, DeviceBarrier
  <2> QED BY <1>2, <2>1
<1>9. CASE UNCHANGED vars
  <2>1. UNCHANGED <<rejected, offender, hist, hb>>
    BY <1>9 DEF vars, detectorVars, historyVars
  <2>2. RefusedOnce'
    BY <2>1 DEF RefusedOnce
  <2>3. Precise'
    BY <2>1 DEF Precise, HB!Ordered, ScopeClash
  <2> QED BY <2>2, <2>3
<1> QED BY <1>1, <1>2, <1>3, <1>4, <1>5, <1>6, <1>7, <1>8, <1>9 DEF Next

LEMMA PreciseInit ==
  ASSUME Init
  PROVE  StampsReal /\ RefusedOnce /\ Precise
BY DEF Init, DetectorInit, StampsReal, EmptyEntry, RefusedOnce, Precise

-----------------------------------------------------------------------------
(* Barriers alone: a count shows every barrier that matters.               *)

(* Counts are numbers.                                                     *)
LEMMA CountsType ==
  ASSUME TypeOK, NEW scope \in Scope
  PROVE  /\ \A t \in Threads : CountNow(t, scope) \in Nat
         /\ \A s \in Stamp : Counted(s, scope) \in Nat
<1>1. ASSUME NEW t \in Threads PROVE CountNow(t, scope) \in Nat
  <2>1. BlockOf(t) \in Blocks /\ SubOf(t) \in Subgroups /\ ClusterOf(t) \in Clusters
    BY DEF Threads, BlockOf, SubOf, ClusterOf, Subgroups, Clusters
  <2>2. /\ devEpoch \in Nat /\ clusterEpoch[ClusterOf(t)] \in Nat
        /\ blockEpoch[BlockOf(t)] \in Nat /\ subEpoch[BlockOf(t)][SubOf(t)] \in Nat
    BY <2>1 DEF TypeOK
  <2> QED BY <2>2 DEF CountNow, Scope
<1>2. ASSUME NEW s \in Stamp PROVE Counted(s, scope) \in Nat
  BY DEF Counted, Stamp, Scope
<1> QED BY <1>1, <1>2

(* The four tests of BarrierOrders are one, scope by scope.                *)
LEMMA BarrierOrdersIsPassed ==
  ASSUME TypeOK, NEW s \in Stamp, NEW t \in Threads, PassedSince(s, t)
  PROVE  BarrierOrders(s, StampOf(t, "Read", "Device"))
<1>1. PICK scope \in Scope : Contains(scope, s.thread, t) /\ Counted(s, scope) < CountNow(t, scope)
  BY DEF PassedSince
<1>2. CASE scope = "Thread"
  BY <1>1, <1>2 DEF Counted, CountNow
<1>3. CASE scope = "Subgroup"
  BY <1>1, <1>3 DEF Counted, CountNow, Contains, BarrierOrders, StampOf
<1>4. CASE scope = "Block"
  BY <1>1, <1>4 DEF Counted, CountNow, Contains, BarrierOrders, StampOf
<1>5. CASE scope = "Cluster"
  BY <1>1, <1>5 DEF Counted, CountNow, Contains, BarrierOrders, StampOf
<1>6. CASE scope = "Device"
  BY <1>1, <1>6 DEF Counted, CountNow, BarrierOrders, StampOf
<1> QED BY <1>2, <1>3, <1>4, <1>5, <1>6 DEF Scope

(* Scopes are nested: of two, the wider one contains whom they chain.      *)
LEMMA ScopesNest ==
  ASSUME NEW a \in Scope, NEW b \in Scope, NEW x \in Threads, NEW y \in Threads, NEW z \in Threads,
         Contains(a, x, y), Contains(b, y, z)
  PROVE  (Contains(a, x, z) /\ Contains(a, y, z)) \/ Contains(b, x, z)
BY DEF Contains, Scope, BlockOf, ClusterOf

(* All that a scope contains have the same count.                          *)
LEMMA CountsShared ==
  ASSUME NEW scope \in Scope, NEW x \in Threads, NEW y \in Threads, Contains(scope, x, y)
  PROVE  CountNow(x, scope) = CountNow(y, scope)
BY DEF Contains, Scope, CountNow

(* A barrier of a scope, as its counts show it.                            *)
CountsGroups(scope, groups) ==
  /\ \A t \in Threads : \A c \in Scope : CountNow(t, c) <= CountNow(t, c)'
  /\ \A g \in groups : \A u, t \in g : Contains(scope, u, t)
  /\ \A g \in groups : \A t \in g : CountNow(t, scope) < CountNow(t, scope)'

(* Whom a barrier tells of an event, the counts of the wider of its scope  *)
(* and the one that told before show it.                                   *)
LEMMA BarrierComplete ==
  ASSUME TypeOK, TypeOK', PastClosed, EpochsSound, CountsBounded, EpochsComplete,
         NEW groups \in SUBSET (SUBSET Threads), BarrierOf(groups),
         NEW scope \in Scope, CountsGroups(scope, groups)
  PROVE  CountsBounded' /\ EpochsComplete'
<1>1. /\ \A t \in Threads : \A n \in hb'[t] :
           n \in hb[t] \/ \E g \in groups : t \in g /\ \E u \in g : n \in hb[u]
      /\ \A k \in Keys : Stamps(k)' = Stamps(k)
  BY RendezvousGrows DEF BarrierOf, Stamps
<1>2. ASSUME NEW t \in Threads, NEW c \in Scope
      PROVE  CountNow(t, c) \in Nat /\ CountNow(t, c)' \in Nat /\ CountNow(t, c) <= CountNow(t, c)'
  <2>1. CountNow(t, c)' \in Nat
    <3>1. BlockOf(t) \in Blocks /\ SubOf(t) \in Subgroups /\ ClusterOf(t) \in Clusters
      BY DEF Threads, BlockOf, SubOf, ClusterOf, Subgroups, Clusters
    <3>2. /\ devEpoch' \in Nat /\ clusterEpoch'[ClusterOf(t)] \in Nat
          /\ blockEpoch'[BlockOf(t)] \in Nat /\ subEpoch'[BlockOf(t)][SubOf(t)] \in Nat
      BY <3>1 DEF TypeOK
    <3> QED BY <3>2 DEF CountNow, Scope
  <2> QED BY <2>1, CountsType DEF CountsGroups
<1>3. ASSUME NEW k \in Keys, NEW s \in Stamps(k)
      PROVE  /\ s \in Stamp /\ s.thread \in Threads
             /\ \A c \in Scope : Counted(s, c) \in Nat /\ Counted(s, c) <= CountNow(s.thread, c)
  BY StampHappened, CountsType DEF CountsBounded
<1>4. CountsBounded'
  <2>1. ASSUME NEW k \in Keys, NEW s \in Stamps(k), NEW c \in Scope
        PROVE  Counted(s, c) <= CountNow(s.thread, c)'
    BY <1>2, <1>3
  <2> QED BY <1>1, <2>1 DEF CountsBounded, Counted
<1>5. ASSUME NEW k \in Keys, NEW s \in Stamps(k), NEW t \in Threads, s.seq \in hb'[t]
      PROVE  s.thread = t \/ PassedSince(s, t)'
  <2>0. s \in Stamp /\ s.thread \in Threads
    BY <1>3
  <2>1. ASSUME NEW c \in Scope, Contains(c, s.thread, t), Counted(s, c) < CountNow(t, c)'
        PROVE  PassedSince(s, t)'
    BY <2>1 DEF PassedSince, Counted
  <2>2. CASE s.seq \in hb[t]
    <3>1. CASE s.thread = t
      BY <3>1
    <3>2. CASE PassedSince(s, t)
      <4>1. PICK c \in Scope : Contains(c, s.thread, t) /\ Counted(s, c) < CountNow(t, c)
        BY <3>2 DEF PassedSince
      <4>2. Counted(s, c) < CountNow(t, c)'
        BY <1>2, <1>3, <4>1
      <4> QED BY <2>1, <4>1, <4>2
    <3> QED BY <2>2, <3>1, <3>2 DEF EpochsComplete
  <2>3. CASE s.seq \notin hb[t]
    <3>1. PICK g \in groups : t \in g /\ \E u \in g : s.seq \in hb[u]
      BY <1>1, <1>5, <2>3
    <3>2. PICK u \in g : s.seq \in hb[u]
      BY <3>1
    <3>3. u \in Threads /\ Contains(scope, u, t) /\ CountNow(t, scope) < CountNow(t, scope)'
      BY <3>1, <3>2 DEF CountsGroups
    <3>4. ASSUME Contains(scope, s.thread, t) PROVE PassedSince(s, t)'
      <4>1. CountNow(s.thread, scope) = CountNow(t, scope)
        BY <2>0, <3>4, CountsShared
      <4>2. Counted(s, scope) < CountNow(t, scope)'
        BY <1>2, <1>3, <3>3, <4>1
      <4> QED BY <2>1, <3>4, <4>2
    <3>5. CASE s.thread = u
      BY <3>3, <3>4, <3>5
    <3>6. CASE PassedSince(s, u)
      <4>1. PICK c \in Scope : Contains(c, s.thread, u) /\ Counted(s, c) < CountNow(u, c)
        BY <3>6 DEF PassedSince
      <4>2. (Contains(c, s.thread, t) /\ Contains(c, u, t)) \/ Contains(scope, s.thread, t)
        BY <2>0, <3>3, <4>1, ScopesNest
      <4>3. CASE Contains(c, s.thread, t) /\ Contains(c, u, t)
        <5>1. CountNow(u, c) = CountNow(t, c)
          BY <3>3, <4>3, CountsShared
        <5>2. Counted(s, c) < CountNow(t, c)'
          BY <1>2, <1>3, <4>1, <5>1
        <5> QED BY <2>1, <4>3, <5>2
      <4> QED BY <3>4, <4>2, <4>3
    <3> QED BY <3>2, <3>3, <3>5, <3>6 DEF EpochsComplete
  <2> QED BY <2>2, <2>3
<1>6. EpochsComplete'
  <2>1. \A k \in Keys : \A s \in Stamps(k)' : \A t \in Threads : s.seq \in hb'[t] => s.thread = t \/ PassedSince(s, t)'
    BY <1>1, <1>5
  <2> QED BY <2>1 DEF EpochsComplete
<1> QED BY <1>4, <1>6

(* Each release counts, for each of its groups, the scope they are of.     *)
LEMMA SubgroupCounts ==
  ASSUME TypeOK, NEW b \in Blocks, NEW subs \in SUBSET Subgroups, SubgroupRelease(b, subs)
  PROVE  CountsGroups("Subgroup", {HB!SubgroupThreads(b, s) : s \in subs})
<1> DEFINE groups == {HB!SubgroupThreads(b, s) : s \in subs}
<1>1. /\ subEpoch' = [subEpoch EXCEPT ![b] =
                        [x \in Subgroups |-> IF x \in subs THEN subEpoch[b][x] + 1 ELSE subEpoch[b][x]]]
      /\ UNCHANGED <<devEpoch, clusterEpoch, blockEpoch>>
  BY DEF SubgroupRelease, SubgroupBarriers, TypeOK
<1>2. ASSUME NEW t \in Threads
      PROVE  /\ subEpoch[BlockOf(t)][SubOf(t)] \in Nat
             /\ subEpoch'[BlockOf(t)][SubOf(t)] =
                  IF BlockOf(t) = b /\ SubOf(t) \in subs THEN subEpoch[BlockOf(t)][SubOf(t)] + 1
                                                         ELSE subEpoch[BlockOf(t)][SubOf(t)]
  <2>1. BlockOf(t) \in Blocks /\ SubOf(t) \in Subgroups
    BY DEF Threads, BlockOf, Subgroups
  <2> QED BY <1>1, <2>1 DEF TypeOK
<1>3. ASSUME NEW t \in Threads, NEW c \in Scope PROVE CountNow(t, c) <= CountNow(t, c)'
  <2>1. CountNow(t, c) \in Nat
    BY CountsType
  <2>2. CASE c = "Subgroup"
    BY <1>2, <2>2 DEF CountNow
  <2>3. CASE c # "Subgroup"
    BY <1>1, <2>1, <2>3 DEF CountNow, Scope
  <2> QED BY <2>2, <2>3
<1>4. ASSUME NEW s \in subs, NEW t \in HB!SubgroupThreads(b, s)
      PROVE  t \in Threads /\ BlockOf(t) = b /\ SubOf(t) = s
  BY SameHierarchy DEF HB!SubgroupThreads, HB!BlockOf, BlockOf, HB!SubOf, SubOf
<1>5. \A g \in groups : \A u, t \in g : Contains("Subgroup", u, t)
  BY <1>4 DEF Contains
<1>6. \A g \in groups : \A t \in g : CountNow(t, "Subgroup") < CountNow(t, "Subgroup")'
  <2>1. ASSUME NEW s \in subs, NEW t \in HB!SubgroupThreads(b, s)
        PROVE  CountNow(t, "Subgroup") < CountNow(t, "Subgroup")'
    BY <1>2, <1>4 DEF CountNow
  <2> QED BY <2>1
<1> QED BY <1>3, <1>5, <1>6 DEF CountsGroups

LEMMA BlockCounts ==
  ASSUME TypeOK, NEW b \in Blocks, BlockRelease(b)
  PROVE  CountsGroups("Block", {HB!BlockThreads(b)})
<1>1. /\ blockEpoch' = [blockEpoch EXCEPT ![b] = @ + 1]
      /\ UNCHANGED <<devEpoch, clusterEpoch, subEpoch>>
  BY DEF BlockRelease, BlockBarrier
<1>2. ASSUME NEW t \in Threads
      PROVE  /\ blockEpoch[BlockOf(t)] \in Nat
             /\ blockEpoch'[BlockOf(t)] = IF BlockOf(t) = b THEN blockEpoch[BlockOf(t)] + 1 ELSE blockEpoch[BlockOf(t)]
  <2>1. BlockOf(t) \in Blocks
    BY DEF Threads, BlockOf
  <2> QED BY <1>1, <2>1 DEF TypeOK
<1>3. ASSUME NEW t \in Threads, NEW c \in Scope PROVE CountNow(t, c) <= CountNow(t, c)'
  <2>1. CountNow(t, c) \in Nat
    BY CountsType
  <2>2. CASE c = "Block"
    BY <1>2, <2>2 DEF CountNow
  <2>3. CASE c # "Block"
    BY <1>1, <2>1, <2>3 DEF CountNow, Scope
  <2> QED BY <2>2, <2>3
<1>4. ASSUME NEW t \in HB!BlockThreads(b) PROVE t \in Threads /\ BlockOf(t) = b
  BY SameHierarchy DEF HB!BlockThreads, HB!BlockOf, BlockOf
<1>5. \A u, t \in HB!BlockThreads(b) : Contains("Block", u, t)
  BY <1>4 DEF Contains
<1>6. \A t \in HB!BlockThreads(b) : CountNow(t, "Block") < CountNow(t, "Block")'
  BY <1>2, <1>4 DEF CountNow
<1> QED BY <1>3, <1>5, <1>6 DEF CountsGroups

LEMMA ClusterCounts ==
  ASSUME TypeOK, NEW cs \in SUBSET Clusters, ClusterRelease(cs)
  PROVE  CountsGroups("Cluster", {HB!ClusterThreads(c) : c \in cs})
<1>1. /\ clusterEpoch' = [c \in Clusters |-> IF c \in cs THEN clusterEpoch[c] + 1 ELSE clusterEpoch[c]]
      /\ UNCHANGED <<devEpoch, blockEpoch, subEpoch>>
  BY DEF ClusterRelease, ClusterBarriers
<1>2. ASSUME NEW t \in Threads
      PROVE  /\ clusterEpoch[ClusterOf(t)] \in Nat
             /\ clusterEpoch'[ClusterOf(t)] = IF ClusterOf(t) \in cs THEN clusterEpoch[ClusterOf(t)] + 1
                                                                     ELSE clusterEpoch[ClusterOf(t)]
  <2>1. ClusterOf(t) \in Clusters
    BY DEF Threads, ClusterOf, Clusters
  <2> QED BY <1>1, <2>1 DEF TypeOK
<1>3. ASSUME NEW t \in Threads, NEW c \in Scope PROVE CountNow(t, c) <= CountNow(t, c)'
  <2>1. CountNow(t, c) \in Nat
    BY CountsType
  <2>2. CASE c = "Cluster"
    BY <1>2, <2>2 DEF CountNow
  <2>3. CASE c # "Cluster"
    BY <1>1, <2>1, <2>3 DEF CountNow, Scope
  <2> QED BY <2>2, <2>3
<1>4. ASSUME NEW c \in cs, NEW t \in HB!ClusterThreads(c) PROVE t \in Threads /\ ClusterOf(t) = c
  BY SameHierarchy DEF HB!ClusterThreads, HB!ClusterOf, ClusterOf, HB!ClusterOfBlock, ClusterOfBlock
<1>5. \A g \in {HB!ClusterThreads(c) : c \in cs} : \A u, t \in g : Contains("Cluster", u, t)
  BY <1>4 DEF Contains
<1>6. \A g \in {HB!ClusterThreads(c) : c \in cs} : \A t \in g : CountNow(t, "Cluster") < CountNow(t, "Cluster")'
  <2>1. ASSUME NEW c \in cs, NEW t \in HB!ClusterThreads(c)
        PROVE  CountNow(t, "Cluster") < CountNow(t, "Cluster")'
    BY <1>2, <1>4 DEF CountNow
  <2> QED BY <2>1
<1> QED BY <1>3, <1>5, <1>6 DEF CountsGroups

LEMMA DeviceCounts ==
  ASSUME TypeOK, DeviceRelease
  PROVE  CountsGroups("Device", {Threads})
<1>1. devEpoch' = devEpoch + 1 /\ UNCHANGED <<clusterEpoch, blockEpoch, subEpoch>> /\ devEpoch \in Nat
  BY DEF DeviceRelease, DeviceBarrier, TypeOK
<1>2. ASSUME NEW t \in Threads, NEW c \in Scope PROVE CountNow(t, c) <= CountNow(t, c)'
  <2>1. CountNow(t, c) \in Nat
    BY CountsType
  <2> QED BY <1>1, <2>1 DEF CountNow, Scope
<1>3. \A t \in Threads : CountNow(t, "Device") < CountNow(t, "Device")'
  BY <1>1 DEF CountNow
<1> QED BY <1>2, <1>3 DEF CountsGroups, Contains

(* An access adds its own event to its own thread's past.                  *)
LEMMA AccessEpochsComplete ==
  ASSUME NothingAcquires, SoundInv, CountsBounded, EpochsComplete,
         NEW t \in Threads, NEW site \in AccessSites, Access(t, site)
  PROVE  CountsBounded' /\ EpochsComplete'
<1> DEFINE k == site.key
           kind == site.kind
           order == site.order
           scope == site.scope
           now == StampOf(t, kind, scope)
<1>1. k \in Keys /\ kind \in Kind /\ order \in Order /\ scope \in Scope
  BY SiteType
<1>2. Admit(t, k, kind, order, scope) /\ HB!Perform(t, k, kind, order, scope)
  BY DEF Access
<1>3. ~(kind = "Atomic" /\ Acquires(order))
  BY DEF NothingAcquires, AtomicSites
<1> HIDE DEF k, kind, order, scope
<1>4. hb'[t] = hb[t] \cup {seq + 1} /\ \A u \in Threads : u # t => hb'[u] = hb[u]
  <2>1. Performed(t, k, kind, order, scope)
    BY <1>1, <1>2, PerformStep DEF SoundInv
  <2>2. PastAfter(t, k, kind, order, scope) = hb[t] \cup {seq + 1}
    BY <1>3 DEF PastAfter, Gained
  <2> QED BY <2>1, <2>2 DEF Performed
<1>5. UNCHANGED epochVars /\ TypeOK /\ PastClosed /\ EpochsSound /\ HistoryBounded /\ seq \in Nat
  BY <1>2 DEF Admit, SoundInv, TypeOK
<1>6. \A j \in Keys : \A s \in Stamps(j)' : s \in Stamps(j) \/ s = now
  BY <1>1, <1>2, <1>5, StampsAfter
<1>7. \A u \in Threads : \A c \in Scope : CountNow(u, c)' = CountNow(u, c)
  BY <1>5 DEF epochVars, CountNow
<1>8. now.thread = t /\ now.seq = seq + 1 /\ \A c \in Scope : Counted(now, c) = CountNow(t, c)
  BY DEF StampOf, Counted, CountNow, Scope
<1> HIDE DEF now
<1>9. CountsBounded'
  <2>1. ASSUME NEW j \in Keys, NEW s \in Stamps(j)', NEW c \in Scope
        PROVE  Counted(s, c) <= CountNow(s.thread, c)'
    <3>1. CASE s \in Stamps(j)
      <4>1. s.thread \in Threads
        BY <1>5, <3>1, StampHappened
      <4> QED BY <1>7, <3>1, <4>1 DEF CountsBounded
    <3>2. CASE s = now
      <4>1. CountNow(t, c) \in Nat
        BY <1>5, CountsType
      <4> QED BY <1>7, <1>8, <3>2, <4>1
    <3> QED BY <1>6, <2>1, <3>1, <3>2
  <2> QED BY <2>1 DEF CountsBounded, Counted
<1>10. EpochsComplete'
  <2>1. ASSUME NEW j \in Keys, NEW s \in Stamps(j)', NEW u \in Threads, s.seq \in hb'[u]
        PROVE  s.thread = u \/ PassedSince(s, u)'
    <3>1. CASE s \in Stamps(j)
      <4>1. s.seq \in Nat /\ s.thread \in Threads /\ s.seq \in hb[s.thread]
        BY <1>5, <3>1, StampHappened
      <4>2. s.seq # seq + 1
        BY <1>5, <4>1 DEF HistoryBounded, UpToNow
      <4>3. s.seq \in hb[u]
        BY <1>4, <2>1, <4>2
      <4>4. s.thread = u \/ PassedSince(s, u)
        BY <3>1, <4>3 DEF EpochsComplete
      <4> QED BY <1>7, <4>4 DEF PassedSince, Counted
    <3>2. CASE s = now
      <4>1. \A n \in hb[u] : n # seq + 1
        BY <1>5 DEF HistoryBounded, UpToNow, TypeOK
      <4> QED BY <1>4, <1>8, <2>1, <3>2, <4>1
    <3> QED BY <1>6, <2>1, <3>1, <3>2
  <2> QED BY <2>1 DEF EpochsComplete
<1> QED BY <1>9, <1>10

(* Neither depends on anything but the counts, the log and the past.       *)
LEMMA EpochsCompleteKept ==
  ASSUME CountsBounded, EpochsComplete, UNCHANGED <<epochVars, log>>, \A t \in Threads : hb'[t] = hb[t]
  PROVE  CountsBounded' /\ EpochsComplete'
<1>1. \A t : \A c : CountNow(t, c)' = CountNow(t, c)
  BY DEF epochVars, CountNow
<1>2. \A k \in Keys : Stamps(k)' = Stamps(k)
  BY DEF Stamps
<1>3. CountsBounded'
  BY <1>1, <1>2 DEF CountsBounded, Counted
<1>4. \A s, t : PassedSince(s, t) => PassedSince(s, t)'
  BY <1>1 DEF PassedSince, Counted
<1>5. EpochsComplete'
  BY <1>2, <1>4 DEF EpochsComplete
<1> QED BY <1>3, <1>5

(* What the counts show is what touch finds ordered.                       *)
LEMMA CountsNotice ==
  ASSUME TypeOK, EpochsComplete
  PROVE  OrderNoticed
<1> SUFFICES ASSUME NEW k \in Keys, NEW s \in Stamps(k), NEW t \in Threads, s.seq \in hb[t]
             PROVE  ~Unordered(s, StampOf(t, "Read", "Device"))
  BY DEF OrderNoticed
<1>1. s \in Stamp
  BY DEF TypeOK, Entry, Stamps
<1>2. s.thread = t \/ PassedSince(s, t)
  BY DEF EpochsComplete
<1>3. StampOf(t, "Read", "Device").thread = t
  BY DEF StampOf
<1> QED BY <1>1, <1>2, <1>3, BarrierOrdersIsPassed DEF Unordered

BarriersInv == SoundInv /\ StampsReal /\ RefusedOnce /\ Precise /\ CountsBounded /\ EpochsComplete

LEMMA BarriersStep ==
  ASSUME NothingAcquires, BarriersInv, [Next]_vars
  PROVE  BarriersInv'
<1>0. SoundInv /\ StampsReal /\ CountsBounded /\ EpochsComplete /\ RefusedOnce /\ Precise
  BY DEF BarriersInv
<1>1. TypeOK /\ PastClosed /\ EpochsSound
  BY <1>0 DEF SoundInv
<1>2. SoundInv' /\ TypeOK'
  BY <1>0, SoundStep DEF SoundInv
<1>3. RefusedOnce' /\ Precise'
  BY <1>0, <1>1, CountsNotice, PreciseStep
<1> DEFINE Goal == StampsReal' /\ CountsBounded' /\ EpochsComplete'
<1>4. ASSUME UNCHANGED <<epochVars, log, hist>>, \A t \in Threads : hb'[t] = hb[t] PROVE Goal
  <2>1. StampsReal'
    BY <1>0, <1>4, StampsKept
  <2> QED BY <1>0, <1>4, <2>1, EpochsCompleteKept
<1>5. ASSUME NEW groups \in SUBSET (SUBSET Threads), BarrierOf(groups),
             NEW scope \in Scope, CountsGroups(scope, groups)
      PROVE  Goal
  <2>1. UNCHANGED <<log, hist>>
    BY <1>1, <1>5, RendezvousGrows DEF BarrierOf
  <2>2. StampsReal'
    BY <1>0, <2>1, StampsKept
  <2> QED BY <1>0, <1>1, <1>2, <1>5, <2>2, BarrierComplete
<1>6. ASSUME NEW t \in Threads, NEW site \in AccessSites, Access(t, site) PROVE Goal
  <2>1. Admit(t, site.key, site.kind, site.order, site.scope)
        /\ HB!Perform(t, site.key, site.kind, site.order, site.scope)
    BY <1>6 DEF Access
  <2>2. StampsReal'
    BY <1>0, <2>1, SiteType, AccessStamps
  <2> QED BY <1>0, <1>6, <2>2, AccessEpochsComplete
<1>7. ASSUME NEW t \in Threads, NEW site \in AccessSites, RefuseAccess(t, site) PROVE Goal
  BY <1>4, <1>7 DEF RefuseAccess, Refuse, historyVars
<1>8. ASSUME NEW t \in Threads, NEW f \in FenceSites, Fence(t, f) PROVE Goal
  <2>1. f.order \in Order /\ f.scope \in Scope /\ ~Acquires(f.order)
    BY SitesAssumption DEF NothingAcquires
  <2>2. FencedPast(t, f.order, f.scope) = hb[t]
    BY <1>1, <2>1 DEF FencedPast, TypeOK
  <2>3. (\A u \in Threads : hb'[u] = hb[u]) /\ hist' = hist
    BY <1>1, <1>8, <2>1, <2>2, FenceHistoryStep DEF Fence
  <2>4. UNCHANGED <<epochVars, log>>
    BY <1>8 DEF Fence, FenceBy
  <2> QED BY <1>4, <2>3, <2>4
<1>9. ASSUME NEW b \in Blocks, NEW subs \in (SUBSET Subgroups) \ {{}}, SubgroupRelease(b, subs) PROVE Goal
  <2>1. CountsGroups("Subgroup", {HB!SubgroupThreads(b, s) : s \in subs}) /\ "Subgroup" \in Scope
    BY <1>1, <1>9, SubgroupCounts DEF Scope
  <2> HIDE DEF Goal
  <2> QED BY <1>1, <1>5, <1>9, <2>1, SubgroupReleaseGroups
<1>10. ASSUME NEW b \in Blocks, BlockRelease(b) PROVE Goal
  <2>1. CountsGroups("Block", {HB!BlockThreads(b)}) /\ "Block" \in Scope
    BY <1>1, <1>10, BlockCounts DEF Scope
  <2> HIDE DEF Goal
  <2> QED BY <1>1, <1>5, <1>10, <2>1, BlockReleaseGroups
<1>11. ASSUME NEW cs \in (SUBSET Clusters) \ {{}}, ClusterRelease(cs) PROVE Goal
  <2>1. CountsGroups("Cluster", {HB!ClusterThreads(c) : c \in cs}) /\ "Cluster" \in Scope
    BY <1>1, <1>11, ClusterCounts DEF Scope
  <2> HIDE DEF Goal
  <2> QED BY <1>1, <1>5, <1>11, <2>1, ClusterReleaseGroups
<1>12. ASSUME DeviceRelease PROVE Goal
  <2>1. CountsGroups("Device", {Threads}) /\ "Device" \in Scope
    BY <1>1, <1>12, DeviceCounts DEF Scope
  <2> HIDE DEF Goal
  <2> QED BY <1>1, <1>5, <1>12, <2>1, DeviceReleaseGroups
<1>13. ASSUME UNCHANGED vars PROVE Goal
  BY <1>4, <1>13 DEF vars, detectorVars, historyVars
<1>14. Goal
  BY <1>6, <1>7, <1>8, <1>9, <1>10, <1>11, <1>12, <1>13 DEF Next
<1> QED BY <1>2, <1>3, <1>14 DEF BarriersInv

(* In a kernel that never acquires, whatever its barriers, atomics and     *)
(* releases, a refused access is one that nothing orders after an earlier  *)
(* conflicting one, or an atomic out of another's scope: the counts forget *)
(* no barrier that both threads passed, or that passed the news on.        *)
THEOREM BarriersArePrecise ==
  ASSUME NothingAcquires
  PROVE  Spec => []Precise
<1>1. Init => BarriersInv
  <2>1. ASSUME Init PROVE CountsBounded /\ EpochsComplete
    BY <2>1 DEF Init, DetectorInit, CountsBounded, EpochsComplete, Stamps, EmptyEntry
  <2> QED BY <2>1, SoundInit, PreciseInit DEF BarriersInv
<1>2. BarriersInv /\ [Next]_vars => BarriersInv'
  BY BarriersStep
<1>3. BarriersInv => Precise
  BY DEF BarriersInv
<1> QED BY <1>1, <1>2, <1>3, PTL DEF Spec

-----------------------------------------------------------------------------
(* Edges alone: a clock reaches all that is in the past.                   *)

(* Absorbing takes in the most of every record in scope.                   *)
LEMMA AbsorbReaches ==
  ASSUME NEW n \in Nat, NEW clock \in Clock, Bounded(clock, n),
         NEW recs \in SUBSET Record, \A r \in recs : Bounded(r.clock, n),
         NEW t \in Threads, NEW scope \in Scope, NEW u \in Threads
  PROVE  /\ clock[u] <= Absorb(clock, recs, t, scope)[u]
         /\ \A r \in InScope(recs, t, scope) : r.clock[u] <= Absorb(clock, recs, t, scope)[u]
<1> DEFINE known == {clock[u]} \cup {r.clock[u] : r \in InScope(recs, t, scope)}
<1>1. clock[u] \in 0 .. n
  BY DEF Clock, Bounded
<1>2. ASSUME NEW r \in InScope(recs, t, scope) PROVE r.clock[u] \in 0 .. n
  <2>1. r \in recs /\ r \in Record
    BY DEF InScope
  <2>2. r.clock[u] \in Nat
    BY <2>1 DEF Record, Clock
  <2>3. r.clock[u] <= n
    BY <2>1 DEF Bounded
  <2> QED BY <2>2, <2>3
<1>3. known \subseteq 0 .. n /\ known # {}
  BY <1>1, <1>2
<1>4. Absorb(clock, recs, t, scope)[u] = CHOOSE m \in known : \A k \in known : k <= m
  BY DEF Absorb
<1>5. clock[u] \in known /\ \A r \in InScope(recs, t, scope) : r.clock[u] \in known
  OBVIOUS
<1> HIDE DEF known
<1>6. \E m \in known : \A k \in known : k <= m
  BY <1>3, LargestExists
<1>7. \A k \in known : k <= Absorb(clock, recs, t, scope)[u]
  BY <1>4, <1>6
<1> QED BY <1>5, <1>7

(* A record in scope for the detector is one for the specification.        *)
LEMMA InScopeIfCarried ==
  ASSUME NEW recs, NEW r \in recs, NEW t, NEW scope, NEW p,
         r.from = p.from, r.scope = p.scope, HB!Contains(HB!Narrower(p.scope, scope), p.from, t)
  PROVE  r \in InScope(recs, t, scope)
BY SameScopes DEF InScope

(* What an atomic has acquired reaches all its past but its own accesses.  *)
LEMMA AtomicKnowsPast ==
  ASSUME SoundInv, KnowledgeComplete, RecordsComplete,
         NEW t \in Threads, NEW k \in Keys, NEW order \in Order, NEW scope \in Scope
  PROVE  LET clock == AcquiredClock(t, records[k], order, scope)
         IN  /\ clock \in Clock /\ Bounded(clock, seq)
             /\ ReachesOthers(t, clock, PastAfter(t, k, "Atomic", order, scope))
<1> DEFINE clock == AcquiredClock(t, records[k], order, scope)
           past == PastAfter(t, k, "Atomic", order, scope)
<1>1. /\ know[t] \in Clock /\ Bounded(know[t], seq) /\ seq \in Nat
      /\ records[k] \in SUBSET Record /\ \A r \in records[k] : Bounded(r.clock, seq)
  BY DEF SoundInv, TypeOK, ClocksBounded, Bounded
<1>2. clock \in Clock /\ Bounded(clock, seq)
  BY <1>1, AbsorbClock DEF AcquiredClock
<1>3. ASSUME NEW u \in Threads PROVE know[t][u] <= clock[u]
  <2>1. know[t][u] \in Nat
    BY <1>1 DEF Clock
  <2>2. CASE Acquires(order)
    BY <1>1, <2>2, AbsorbReaches DEF AcquiredClock
  <2>3. CASE ~Acquires(order)
    BY <2>1, <2>3 DEF AcquiredClock
  <2> QED BY <2>2, <2>3
<1>4. ASSUME NEW e \in hist, e.seq \in past, e.thread # t PROVE e.seq <= clock[e.thread]
  <2>1. /\ e.thread \in Threads /\ e.seq \in Nat /\ e.seq # seq + 1
        /\ know[t][e.thread] \in Nat /\ clock[e.thread] \in Nat
    BY <1>1, <1>2, EventType DEF SoundInv, PastClosed, Clock
  <2>2. CASE e.seq \in hb[t]
    <3>1. e.seq <= know[t][e.thread]
      BY <1>4, <2>2 DEF KnowledgeComplete, ReachesOthers
    <3>2. know[t][e.thread] <= clock[e.thread]
      BY <1>3, <2>1
    <3> HIDE DEF clock
    <3> QED BY <2>1, <3>1, <3>2
  <2>3. CASE e.seq \in Gained(t, k, "Atomic", order, scope)
    <3>1. Acquires(order) /\ e.seq \in HB!Carried(rel[k], t, scope)
      BY <2>3 DEF Gained
    <3>2. PICK p \in rel[k] : HB!Contains(HB!Narrower(p.scope, scope), p.from, t) /\ e.seq \in p.before
      BY <3>1 DEF HB!Carried
    <3>3. PICK r \in records[k] : r.from = p.from /\ r.scope = p.scope /\ Reaches(r.clock, p.before)
      BY DEF RecordsComplete, Kept
    <3>4. r \in InScope(records[k], t, scope)
      BY <3>2, <3>3, InScopeIfCarried
    <3>5. e.seq <= r.clock[e.thread]
      BY <3>2, <3>3 DEF Reaches
    <3>6. r.clock[e.thread] \in Nat
      BY <1>1, <2>1, <3>3 DEF Record, Clock
    <3>7. r.clock[e.thread] <= clock[e.thread]
      BY <1>1, <2>1, <3>1, <3>4, AbsorbReaches DEF AcquiredClock
    <3> HIDE DEF clock
    <3> QED BY <2>1, <3>5, <3>6, <3>7
  <2> QED BY <1>4, <2>1, <2>2, <2>3 DEF PastAfter
<1> QED BY <1>2, <1>4 DEF ReachesOthers

(* A record of a thread's stands for all it has published at this scope,   *)
(* if it stood for it before: a new release knows at least as much.        *)
LEMMA ReplacedRecord ==
  ASSUME SoundInv, KnowledgeComplete, RecordsComplete, NoReleaseFence,
         NEW t \in Threads, NEW k \in Keys, NEW order \in Order, NEW scope \in Scope,
         AtomicEdges(t, k, order, scope),
         hist' = hist \cup {EventOf(t, k, "Atomic", order, scope)},
         NEW p, p.scope = scope, p.before \in SUBSET Nat, UpToNow(p.before), p.before \subseteq hb[p.from],
         Kept(p, records[k])
  PROVE  \E r \in records'[k] :
           /\ r.from = p.from /\ r.scope = p.scope
           /\ \A e \in hist' : e.seq \in p.before => e.seq <= r.clock[e.thread]
<1> DEFINE clock == AcquiredClock(t, records[k], order, scope)
           past == PastAfter(t, k, "Atomic", order, scope)
           left == Left(t, clock, order, scope)
           event == EventOf(t, k, "Atomic", order, scope)
<1>1. clock \in Clock /\ Bounded(clock, seq) /\ ReachesOthers(t, clock, past)
  BY AtomicKnowsPast
<1>2. records'[k] = Replace(records[k], left) /\ seq \in Nat
  BY DEF AtomicEdges, AcquiredClock, SoundInv, TypeOK
<1>3. hb[t] \subseteq past /\ event.seq = seq + 1
  BY DEF PastAfter, EventOf
<1>4. \A e \in hist' : e.seq \in p.before => e \in hist
  BY <1>2, <1>3 DEF UpToNow
<1>5. PICK r \in records[k] : r.from = p.from /\ r.scope = p.scope /\ Reaches(r.clock, p.before)
  BY DEF Kept
<1>6. CASE Releases(order) /\ p.from = t
  <2> DEFINE new == [from |-> t, scope |-> scope, clock |-> Snapshot(clock, t, seq + 1)]
  <2>1. left = {new}
    BY <1>6 DEF Left
  <2>2. new \in records'[k] /\ new.from = p.from /\ new.scope = p.scope /\ new.clock = Snapshot(clock, t, seq + 1)
    BY <1>2, <1>6, <2>1 DEF Replace
  <2> HIDE DEF clock, past, event, left, new
  <2>3. ASSUME NEW e \in hist', e.seq \in p.before PROVE e.seq <= Snapshot(clock, t, seq + 1)[e.thread]
    <3>1. e \in hist
      BY <1>4, <2>3
    <3>2. e.thread \in Threads /\ e.seq \in Nat /\ e.seq <= seq /\ e.seq \in past
      BY <1>3, <1>6, <2>3, <3>1, EventType DEF SoundInv, PastClosed
    <3>3. CASE e.thread = t
      <4>1. Snapshot(clock, t, seq + 1)[t] = seq + 1
        BY <1>1, <1>2, SnapshotClock
      <4> QED BY <1>2, <3>2, <3>3, <4>1
    <3>4. CASE e.thread # t
      <4>1. Snapshot(clock, t, seq + 1)[e.thread] = clock[e.thread]
        BY <1>1, <1>2, <3>2, <3>4, SnapshotClock
      <4> QED BY <1>1, <3>1, <3>2, <3>4, <4>1 DEF ReachesOthers
    <3> QED BY <3>3, <3>4
  <2> QED BY <2>2, <2>3
<1>7. CASE ~(Releases(order) /\ p.from = t)
  <2>1. \A n \in left : n.from # r.from
    <3>1. CASE Releases(order)
      <4>1. \A n \in left : n.from = t
        BY <3>1 DEF Left
      <4> QED BY <1>5, <1>7, <3>1, <4>1
    <3>2. CASE ~Releases(order)
      <4>1. left = {}
        BY <3>2 DEF Left, NoReleaseFence
      <4> QED BY <4>1
    <3> QED BY <3>1, <3>2
  <2>2. r \in records'[k]
    BY <1>2, <2>1 DEF Replace
  <2> QED BY <1>4, <1>5, <2>2 DEF Reaches
<1> QED BY <1>6, <1>7

(* Publications have a thread and a set of past events.                    *)
LEMMA PublicationFacts ==
  ASSUME SoundInv
  PROVE  /\ \A k \in Keys : \A p \in rel[k] :
              p.from \in Threads /\ p.before \in SUBSET Nat /\ UpToNow(p.before)
         /\ \A t \in Threads : \A p \in seen[t] :
              p.from \in Threads /\ p.before \in SUBSET Nat /\ UpToNow(p.before)
<1>1. TypeOK /\ HistoryBounded
  BY DEF SoundInv
<1>2. \A k \in Keys : \A p \in rel[k] : p.from \in Threads /\ p.before \in SUBSET Nat
  BY <1>1 DEF TypeOK
<1>3. \A t \in Threads : \A p \in seen[t] : p.from \in Threads /\ p.before \in SUBSET Nat
  BY <1>1 DEF TypeOK
<1> QED BY <1>1, <1>2, <1>3 DEF HistoryBounded

(* An atomic, where those of an element have one scope and no fence        *)
(* releases.                                                               *)
LEMMA AtomicEdgesComplete ==
  ASSUME EdgesAlone, SoundInv, EdgesComplete, NEW t \in Threads, NEW site \in AtomicSites, Access(t, site)
  PROVE  EdgesComplete'
<1> DEFINE k == site.key
           order == site.order
           scope == site.scope
           event == EventOf(t, k, "Atomic", order, scope)
           past == PastAfter(t, k, "Atomic", order, scope)
           clock == AcquiredClock(t, records[k], order, scope)
           left == Left(t, clock, order, scope)
           pub == HB!Publication(t, scope, past)
           noticed == Noticed(k, scope)
<1>1. /\ site \in AccessSites /\ site.kind = "Atomic" /\ "Atomic" \in Kind
      /\ k \in Keys /\ order \in Order /\ scope \in Scope
  BY SiteType DEF AtomicSites, Kind
<1>2. /\ Admit(t, k, "Atomic", order, scope)
      /\ HB!Perform(t, k, "Atomic", order, scope)
  BY <1>1 DEF Access
<1>3. \A other \in AtomicSites :
         /\ other.key = k => other.scope = scope
         /\ FenceSites # {} => other.key = k /\ other.scope = scope
  BY DEF EdgesAlone
<1>4. /\ KnowledgeComplete /\ RecordsComplete /\ ScopesAgree
      /\ SeenRecorded /\ HeldComplete /\ NoReleaseFence
  BY DEF EdgesComplete
<1>5. /\ \A p \in rel[k] : p.scope = scope
      /\ FenceSites # {} => \A u \in Threads : \A p \in seen[u] : p.scope = scope
  BY <1>4 DEF ScopesAgree
<1> HIDE DEF k, order, scope
<1>6. /\ hist' = hist \cup {event}
      /\ hb'[t] = past
      /\ \A u \in Threads : u # t => hb'[u] = hb[u]
      /\ \A u \in Threads : hb[u] \subseteq hb'[u]
      /\ \A j \in Keys : j # k => rel'[j] = rel[j]
      /\ rel'[k] = rel[k] \cup PublishedBy(t, k, "Atomic", order, scope)
      /\ \A u \in Threads : u # t => seen'[u] = seen[u]
      /\ seen'[t] = seen[t] \cup noticed
      /\ fences' = fences
  <2>1. Performed(t, k, "Atomic", order, scope)
    BY <1>1, <1>2, PerformStep DEF SoundInv
  <2> QED BY <2>1 DEF Performed
<1>7. AtomicEdges(t, k, order, scope)
  BY <1>2 DEF Admit
<1>8. /\ know'[t] = clock
      /\ \A u \in Threads : u # t => know'[u] = know[u]
      /\ records'[k] = Replace(records[k], left)
      /\ \A j \in Keys : j # k => records'[j] = records[j]
      /\ pending'[t] = Replace(pending[t], records[k])
      /\ \A u \in Threads : u # t => pending'[u] = pending[u]
      /\ fenceRel' = fenceRel
      /\ seq \in Nat
  BY <1>1, <1>7 DEF AtomicEdges, AcquiredClock, SoundInv, TypeOK
<1>9. clock \in Clock /\ Bounded(clock, seq) /\ ReachesOthers(t, clock, past)
  BY <1>1, <1>4, AtomicKnowsPast
<1>10. event.seq = seq + 1 /\ event.thread = t
  BY DEF EventOf
<1>11. /\ \A p \in PublishedBy(t, k, "Atomic", order, scope) : Releases(order) /\ p = pub
       /\ pub.from = t /\ pub.scope = scope /\ pub.before = past
  BY <1>4, SameScopes DEF PublishedBy, HB!Published, HB!Publication, NoReleaseFence
<1>12. \A p \in noticed : \E q \in rel[k] : p.from = q.from /\ p.scope = scope /\ p.before = q.before
  <2>1. ASSUME NEW q \in rel[k] PROVE HB!Narrower(q.scope, scope) = scope
    BY <1>1, <1>5, SameScopes DEF Narrower
  <2> QED BY <2>1 DEF Noticed, HB!Publication
<1>13. \A p : p.before \in SUBSET Nat /\ UpToNow(p.before)
         => \A e \in hist' : e.seq \in p.before => e \in hist
  <2> HIDE DEF event
  <2> QED BY <1>6, <1>8, <1>10 DEF UpToNow
<1>14. ASSUME NEW p, p.from \in Threads, p.scope = scope, p.before \in SUBSET Nat, UpToNow(p.before),
              p.before \subseteq hb[p.from], Kept(p, records[k])
       PROVE  Kept(p, records[k])'
  <2>1. \E r \in records'[k] :
           /\ r.from = p.from /\ r.scope = p.scope
           /\ \A e \in hist' : e.seq \in p.before => e.seq <= r.clock[e.thread]
    BY <1>1, <1>4, <1>6, <1>7, <1>14, ReplacedRecord
  <2> QED BY <2>1 DEF Kept, Reaches
<1> HIDE DEF event, past, clock, left, pub, noticed
<1>15. KnowledgeComplete'
  <2> SUFFICES ASSUME NEW u \in Threads, NEW e \in hist', e.seq \in hb'[u], e.thread # u
               PROVE  e.seq <= know'[u][e.thread]
    BY DEF KnowledgeComplete, ReachesOthers
  <2>1. CASE u = t
    <3>1. e \in hist
      BY <1>6, <1>10, <2>1
    <3> QED BY <1>6, <1>8, <1>9, <2>1, <3>1 DEF ReachesOthers
  <2>2. CASE u # t
    <3>1. e.seq \in hb[u]
      BY <1>6, <2>2
    <3>2. e.seq # seq + 1
      BY <1>8, <3>1 DEF SoundInv, HistoryBounded, UpToNow, TypeOK
    <3>3. e \in hist
      BY <1>6, <1>10, <3>2
    <3> QED BY <1>4, <1>8, <2>2, <3>1, <3>3 DEF KnowledgeComplete, ReachesOthers
  <2> QED BY <2>1, <2>2
<1>16. RecordsComplete'
  <2> SUFFICES ASSUME NEW j \in Keys, NEW p \in rel'[j]
               PROVE  p.before \subseteq hb'[p.from] /\ Kept(p, records[j])'
    BY DEF RecordsComplete, Kept, Reaches
  <2>1. ASSUME p \in rel[j]
        PROVE  /\ p.from \in Threads /\ p.before \in SUBSET Nat /\ UpToNow(p.before)
               /\ p.before \subseteq hb[p.from] /\ p.before \subseteq hb'[p.from] /\ Kept(p, records[j])
    BY <1>4, <1>6, <2>1, PublicationFacts DEF RecordsComplete
  <2>2. CASE j # k
    <3>1. p \in rel[j] /\ records'[j] = records[j]
      BY <1>6, <1>8, <2>2
    <3>2. \A e \in hist' : e.seq \in p.before => e \in hist
      BY <1>13, <2>1, <3>1
    <3> QED BY <2>1, <3>1, <3>2 DEF Kept, Reaches
  <2>3. CASE j = k /\ p \in rel[k]
    BY <1>1, <1>5, <1>14, <2>1, <2>3
  <2>4. CASE j = k /\ p \notin rel[k]
    <3>1. Releases(order) /\ p = pub
      BY <1>6, <1>11, <2>4
    <3> DEFINE new == [from |-> t, scope |-> scope, clock |-> Snapshot(clock, t, seq + 1)]
    <3>2. new \in records'[k] /\ new.from = t /\ new.scope = scope /\ new.clock = Snapshot(clock, t, seq + 1)
      BY <1>8, <3>1 DEF Left, Replace, left
    <3> HIDE DEF new
    <3>3. ASSUME NEW e \in hist', e.seq \in past PROVE e.seq <= Snapshot(clock, t, seq + 1)[e.thread]
      <4>1. Snapshot(clock, t, seq + 1)[t] = seq + 1
        BY <1>8, <1>9, SnapshotClock
      <4>2. CASE e = event
        BY <1>8, <1>10, <4>1, <4>2
      <4>3. CASE e \in hist
        <5>1. e.thread \in Threads /\ e.seq \in Nat /\ e.seq <= seq
          BY <4>3, EventType DEF SoundInv, PastClosed
        <5>2. CASE e.thread = t
          BY <1>8, <4>1, <5>1, <5>2
        <5>3. CASE e.thread # t
          <6>1. Snapshot(clock, t, seq + 1)[e.thread] = clock[e.thread]
            BY <1>8, <1>9, <5>1, <5>3, SnapshotClock
          <6> QED BY <1>9, <3>3, <4>3, <5>3, <6>1 DEF ReachesOthers
        <5> QED BY <5>2, <5>3
      <4> QED BY <1>6, <4>2, <4>3
    <3>4. p.from = t /\ p.scope = scope /\ p.before = past
      BY <1>11, <3>1
    <3>5. Kept(p, records[k])'
      BY <3>2, <3>3, <3>4 DEF Kept, Reaches
    <3> QED BY <1>6, <2>4, <3>4, <3>5
  <2> QED BY <2>2, <2>3, <2>4
<1>17. ScopesAgree'
  <2>1. ASSUME NEW other \in AtomicSites, NEW p \in rel'[other.key] PROVE p.scope = other.scope
    <3>1. CASE other.key = k
      BY <1>3, <1>5, <1>6, <1>11, <2>1, <3>1
    <3>2. CASE other.key # k
      <4>1. p \in rel[other.key]
        BY <1>6, <2>1, <3>2, SiteType DEF AtomicSites
      <4> QED BY <1>4, <4>1 DEF ScopesAgree
    <3> QED BY <3>1, <3>2
  <2>2. ASSUME FenceSites # {}, NEW u \in Threads, NEW p \in seen'[u] PROVE p.scope = scope
    BY <1>5, <1>6, <1>12, <2>2
  <2> QED BY <1>3, <2>1, <2>2 DEF ScopesAgree
<1>18. ASSUME FenceSites # {}, NEW u \in Threads, NEW p \in seen'[u]
       PROVE  /\ p.from \in Threads /\ p.scope = scope /\ p.before \in SUBSET Nat /\ UpToNow(p.before)
              /\ p.before \subseteq hb[p.from] /\ Kept(p, records[k])
  <2>1. CASE p \in seen[u]
    <3>1. p.before \subseteq hb[p.from] /\ Kept(p, records[site.key])
      BY <1>4, <1>18, <2>1 DEF SeenRecorded
    <3>2. p.scope = scope
      BY <1>5, <1>18, <2>1
    <3>3. p.from \in Threads /\ p.before \in SUBSET Nat /\ UpToNow(p.before)
      BY <2>1, PublicationFacts
    <3> QED BY <3>1, <3>2, <3>3 DEF k
  <2>2. CASE p \in noticed
    <3>1. PICK q \in rel[k] : p.from = q.from /\ p.scope = scope /\ p.before = q.before
      BY <1>12, <2>2
    <3>2. q.before \subseteq hb[q.from] /\ Kept(q, records[k]) /\ q.scope = scope
      BY <1>1, <1>4, <1>5 DEF RecordsComplete
    <3>3. Kept(p, records[k])
      BY <3>1, <3>2 DEF Kept
    <3> QED BY <1>1, <3>1, <3>2, <3>3, PublicationFacts
  <2> QED BY <1>6, <1>18, <2>1, <2>2
<1>19. SeenRecorded'
  <2> SUFFICES ASSUME FenceSites # {}, NEW u \in Threads, NEW p \in seen'[u], NEW other \in AtomicSites
               PROVE  p.before \subseteq hb'[p.from] /\ Kept(p, records[other.key])'
    BY DEF SeenRecorded, Kept, Reaches
  <2>1. other.key = k
    BY <1>3
  <2>2. Kept(p, records[k])' /\ p.before \subseteq hb'[p.from]
    BY <1>6, <1>14, <1>18
  <2> QED BY <2>1, <2>2 DEF Kept, Reaches
<1>20. HeldComplete'
  <2> SUFFICES ASSUME FenceSites # {}, NEW u \in Threads, NEW p \in seen'[u]
               PROVE  \/ Kept(p, pending[u])'
                      \/ ReachesOthers(u, know[u], p.before)'
                      \/ \A f \in FenceSites : ~Contains(Narrower(p.scope, f.scope), p.from, u)
    BY DEF HeldComplete, Kept, Reaches, ReachesOthers
  <2>0. \A e \in hist' : e.seq \in p.before => e \in hist
    BY <1>13, <1>18
  <2>1. CASE u = t
    <3>1. Kept(p, records[k])
      BY <1>18
    <3>2. records[k] \subseteq pending'[t]
      BY <1>8 DEF Replace
    <3> QED BY <2>0, <2>1, <3>1, <3>2 DEF Kept, Reaches
  <2>2. CASE u # t
    <3>1. p \in seen[u] /\ pending'[u] = pending[u] /\ know'[u] = know[u]
      BY <1>6, <1>8, <2>2
    <3>2. \/ Kept(p, pending[u]) \/ ReachesOthers(u, know[u], p.before)
          \/ \A f \in FenceSites : ~Contains(Narrower(p.scope, f.scope), p.from, u)
      BY <1>4, <3>1 DEF HeldComplete
    <3>3. Kept(p, pending[u]) => Kept(p, pending[u])'
      BY <2>0, <3>1 DEF Kept, Reaches
    <3>4. ReachesOthers(u, know[u], p.before) => ReachesOthers(u, know[u], p.before)'
      BY <2>0, <3>1 DEF ReachesOthers
    <3> QED BY <3>2, <3>3, <3>4
  <2> QED BY <2>1, <2>2
<1>21. NoReleaseFence'
  BY <1>4, <1>6, <1>8 DEF NoReleaseFence
<1> QED BY <1>15, <1>16, <1>17, <1>19, <1>20, <1>21 DEF EdgesComplete

(* Any other access touches no edge; a store ends the publications.        *)
LEMMA PlainEdgesComplete ==
  ASSUME SoundInv, EdgesComplete, NEW t \in Threads, NEW site \in AccessSites, site.kind # "Atomic",
         Access(t, site)
  PROVE  EdgesComplete'
<1> DEFINE k == site.key
           event == EventOf(t, k, site.kind, site.order, site.scope)
<1>1. k \in Keys /\ site.kind \in Kind /\ site.order \in Order /\ site.scope \in Scope
  BY SiteType
<1>2. /\ KnowledgeComplete /\ RecordsComplete /\ ScopesAgree
      /\ SeenRecorded /\ HeldComplete /\ NoReleaseFence
  BY DEF EdgesComplete
<1>3. /\ hist' = hist \cup {event}
      /\ hb'[t] = hb[t] \cup {seq + 1}
      /\ \A u \in Threads : u # t => hb'[u] = hb[u]
      /\ \A u \in Threads : hb[u] \subseteq hb'[u]
      /\ \A j \in Keys : rel'[j] = rel[j] \/ rel'[j] = {}
      /\ \A u \in Threads : seen'[u] = seen[u]
      /\ fences' = fences
  <2>1. Performed(t, k, site.kind, site.order, site.scope)
    BY <1>1, PerformStep DEF Access, SoundInv
  <2>2. PastAfter(t, k, site.kind, site.order, site.scope) = hb[t] \cup {seq + 1}
    BY DEF PastAfter, Gained
  <2>3. site.kind = "Read" \/ site.kind = "Write"
    BY <1>1 DEF Kind
  <2> QED BY <2>1, <2>2, <2>3 DEF Performed
<1>4. UNCHANGED <<know, records, pending, fenceRel>> /\ seq \in Nat
  BY DEF Access, Admit, edgeVars, SoundInv, TypeOK
<1>5. event.seq = seq + 1 /\ event.thread = t
  BY DEF EventOf
<1> HIDE DEF event, k
<1>6. ASSUME NEW events \in SUBSET Nat, UpToNow(events), NEW e \in hist', e.seq \in events
      PROVE  e \in hist
  BY <1>3, <1>4, <1>5, <1>6 DEF UpToNow
<1>7. KnowledgeComplete'
  <2> SUFFICES ASSUME NEW u \in Threads, NEW e \in hist', e.seq \in hb'[u], e.thread # u
               PROVE  e.seq <= know[u][e.thread]
    BY <1>4 DEF KnowledgeComplete, ReachesOthers
  <2>1. CASE e \in hist
    <3>1. e.seq # seq + 1
      BY <1>4, <2>1, EventType DEF SoundInv, PastClosed
    <3>2. e.seq \in hb[u]
      BY <1>3, <3>1
    <3> QED BY <1>2, <2>1, <3>2 DEF KnowledgeComplete, ReachesOthers
  <2>2. CASE e = event
    <3>1. u # t /\ seq + 1 \in hb[u]
      BY <1>3, <1>5, <2>2
    <3> QED BY <1>4, <3>1 DEF SoundInv, HistoryBounded, UpToNow
  <2> QED BY <1>3, <2>1, <2>2
<1>8. RecordsComplete'
  <2> SUFFICES ASSUME NEW j \in Keys, NEW p \in rel'[j]
               PROVE  p.before \subseteq hb'[p.from] /\ Kept(p, records[j])'
    BY DEF RecordsComplete, Kept, Reaches
  <2>1. p \in rel[j]
    BY <1>3
  <2>2. p.from \in Threads /\ p.before \in SUBSET Nat /\ UpToNow(p.before)
    BY <2>1, PublicationFacts
  <2>3. p.before \subseteq hb[p.from] /\ Kept(p, records[j])
    BY <1>2, <2>1 DEF RecordsComplete
  <2>4. \A e \in hist' : e.seq \in p.before => e \in hist
    BY <1>6, <2>2
  <2> QED BY <1>3, <1>4, <2>2, <2>3, <2>4 DEF Kept, Reaches
<1>9. ScopesAgree'
  <2>1. ASSUME NEW other \in AtomicSites, NEW p \in rel'[other.key] PROVE p.scope = other.scope
    <3>1. p \in rel[other.key]
      BY <1>3, <2>1, SiteType DEF AtomicSites
    <3> QED BY <1>2, <3>1 DEF ScopesAgree
  <2> QED BY <1>2, <1>3, <2>1 DEF ScopesAgree
<1>10. ASSUME NEW u \in Threads, NEW p \in seen[u]
       PROVE  p.from \in Threads /\ \A e \in hist' : e.seq \in p.before => e \in hist
  <2>1. p.from \in Threads /\ p.before \in SUBSET Nat /\ UpToNow(p.before)
    BY PublicationFacts
  <2> QED BY <1>6, <2>1
<1>11. SeenRecorded'
  <2>1. ASSUME FenceSites # {}, NEW u \in Threads, NEW p \in seen[u]
        PROVE  p.before \subseteq hb'[p.from]
    <3>1. p.from \in Threads /\ p.before \subseteq hb[p.from]
      BY <1>2, <1>10, <2>1 DEF SeenRecorded
    <3> QED BY <1>3, <3>1
  <2>2. ASSUME FenceSites # {}, NEW u \in Threads, NEW p \in seen[u], NEW other \in AtomicSites
        PROVE  \E r \in records[other.key] :
                 /\ r.from = p.from /\ r.scope = p.scope
                 /\ \A e \in hist' : e.seq \in p.before => e.seq <= r.clock[e.thread]
    BY <1>2, <1>10, <2>2 DEF SeenRecorded, Kept, Reaches
  <2> QED BY <1>3, <1>4, <2>1, <2>2 DEF SeenRecorded, Kept, Reaches
<1>12. HeldComplete'
  <2> SUFFICES ASSUME FenceSites # {}, NEW u \in Threads, NEW p \in seen'[u]
               PROVE  \/ Kept(p, pending[u])'
                      \/ ReachesOthers(u, know[u], p.before)'
                      \/ \A f \in FenceSites : ~Contains(Narrower(p.scope, f.scope), p.from, u)
    BY DEF HeldComplete, Kept, Reaches, ReachesOthers
  <2>1. p \in seen[u]
    BY <1>3
  <2>2. \/ Kept(p, pending[u]) \/ ReachesOthers(u, know[u], p.before)
        \/ \A f \in FenceSites : ~Contains(Narrower(p.scope, f.scope), p.from, u)
    BY <1>2, <2>1 DEF HeldComplete
  <2>3. Kept(p, pending[u]) => Kept(p, pending[u])'
    BY <1>4, <1>10, <2>1 DEF Kept, Reaches
  <2>4. ReachesOthers(u, know[u], p.before) => ReachesOthers(u, know[u], p.before)'
    BY <1>4, <1>10, <2>1 DEF ReachesOthers
  <2> QED BY <2>2, <2>3, <2>4
<1>13. NoReleaseFence'
  BY <1>2, <1>3, <1>4 DEF NoReleaseFence
<1> QED BY <1>7, <1>8, <1>9, <1>11, <1>12, <1>13 DEF EdgesComplete

(* An acquire fence knows of all that its atomics read and it may take.    *)
LEMMA FenceEdgesComplete ==
  ASSUME EdgesAlone, SoundInv, EdgesComplete, NEW t \in Threads, NEW f \in FenceSites, Fence(t, f)
  PROVE  EdgesComplete'
<1> DEFINE past == FencedPast(t, f.order, f.scope)
           clock == AcquiredClock(t, pending[t], f.order, f.scope)
<1>1. f.order \in Order /\ f.scope \in Scope /\ ~Releases(f.order)
  BY SitesAssumption DEF EdgesAlone
<1>2. /\ KnowledgeComplete /\ RecordsComplete /\ ScopesAgree
      /\ SeenRecorded /\ HeldComplete /\ NoReleaseFence
  BY DEF EdgesComplete
<1>3. /\ hb'[t] = past
      /\ \A u \in Threads : u # t => hb'[u] = hb[u]
      /\ \A u \in Threads : hb[u] \subseteq hb'[u]
      /\ \A u \in Threads : fences'[u] = fences[u]
      /\ UNCHANGED <<hist, rel, seen>>
  BY <1>1, FenceHistoryStep DEF Fence, SoundInv
<1>4. /\ know' = [know EXCEPT ![t] = clock]
      /\ pending' = IF Acquires(f.order) THEN [pending EXCEPT ![t] = {}] ELSE pending
      /\ UNCHANGED <<records, fenceRel>>
  BY <1>1 DEF Fence, FenceBy, AcquiredClock
<1>5. /\ know \in [Threads -> Clock] /\ Bounded(know[t], seq) /\ seq \in Nat
      /\ pending \in [Threads -> SUBSET Record] /\ \A r \in pending[t] : Bounded(r.clock, seq)
  BY DEF SoundInv, TypeOK, ClocksBounded, Bounded
<1>6. clock \in Clock
  BY <1>1, <1>5, AbsorbClock DEF AcquiredClock
<1>7. ASSUME NEW u \in Threads PROVE know[t][u] <= clock[u]
  <2>1. know[t][u] \in Nat
    BY <1>5 DEF Clock
  <2>2. CASE Acquires(f.order)
    BY <1>1, <1>5, <2>2, AbsorbReaches DEF AcquiredClock
  <2>3. CASE ~Acquires(f.order)
    BY <2>1, <2>3 DEF AcquiredClock
  <2> QED BY <2>2, <2>3
<1>8. ASSUME NEW e \in hist, e.thread # t, e.seq <= know[t][e.thread] PROVE e.seq <= clock[e.thread]
  <2>1. e.thread \in Threads /\ e.seq \in Nat
    BY EventType DEF SoundInv
  <2>2. know[t][e.thread] \in Nat /\ clock[e.thread] \in Nat /\ know[t][e.thread] <= clock[e.thread]
    BY <1>5, <1>6, <1>7, <2>1 DEF Clock
  <2> HIDE DEF clock
  <2> QED BY <1>8, <2>1, <2>2
<1>9. ReachesOthers(t, clock, past)
  <2> SUFFICES ASSUME NEW e \in hist, e.seq \in past, e.thread # t PROVE e.seq <= clock[e.thread]
    BY DEF ReachesOthers
  <2>1. CASE e.seq \in hb[t]
    BY <1>2, <1>8, <2>1 DEF KnowledgeComplete, ReachesOthers
  <2>2. CASE e.seq \notin hb[t]
    <3>1. Acquires(f.order) /\ e.seq \in HB!Carried(seen[t], t, f.scope)
      BY <2>2 DEF FencedPast
    <3>2. PICK p \in seen[t] : HB!Contains(HB!Narrower(p.scope, f.scope), p.from, t) /\ e.seq \in p.before
      BY <3>1 DEF HB!Carried
    <3>3. Contains(Narrower(p.scope, f.scope), p.from, t)
      BY <3>2, SameScopes
    <3>4. CASE ReachesOthers(t, know[t], p.before)
      BY <1>8, <3>2, <3>4 DEF ReachesOthers
    <3>5. CASE Kept(p, pending[t])
      <4>1. PICK r \in pending[t] : r.from = p.from /\ r.scope = p.scope /\ Reaches(r.clock, p.before)
        BY <3>5 DEF Kept
      <4>2. r \in InScope(pending[t], t, f.scope)
        BY <3>2, <4>1, InScopeIfCarried
      <4>3. e.thread \in Threads /\ e.seq \in Nat
        BY EventType DEF SoundInv
      <4>4. e.seq <= r.clock[e.thread] /\ r.clock[e.thread] \in Nat /\ clock[e.thread] \in Nat
        BY <1>5, <1>6, <3>2, <4>1, <4>3 DEF Reaches, Record, Clock
      <4>5. r.clock[e.thread] <= clock[e.thread]
        BY <1>1, <1>5, <3>1, <4>2, <4>3, AbsorbReaches DEF AcquiredClock
      <4> HIDE DEF clock
      <4> QED BY <4>3, <4>4, <4>5
    <3> QED BY <1>2, <3>3, <3>4, <3>5 DEF HeldComplete
  <2> QED BY <2>1, <2>2
<1>10. ASSUME Acquires(f.order), NEW p \in seen[t], Contains(Narrower(p.scope, f.scope), p.from, t)
       PROVE  p.before \subseteq past
  <2>1. HB!Contains(HB!Narrower(p.scope, f.scope), p.from, t)
    BY <1>10, SameScopes
  <2> QED BY <1>10, <2>1 DEF FencedPast, HB!Carried
<1> HIDE DEF past, clock
<1>11. KnowledgeComplete'
  BY <1>2, <1>3, <1>4, <1>5, <1>9 DEF KnowledgeComplete, ReachesOthers
<1>12. RecordsComplete' /\ SeenRecorded'
  <2>1. ASSUME NEW j \in Keys, NEW p \in rel[j] PROVE p.before \subseteq hb'[p.from] /\ Kept(p, records[j])
    BY <1>2, <1>3, PublicationFacts DEF RecordsComplete
  <2>2. ASSUME FenceSites # {}, NEW u \in Threads, NEW p \in seen[u]
        PROVE  p.before \subseteq hb'[p.from]
    <3>1. p.from \in Threads /\ p.before \subseteq hb[p.from]
      BY <1>2, <2>2, PublicationFacts DEF SeenRecorded
    <3> QED BY <1>3, <3>1
  <2>3. ASSUME FenceSites # {}, NEW u \in Threads, NEW p \in seen[u], NEW other \in AtomicSites
        PROVE  \E r \in records[other.key] :
                 /\ r.from = p.from /\ r.scope = p.scope
                 /\ \A e \in hist : e.seq \in p.before => e.seq <= r.clock[e.thread]
    BY <1>2, <2>3 DEF SeenRecorded, Kept, Reaches
  <2>4. RecordsComplete'
    BY <1>3, <1>4, <2>1 DEF RecordsComplete, Kept, Reaches
  <2>5. SeenRecorded'
    BY <1>3, <1>4, <2>2, <2>3 DEF SeenRecorded, Kept, Reaches
  <2> QED BY <2>4, <2>5
<1>13. ScopesAgree' /\ NoReleaseFence'
  BY <1>2, <1>3, <1>4 DEF ScopesAgree, NoReleaseFence
<1>14. HeldComplete'
  <2> SUFFICES ASSUME NEW u \in Threads, NEW p \in seen[u]
               PROVE  \/ Kept(p, pending[u])'
                      \/ ReachesOthers(u, know[u], p.before)'
                      \/ \A g \in FenceSites : ~Contains(Narrower(p.scope, g.scope), p.from, u)
    BY <1>3 DEF HeldComplete, Kept, Reaches, ReachesOthers
  <2>1. \/ Kept(p, pending[u]) \/ ReachesOthers(u, know[u], p.before)
        \/ \A g \in FenceSites : ~Contains(Narrower(p.scope, g.scope), p.from, u)
    BY <1>2 DEF HeldComplete
  <2>2. CASE u # t
    <3>1. know'[u] = know[u] /\ pending'[u] = pending[u]
      BY <1>4, <1>5, <2>2
    <3> QED BY <1>3, <2>1, <3>1 DEF Kept, Reaches, ReachesOthers
  <2>3. CASE u = t /\ ~Acquires(f.order)
    <3>1. pending' = pending /\ know'[t] = clock
      BY <1>4, <1>5, <2>3
    <3>2. ReachesOthers(t, know[t], p.before) => ReachesOthers(t, know[t], p.before)'
      BY <1>3, <1>8, <3>1 DEF ReachesOthers
    <3> QED BY <1>3, <2>1, <2>3, <3>1, <3>2 DEF Kept, Reaches
  <2>4. CASE u = t /\ Acquires(f.order) /\ Contains(Narrower(p.scope, f.scope), p.from, t)
    <3>1. p.before \subseteq past
      BY <1>10, <2>4
    <3>2. know'[t] = clock
      BY <1>4, <1>5
    <3> QED BY <1>3, <1>9, <2>4, <3>1, <3>2 DEF ReachesOthers
  <2>5. CASE u = t /\ ~Contains(Narrower(p.scope, f.scope), p.from, t)
    <3>1. \A g \in FenceSites : g.scope = f.scope
      BY DEF EdgesAlone
    <3> QED BY <2>5, <3>1
  <2> QED BY <2>2, <2>3, <2>4, <2>5
<1> QED BY <1>11, <1>12, <1>13, <1>14 DEF EdgesComplete

(* What the clocks reach is what touch finds ordered.                      *)
LEMMA KnowledgeNotices ==
  ASSUME SoundInv, KnowledgeComplete
  PROVE  OrderNoticed
<1> SUFFICES ASSUME NEW k \in Keys, NEW s \in Stamps(k), NEW t \in Threads, s.seq \in hb[t]
             PROVE  ~Unordered(s, StampOf(t, "Read", "Device"))
  BY DEF OrderNoticed
<1>1. PICK e \in hist : e.seq = s.seq /\ e.thread = s.thread
  BY StampHappened DEF SoundInv
<1>2. s.thread = t \/ s.seq <= know[t][s.thread]
  BY <1>1 DEF KnowledgeComplete, ReachesOthers
<1>3. s.thread = t \/ Knows(StampOf(t, "Read", "Device"), s)
  BY <1>2 DEF Knows, StampOf
<1> QED BY <1>3 DEF Unordered, StampOf

EdgesOnlyInv == SoundInv /\ StampsReal /\ RefusedOnce /\ Precise /\ EdgesComplete

LEMMA EdgesStep ==
  ASSUME EdgesAlone, EdgesOnlyInv, [Next]_vars
  PROVE  EdgesOnlyInv'
<1>0. SoundInv /\ StampsReal /\ EdgesComplete /\ RefusedOnce /\ Precise /\ BarrierScopes = {}
  BY DEF EdgesOnlyInv, EdgesAlone
<1>1. SoundInv'
  BY <1>0, SoundStep
<1>2. RefusedOnce' /\ Precise'
  BY <1>0, KnowledgeNotices, PreciseStep DEF EdgesComplete
<1> DEFINE Goal == StampsReal' /\ EdgesComplete'
<1>3. ASSUME UNCHANGED <<know, records, pending, fenceRel, log, hist, hb, rel, seen, fences>> PROVE Goal
  <2>1. StampsReal'
    BY <1>0, <1>3, StampsKept
  <2>2. EdgesComplete'
    BY <1>0, <1>3 DEF EdgesComplete, KnowledgeComplete, RecordsComplete, ScopesAgree, SeenRecorded,
                      HeldComplete, NoReleaseFence, Kept, Reaches, ReachesOthers
  <2> QED BY <2>1, <2>2
<1>4. ASSUME NEW t \in Threads, NEW site \in AccessSites, Access(t, site) PROVE Goal
  <2>1. Admit(t, site.key, site.kind, site.order, site.scope)
        /\ HB!Perform(t, site.key, site.kind, site.order, site.scope)
    BY <1>4 DEF Access
  <2>2. StampsReal'
    BY <1>0, <2>1, SiteType, AccessStamps
  <2>3. CASE site.kind = "Atomic"
    <3>1. site \in AtomicSites
      BY <2>3 DEF AtomicSites
    <3> QED BY <1>0, <1>4, <2>2, <3>1, AtomicEdgesComplete
  <2>4. CASE site.kind # "Atomic"
    BY <1>0, <1>4, <2>2, <2>4, PlainEdgesComplete
  <2> QED BY <2>3, <2>4
<1>5. ASSUME NEW t \in Threads, NEW site \in AccessSites, RefuseAccess(t, site) PROVE Goal
  BY <1>3, <1>5 DEF RefuseAccess, Refuse, historyVars, edgeVars
<1>6. ASSUME NEW t \in Threads, NEW f \in FenceSites, Fence(t, f) PROVE Goal
  <2>1. f.order \in Order /\ f.scope \in Scope
    BY SitesAssumption
  <2>2. UNCHANGED <<log, hist>>
    BY <1>6 DEF Fence, FenceBy, HB!Fence
  <2>3. StampsReal'
    BY <1>0, <2>2, StampsKept
  <2> QED BY <1>0, <1>6, <2>3, FenceEdgesComplete
<1>7. ASSUME UNCHANGED vars PROVE Goal
  BY <1>3, <1>7 DEF vars, detectorVars, edgeVars, historyVars
<1>8. ASSUME NEW scope, CountBarrier(scope) PROVE FALSE
  BY <1>0, <1>8 DEF CountBarrier
<1>9. Goal
  BY <1>4, <1>5, <1>6, <1>7, <1>8 DEF Next, SubgroupRelease, BlockRelease, ClusterRelease, DeviceRelease
<1> QED BY <1>1, <1>2, <1>9 DEF EdgesOnlyInv

(* In a kernel without barriers or release fences, whose atomics on an     *)
(* element have one scope and, where it has fences, are all on one, a      *)
(* refused access is one that nothing orders after an earlier conflicting  *)
(* one, or an atomic out of another's scope: no record that Edges::atomic  *)
(* replaces and no held one that a fence drops was needed.                 *)
THEOREM EdgesArePrecise ==
  ASSUME EdgesAlone
  PROVE  Spec => []Precise
<1>1. Init => EdgesOnlyInv
  <2>1. ASSUME Init PROVE EdgesComplete
    <3>1. /\ \A k \in Keys : rel[k] = {}
          /\ \A t \in Threads : hb[t] = {} /\ seen[t] = {} /\ fences[t] = {} /\ fenceRel[t] = {}
      BY <2>1 DEF Init, DetectorInit
    <3>2. \A site \in AtomicSites : site.key \in Keys
      BY SiteType DEF AtomicSites
    <3> QED BY <3>1, <3>2 DEF EdgesComplete, KnowledgeComplete, RecordsComplete, ScopesAgree,
                              SeenRecorded, HeldComplete, NoReleaseFence, ReachesOthers
  <2> QED BY <2>1, SoundInit, PreciseInit DEF EdgesOnlyInv
<1>2. EdgesOnlyInv /\ [Next]_vars => EdgesOnlyInv'
  BY EdgesStep
<1>3. EdgesOnlyInv => Precise
  BY DEF EdgesOnlyInv
<1> QED BY <1>1, <1>2, <1>3, PTL DEF Spec

=============================================================================
