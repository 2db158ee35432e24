---------------------------- MODULE RaceSoundness ----------------------------
(***************************************************************************)
(* The race detector beside the happens-before order it stands for.        *)
(*                                                                         *)
(* Each step of RaceDetector is taken together with its effect on the      *)
(* history HappensBefore keeps (HB!Perform, HB!Fence, HB!Rendezvous).      *)
(* Nothing here guards a detector step: whether an admitted access really  *)
(* was ordered is what the properties ask.                                 *)
(***************************************************************************)
EXTENDS RaceDetector

CONSTANT MaxBarriers    \* bound: barrier releases in a launch

VARIABLES
  hist, hb, rel, seen, fences,   \* the history, as in HappensBefore
  offender,                      \* {} or the access that was refused
  barriers                       \* barrier releases so far

HB == INSTANCE HappensBefore WITH clock <- seq

historyVars == <<hist, hb, rel, seen, fences>>
vars == <<detectorVars, historyVars, offender, barriers>>

Init ==
  /\ DetectorInit
  /\ hist = {}
  /\ hb = [t \in Threads |-> {}]
  /\ rel = [k \in Keys |-> {}]
  /\ seen = [t \in Threads |-> {}]
  /\ fences = [t \in Threads |-> {}]
  /\ offender = {}
  /\ barriers = 0

-----------------------------------------------------------------------------
Access(t, site) ==
  /\ seq < MaxSeq
  /\ Admit(t, site.key, site.kind, site.order, site.scope)
  /\ HB!Perform(t, site.key, site.kind, site.order, site.scope)
  /\ UNCHANGED <<offender, barriers>>

RefuseAccess(t, site) ==
  /\ seq < MaxSeq
  /\ Refuse(t, site.key, site.kind, site.order, site.scope)
  /\ offender' = {[thread |-> t, site |-> site]}
  /\ UNCHANGED <<historyVars, barriers>>

Fence(t, f) ==
  /\ seq < MaxSeq
  /\ FenceBy(t, f.order, f.scope)
  /\ HB!Fence(t, f.order, f.scope)
  /\ UNCHANGED <<offender, barriers>>

CountBarrier(scope) ==
  /\ scope \in BarrierScopes
  /\ barriers < MaxBarriers
  /\ barriers' = barriers + 1
  /\ UNCHANGED offender

SubgroupRelease(b, subs) ==
  /\ CountBarrier("Subgroup")
  /\ SubgroupBarriers(b, subs)
  /\ HB!Rendezvous({HB!SubgroupThreads(b, s) : s \in subs})

BlockRelease(b) ==
  /\ CountBarrier("Block")
  /\ BlockBarrier(b)
  /\ HB!Rendezvous({HB!BlockThreads(b)})

ClusterRelease(cs) ==
  /\ CountBarrier("Cluster")
  /\ ClusterBarriers(cs)
  /\ HB!Rendezvous({HB!ClusterThreads(c) : c \in cs})

DeviceRelease ==
  /\ CountBarrier("Device")
  /\ DeviceBarrier
  /\ HB!Rendezvous({Threads})

(* Nothing more happens once the launch was refused or the bounds are met. *)
Next ==
  \/ \E t \in Threads, site \in AccessSites : Access(t, site) \/ RefuseAccess(t, site)
  \/ \E t \in Threads, f \in FenceSites : Fence(t, f)
  \/ \E b \in Blocks, subs \in (SUBSET Subgroups) \ {{}} : SubgroupRelease(b, subs)
  \/ \E b \in Blocks : BlockRelease(b)
  \/ \E cs \in (SUBSET Clusters) \ {{}} : ClusterRelease(cs)
  \/ DeviceRelease

Spec == Init /\ [][Next]_vars

-----------------------------------------------------------------------------
(* The detector's state and the history are well typed.                    *)
TypeOK ==
  /\ seq \in Nat
  /\ know \in [Threads -> Clock]
  /\ records \in [Keys -> SUBSET Record]
  /\ pending \in [Threads -> SUBSET Record]
  /\ fenceRel \in [Threads -> SUBSET [scope : Scope, clock : Clock]]
  /\ acquired \in BOOLEAN
  /\ devEpoch \in Nat
  /\ clusterEpoch \in [Clusters -> Nat]
  /\ blockEpoch \in [Blocks -> Nat]
  /\ subEpoch \in [Blocks -> [Subgroups -> Nat]]
  /\ log \in [Keys -> Entry]
  /\ rejected \in BOOLEAN
  /\ hist \subseteq [seq : Nat \ {0}, thread : Threads, key : Keys, kind : Kind,
                     scope : Scope, before : SUBSET Nat, after : SUBSET Nat]
  /\ hb \in [Threads -> SUBSET Nat]
  /\ rel \in [Keys -> SUBSET [from : Threads, scope : Scope, before : SUBSET Nat]]
  /\ seen \in [Threads -> SUBSET [from : Threads, scope : Scope, before : SUBSET Nat]]
  /\ fences \in [Threads -> SUBSET [from : Threads, scope : Scope, before : SUBSET Nat]]
  /\ offender \subseteq [thread : Threads, site : AccessSites]
  /\ barriers \in Nat

-----------------------------------------------------------------------------
(* The strengthening that makes soundness inductive, part by part.         *)

(* A set of events is closed when what was in the past of one of them once *)
(* it had happened is in the set too.                                      *)
Closed(events) == \A e \in hist : e.seq \in events => e.after \subseteq events

(* Events are numbered apart; a thread's past holds its own accesses and   *)
(* is closed, and so is an access's past.                                  *)
PastClosed ==
  /\ \A e \in hist : e.seq <= seq /\ e.seq \in e.after /\ e.before \subseteq e.after
  /\ \A e, f \in hist : e.seq = f.seq => e = f
  /\ \A e \in hist : e.seq \in hb[e.thread]
  /\ \A t \in Threads : Closed(hb[t])

(* So is whatever a thread may still acquire.                              *)
PublicationsClosed ==
  /\ \A k \in Keys : \A p \in rel[k] : Closed(p.before)
  /\ \A t \in Threads : \A p \in seen[t] \cup fences[t] : Closed(p.before)

(* Nobody knows an event that has not happened.                            *)
UpToNow(events) == \A n \in events : n <= seq

HistoryBounded ==
  /\ \A t \in Threads : UpToNow(hb[t])
  /\ \A k \in Keys : \A p \in rel[k] : UpToNow(p.before)
  /\ \A t \in Threads : \A p \in seen[t] \cup fences[t] : UpToNow(p.before)

ClocksBounded ==
  /\ \A t, u \in Threads : know[t][u] <= seq
  /\ \A k \in Keys : \A r \in records[k] : \A u \in Threads : r.clock[u] <= seq
  /\ \A t \in Threads : \A r \in pending[t] \cup fenceRel[t] : \A u \in Threads : r.clock[u] <= seq

(* A set of events covers a clock when it holds, of every thread, all the  *)
(* accesses up to the number the clock has for it.                         *)
Covered(clock, events) ==
  \A e \in hist : e.seq <= clock[e.thread] => e.seq \in events

(* What a thread has acquired is in its past.                              *)
KnowledgeSound == \A t \in Threads : Covered(know[t], hb[t])

(* A release fence the detector keeps is one the thread made.              *)
FencesSound ==
  \A t \in Threads : \A f \in fenceRel[t] :
    /\ \E p \in fences[t] : p.from = t /\ p.scope = f.scope /\ Covered(f.clock, p.before)
    /\ Covered(f.clock, hb[t])

(* A record is live: a release since the element was last stored publishes *)
(* as much, and the releaser's latest atomic in the log was past it.       *)
Live(k, r) ==
  /\ \E p \in rel[k] : p.from = r.from /\ p.scope = r.scope /\ Covered(r.clock, p.before)
  /\ \E a \in log[k].atomics : \E e \in hist :
       a.thread = r.from /\ e.seq = a.seq /\ Covered(r.clock, e.after)

(* Or it is stale: the element was stored since, by a thread that had all  *)
(* it could bring, and whoever may touch the element now has it from that. *)
Stale(k, r) ==
  \E w \in log[k].writer : \E e \in hist : e.seq = w.seq /\ Covered(r.clock, e.before)

RecordsSound == \A k \in Keys : \A r \in records[k] : Live(k, r) \/ Stale(k, r)

(* A record held for an acquire fence is one that fence may take, although *)
(* the detector forgets the scope of the atomic that read it; or the       *)
(* thread has what it would bring.                                         *)
PendingSound ==
  \A t \in Threads : \A r \in pending[t] :
    \/ \E p \in seen[t] :
         /\ p.from = r.from
         /\ Contains(r.scope, r.from, t) => Contains(p.scope, r.from, t)
         /\ Covered(r.clock, p.before)
    \/ Covered(r.clock, hb[t])

(* The log forgets accesses, but each is still in it or was before one in  *)
(* it that conflicts with whatever it conflicts with.                      *)
Stands(e, stamps) ==
  \E s \in stamps : \E f \in hist : f.seq = s.seq /\ (e = f \/ e.seq \in f.before)

(* The stamps that stand for an access of this kind.                       *)
Standing(entry, kind) ==
  entry.writer \cup CASE kind = "Write"  -> {}
                      [] kind = "Atomic" -> entry.atomics
                      [] kind = "Read"   -> entry.readers

LogComplete == \A e \in hist : Stands(e, Standing(log[e.key], e.kind))

Stamps(k) == log[k].writer \cup log[k].atomics \cup log[k].readers

(* A stamp is that of an event; and where a barrier count has grown since, *)
(* a barrier of that group has put the event in every member's past.       *)
EpochsSound ==
  \A k \in Keys : \A s \in Stamps(k) :
    /\ \E e \in hist : e.seq = s.seq /\ e.thread = s.thread
    /\ \A t \in Threads : BarrierOrders(s, StampOf(t, "Read", "Device")) => s.seq \in hb[t]

SoundInv ==
  /\ TypeOK
  /\ PastClosed
  /\ PublicationsClosed
  /\ HistoryBounded
  /\ ClocksBounded
  /\ KnowledgeSound
  /\ FencesSound
  /\ RecordsSound
  /\ PendingSound
  /\ LogComplete
  /\ EpochsSound

-----------------------------------------------------------------------------
(* SOUNDNESS.  Every launch the detector lets through is a run of the      *)
(* abstract specification: touch admits an access only when each           *)
(* conflicting earlier one happens before it, although the log has         *)
(* forgotten most of them, the clocks are summaries and the records        *)
(* replace one another.                                                    *)
Sound == HB!HBSpec

(* The same as an invariant: of two conflicting accesses that were let     *)
(* through, the earlier happens before the later.                          *)
RaceFree ==
  \A e, f \in hist :
    e.key = f.key /\ e.seq < f.seq /\ HB!Conflict(e.kind, f.kind) => e.seq \in f.before

(* PRECISION.  touch refuses an access only when it conflicts with one it  *)
(* is not ordered after, or is an atomic on an element that another        *)
(* thread's atomic used at a scope not containing both                     *)
(* (docs/question-u4-memory-model.md: "it admits every program that is     *)
(* correctly synchronized").                                               *)
ScopeClash(t, k, scope) ==
  \E e \in hist : /\ e.key = k
                 /\ e.kind = "Atomic"
                 /\ ~Contains(Narrower(e.scope, scope), e.thread, t)

Precise ==
  \A o \in offender :
    \/ ~HB!Ordered(o.thread, o.site.key, o.site.kind)
    \/ o.site.kind = "Atomic" /\ ScopeClash(o.thread, o.site.key, o.site.scope)

(* Where it is: when nothing acquires, so that program order and barriers  *)
(* order everything ...                                                    *)
AtomicSites == {site \in AccessSites : site.kind = "Atomic"}

NothingAcquires ==
  /\ \A site \in AtomicSites : ~Acquires(site.order)
  /\ \A f \in FenceSites : ~Acquires(f.order)

(* ... and when atomics and acquire fences alone do, the atomics on an     *)
(* element of one scope and, where there are fences, these of one scope    *)
(* and all atomics on one element.  Without any one of these conditions a  *)
(* record may be replaced, or a count be unknown, that still mattered.     *)
EdgesAlone ==
  /\ BarrierScopes = {}
  /\ \A a, b \in AtomicSites : (a.key = b.key => a.scope = b.scope) /\ (FenceSites # {} => a.key = b.key)
  /\ \A f, g \in FenceSites : f.scope = g.scope /\ ~Releases(f.order)

=============================================================================
