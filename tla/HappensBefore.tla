---------------------------- MODULE HappensBefore ----------------------------
(***************************************************************************)
(* What the race rule promises (docs/question-u4-memory-model.md, answer   *)
(* A): a run in which every two conflicting accesses are ordered by        *)
(* happens-before.  This is the abstract specification: it keeps the whole *)
(* past, with no clocks, no epochs and no pruned log.                      *)
(*                                                                         *)
(* An event is named by its place in the launch's sequence.  hb[t] is the  *)
(* set of events that happen before whatever t does next:                  *)
(*   - t's own accesses (program order);                                   *)
(*   - after a barrier, everything any member of the group had in hb;      *)
(*   - after an acquire, everything its releasers had in hb.               *)
(* It is transitive: hb is passed on whole.                                *)
(***************************************************************************)
EXTENDS Scopes

CONSTANT Keys          \* memory elements

VARIABLES
  clock,     \* the number of events so far
  hist,      \* every admitted access
  hb,        \* hb[t]: the events before t's next one
  rel,       \* rel[k]: what releases on k publish, since k was last stored
  seen,      \* seen[t]: what t's atomics read, for a later acquire fence
  fences,    \* fences[t]: what each release fence of t publishes
  rejected   \* the launch was refused with a DataRace

hbVars == <<clock, hist, hb, rel, seen, fences, rejected>>

Kind == {"Read", "Write", "Atomic"}

(* A publication: who released, at which scope, and what it passes on.     *)
Publication(from, scope, before) ==
  [from |-> from, scope |-> scope, before |-> before]

HBInit ==
  /\ clock = 0
  /\ hist = {}
  /\ hb = [t \in Threads |-> {}]
  /\ rel = [k \in Keys |-> {}]
  /\ seen = [t \in Threads |-> {}]
  /\ fences = [t \in Threads |-> {}]
  /\ rejected = FALSE

-----------------------------------------------------------------------------
(* Two accesses to one element conflict unless both read or both are       *)
(* atomic.                                                                 *)
Conflict(a, b) ==
  /\ ~(a = "Read" /\ b = "Read")
  /\ ~(a = "Atomic" /\ b = "Atomic")

(* An access of kind by t to k has every conflicting earlier access in its *)
(* past.                                                                   *)
Ordered(t, k, kind) ==
  \A p \in hist : p.key = k /\ Conflict(p.kind, kind) => p.seq \in hb[t]

(* What a publication carries to t through an operation of this scope.     *)
Carried(pubs, t, scope) ==
  UNION {p.before : p \in {q \in pubs : Contains(Narrower(q.scope, scope), q.from, t)}}

(* What an atomic by t publishes once it has happened: its own past if it  *)
(* releases, and the past of each earlier release fence of t.              *)
Published(t, order, scope, past) ==
  {Publication(t, scope, past) : o \in {o \in {order} : Releases(o)}}
    \cup {Publication(t, Narrower(f.scope, scope), f.before) : f \in fences[t]}

(* The effect of an access that is admitted.                               *)
Perform(t, k, kind, order, scope) ==
  LET e == clock + 1
      acquired == IF kind = "Atomic" /\ Acquires(order)
                    THEN Carried(rel[k], t, scope) ELSE {}
      past == hb[t] \cup {e} \cup acquired
  IN
  /\ clock' = e
  /\ hist' = hist \cup {[seq |-> e, thread |-> t, key |-> k, kind |-> kind,
                         scope |-> scope, before |-> hb[t], after |-> past]}
  /\ hb' = [hb EXCEPT ![t] = past]
  /\ rel' = [rel EXCEPT ![k] =
               CASE kind = "Read"   -> @
                 [] kind = "Write"  -> {}
                 [] kind = "Atomic" -> @ \cup Published(t, order, scope, past)]
  /\ seen' = IF kind = "Atomic"
               THEN [seen EXCEPT ![t] = @ \cup
                       {Publication(p.from, Narrower(p.scope, scope), p.before) : p \in rel[k]}]
               ELSE seen
  /\ UNCHANGED <<fences, rejected>>

(* An access happens only when it is ordered after what it conflicts with. *)
Access(t, k, kind, order, scope) ==
  /\ ~rejected
  /\ Ordered(t, k, kind)
  /\ Perform(t, k, kind, order, scope)

(* A fence.  An acquire fence takes in what the thread's atomics read.     *)
Fence(t, order, scope) ==
  LET e == clock + 1
      past == hb[t] \cup (IF Acquires(order) THEN Carried(seen[t], t, scope) ELSE {})
  IN
  /\ ~rejected
  /\ clock' = e
  /\ hb' = [hb EXCEPT ![t] = past]
  /\ fences' = IF Releases(order)
                 THEN [fences EXCEPT ![t] = @ \cup {Publication(t, scope, past)}]
                 ELSE fences
  /\ UNCHANGED <<hist, rel, seen, rejected>>

(* Barriers: each group in groups passes what any member knows to all.     *)
Rendezvous(groups) ==
  /\ ~rejected
  /\ hb' = [t \in Threads |->
              hb[t] \cup UNION {UNION {hb[u] : u \in g} : g \in {h \in groups : t \in h}}]
  /\ UNCHANGED <<clock, hist, rel, seen, fences, rejected>>

(* A launch may be refused.  That it is refused only when it should be is  *)
(* a separate question (RaceSoundness.Precise).                            *)
Reject ==
  /\ ~rejected
  /\ rejected' = TRUE
  /\ clock' \in {clock, clock + 1}
  /\ UNCHANGED <<hist, hb, rel, seen, fences>>

-----------------------------------------------------------------------------
(* The groups barriers of each scope synchronise.                          *)
BlockThreads(b) == {t \in Threads : BlockOf(t) = b}
SubgroupThreads(b, s) == {t \in Threads : BlockOf(t) = b /\ SubOf(t) = s}
ClusterThreads(c) == {t \in Threads : ClusterOf(t) = c}

HBNext ==
  \/ \E t \in Threads, k \in Keys, kind \in Kind, order \in Order, scope \in Scope :
       Access(t, k, kind, order, scope)
  \/ \E t \in Threads, order \in Order, scope \in Scope : Fence(t, order, scope)
  \/ \E b \in Blocks, subs \in SUBSET Subgroups :
       Rendezvous({SubgroupThreads(b, s) : s \in subs})
  \/ \E b \in Blocks : Rendezvous({BlockThreads(b)})
  \/ \E cs \in SUBSET Clusters : Rendezvous({ClusterThreads(c) : c \in cs})
  \/ Rendezvous({Threads})
  \/ Reject

HBSpec == HBInit /\ [][HBNext]_hbVars

=============================================================================
