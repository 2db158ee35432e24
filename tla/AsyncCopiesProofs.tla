------------------------- MODULE AsyncCopiesProofs -------------------------
(***************************************************************************)
(* Proofs about asynchronous copies: whatever a kernel issues, commits and *)
(* waits for, its accesses are a run of the race detector.                 *)
(***************************************************************************)
EXTENDS AsyncCopies, RaceSoundnessProofs, SequenceTheorems

(* A step of a kernel with copies is one of the detector, or none.         *)
LEMMA AsyncStepRefines ==
  ASSUME [AsyncNext]_copyVars
  PROVE  [Next]_vars
<1>1. ASSUME Proceed
      PROVE  Next
  <2>1. PICK t \in Threads, site \in PlainSites : Access(t, site) \/ RefuseAccess(t, site)
    BY <1>1 DEF Proceed
  <2>2. site \in AccessSites
    BY CopiesAssumption
  <2> QED BY <2>1, <2>2 DEF Next
<1>2. ASSUME NEW t \in Threads, ThreadStep(t)
      PROVE  UNCHANGED vars
  BY <1>2 DEF ThreadStep, Touch, OwnFlight, Traps, Read, Write, Issue, Commit, Wait, Finish, LeaveUnwaited
<1>3. ASSUME NEW b \in Blocks, Meet(b)
      PROVE  Next
  BY <1>3 DEF Meet, Next
<1>4. UNCHANGED copyVars => UNCHANGED vars
  BY DEF copyVars
<1> QED BY <1>1, <1>2, <1>3, <1>4 DEF AsyncNext

(* By construction a kernel with copies is a run of the detector: an issue *)
(* and a landing are accesses like any other (copy_async, async_wait).     *)
LEMMA AsyncRunsDetector == AsyncSpec => Spec
<1>1. AsyncInit => Init
  BY DEF AsyncInit
<1>2. [AsyncNext]_copyVars => [Next]_vars
  BY AsyncStepRefines
<1> QED BY <1>1, <1>2, PTL DEF AsyncSpec, Spec

(* So a kernel that copies and is let through has no race, between copies  *)
(* or between a copy and another access.                                   *)
THEOREM AsyncRaceFreedom == AsyncSpec => []RaceFree
BY AsyncRunsDetector, RaceFreedom, PTL
-----------------------------------------------------------------------------
(* What a wait lands: the queue and the commits, kept in step.             *)

Copy == [thread : Threads, dst : SUBSET Keys, since : Nat, before : SUBSET Nat, group : Nat]

(* The moments the copies of a list were issued.                           *)
Sinces(copies) == {q.since : q \in Seqs!ToSet(copies)}

(* Those of the copies t issued and committed as its n-th group; the 0-th  *)
(* are the ones it has not committed.                                      *)
Grouped(copies, t, n) == {c.since : c \in {m \in copies : m.thread = t /\ m.group = n}}

(* A list, of whatever is on it.                                           *)
Listed(s) == s \in Seq(Seqs!ToSet(s))

QueueShape ==
  /\ queue = [t \in Threads |-> [open |-> queue[t].open, groups |-> queue[t].groups]]
  /\ asked \in [Threads -> [commits : Nat, due : Nat]]
  /\ made \subseteq Copy
  /\ \A t \in Threads : Listed(queue[t].open) /\ Listed(queue[t].groups)

(* The open copies are the uncommitted ones, and the groups on the queue   *)
(* the last ones committed, from the first no wait was yet due for.        *)
QueueInStep ==
  \A t \in Threads :
    /\ asked[t].due + Len(queue[t].groups) = asked[t].commits
    /\ Sinces(queue[t].open) = Grouped(made, t, 0)
    /\ \A i \in 1 .. Len(queue[t].groups) : Sinces(queue[t].groups[i]) = Grouped(made, t, asked[t].due + i)
    /\ \A c \in made : c.thread = t => c.group <= asked[t].commits

QueueInv == QueueShape /\ QueueInStep

-----------------------------------------------------------------------------
(* What logging the issue is for: the accesses of a copy in the log.       *)

(* What was before an access stays the whole past of what it holds.        *)
PastsClosed == \A e \in hist : Closed(e.before) /\ UpToNow(e.before)

Own(t) == {e.seq : e \in {x \in hist : x.thread = t}}

(* The issue of c is a write of k, after its reads and after nothing that  *)
(* was not known at the issue.                                             *)
WrittenAt(c, k) ==
  \E w \in hist :
    /\ w.thread = c.thread /\ w.key = k /\ w.kind = "Write"
    /\ c.since \in w.after
    /\ w.before \subseteq c.before \cup Own(c.thread)

Written(c) == \A k \in c.dst : WrittenAt(c, k)

AccessesOf(t) == [thread : {t}, site : PlainSites]

(* Or c is being issued: its reads are what the agenda has first, up to    *)
(* the moment c is named by, and then the writes that are still missing.   *)
Issuing(c) ==
  /\ agenda \in Seq(AccessesOf(c.thread))
  /\ hb[c.thread] \subseteq c.before \cup Own(c.thread)
  /\ \E m \in 0 .. Len(agenda) :
       /\ IF m > 0 THEN seq + m = c.since ELSE c.since \in hb[c.thread]
       /\ \A i \in m + 1 .. Len(agenda) : agenda[i].site.kind = "Write"
       /\ \A k \in c.dst :
            WrittenAt(c, k) \/ \E i \in m + 1 .. Len(agenda) : agenda[i].site.key = k

IssuesLogged == ~rejected => \A c \in made : Written(c) \/ Issuing(c)

FlightInv == SoundInv /\ made \subseteq Copy /\ PastsClosed /\ IssuesLogged
-----------------------------------------------------------------------------
(* What a list has after something was put at its end.                     *)
LEMMA ListedAppend ==
  ASSUME NEW s, Listed(s), NEW x
  PROVE  /\ Listed(Append(s, x))
         /\ Seqs!ToSet(Append(s, x)) = Seqs!ToSet(s) \cup {x}
         /\ Len(Append(s, x)) = Len(s) + 1
         /\ \A i \in 1 .. Len(s) : Append(s, x)[i] = s[i]
         /\ Append(s, x)[Len(s) + 1] = x
<1> DEFINE S == Seqs!ToSet(s) \cup {x}
           r == Append(s, x)
<1>1. s \in Seq(S)
  <2>1. s \in Seq(Seqs!ToSet(s))
    BY DEF Listed
  <2> QED BY <2>1
<1>2. /\ r \in Seq(S) /\ Len(r) = Len(s) + 1
      /\ \A i \in 1 .. Len(s) : r[i] = s[i]
      /\ r[Len(s) + 1] = x
  BY <1>1, AppendProperties
<1>3. Len(s) \in Nat /\ DOMAIN s = 1 .. Len(s) /\ DOMAIN r = 1 .. Len(s) + 1
  BY <1>1, <1>2
<1> HIDE DEF r
<1>4. Seqs!ToSet(r) = S
  BY <1>2, <1>3 DEF Seqs!ToSet
<1> HIDE DEF S
<1>5. Listed(r)
  BY <1>2, <1>4 DEF Listed
<1> QED BY <1>2, <1>4, <1>5 DEF r, S

(* What a list has after its first n are gone.                             *)
LEMMA ListedRest ==
  ASSUME NEW s, Listed(s), NEW n \in 0 .. Len(s)
  PROVE  /\ Listed(SubSeq(s, n + 1, Len(s)))
         /\ Len(SubSeq(s, n + 1, Len(s))) = Len(s) - n
         /\ \A i \in 1 .. Len(s) - n : SubSeq(s, n + 1, Len(s))[i] = s[n + i]
<1> DEFINE r == SubSeq(s, n + 1, Len(s))
<1>1. Len(s) \in Nat /\ \A i \in 1 .. Len(s) : s[i] \in Seqs!ToSet(s)
  BY DEF Listed
<1>2. n \in Nat /\ n + 1 \in Int /\ Len(s) \in Int /\ \A i \in n + 1 .. Len(s) : s[i] \in Seqs!ToSet(s)
  BY <1>1
<1>3. /\ r \in Seq(Seqs!ToSet(s))
      /\ Len(r) = IF n + 1 <= Len(s) THEN Len(s) - (n + 1) + 1 ELSE 0
      /\ \A i \in 1 .. Len(s) - (n + 1) + 1 : r[i] = s[(n + 1) + i - 1]
  BY <1>2, SubSeqProperties
<1>4. Len(r) = Len(s) - n /\ \A i \in 1 .. Len(s) - n : r[i] = s[n + i]
  BY <1>1, <1>3
<1> HIDE DEF r
<1>5. r \in Seq(Seqs!ToSet(r))
  BY <1>3 DEF Seqs!ToSet
<1> QED BY <1>4, <1>5 DEF r, Listed

(* A commit makes t's uncommitted copies its n-th group ...                *)
Regrouped(copies, t, n) ==
  {IF c.thread = t /\ c.group = 0 THEN [c EXCEPT !.group = n] ELSE c : c \in copies}

(* ... and changes nothing else.                                           *)
LEMMA GroupedCommit ==
  ASSUME NEW copies \in SUBSET Copy, NEW t \in Threads, NEW n \in Nat, n > 0,
         \A c \in copies : c.thread = t => c.group < n, NEW after,
         after = Regrouped(copies, t, n)
  PROVE  /\ after \subseteq Copy
         /\ \A c \in after : c.thread = t => c.group <= n
         /\ \A c \in after : c.thread # t => c \in copies
         /\ Grouped(after, t, 0) = {}
         /\ Grouped(after, t, n) = Grouped(copies, t, 0)
         /\ \A i \in Nat : i # 0 /\ i # n => Grouped(after, t, i) = Grouped(copies, t, i)
         /\ \A u \in Threads : u # t => \A i \in Nat : Grouped(after, u, i) = Grouped(copies, u, i)
<1> DEFINE Now(c) == IF c.thread = t /\ c.group = 0 THEN n ELSE c.group
           Same(c, d) == d.thread = c.thread /\ d.since = c.since /\ d.group = Now(c)
<1>1. ASSUME NEW c \in copies
      PROVE  /\ [c EXCEPT !.group = n] \in Copy
             /\ [c EXCEPT !.group = n].thread = c.thread /\ [c EXCEPT !.group = n].since = c.since
             /\ [c EXCEPT !.group = n].group = n
             /\ c \in Copy /\ c.group \in Nat
  BY DEF Copy
<1>2. after \subseteq Copy /\ \A c \in after : c.thread # t => c \in copies
  BY <1>1 DEF Regrouped
<1>3. \A d \in after : \E c \in copies : Same(c, d)
  BY <1>1 DEF Regrouped
<1>4. \A c \in copies : \E d \in after : Same(c, d)
  BY <1>1 DEF Regrouped
<1>5. \A c \in copies : c.group \in Nat /\ (c.thread = t => c.group < n)
  BY <1>1
<1>12. \A c \in after : c.thread = t => c.group <= n
  BY <1>3, <1>5
<1>6. \A s, u, i : s \in Grouped(after, u, i) <=> \E d \in after : d.thread = u /\ d.group = i /\ d.since = s
  BY DEF Grouped
<1>7. ASSUME NEW s, NEW u, NEW i
      PROVE  s \in Grouped(after, u, i) <=>
               \E c \in copies : c.thread = u /\ c.since = s /\ Now(c) = i
  <2>1. ASSUME NEW d \in after, d.thread = u, d.group = i, d.since = s
        PROVE  \E c \in copies : c.thread = u /\ c.since = s /\ Now(c) = i
    <3>1. PICK c \in copies : Same(c, d)
      BY <1>3
    <3> QED BY <2>1, <3>1
  <2>2. ASSUME NEW c \in copies, c.thread = u, c.since = s, Now(c) = i
        PROVE  \E d \in after : d.thread = u /\ d.group = i /\ d.since = s
    <3>1. PICK d \in after : Same(c, d)
      BY <1>4
    <3> QED BY <2>2, <3>1
  <2> HIDE DEF Now
  <2> QED BY <1>6, <2>1, <2>2
<1>8. \A s, u, i : s \in Grouped(copies, u, i) <=> \E c \in copies : c.thread = u /\ c.since = s /\ c.group = i
  BY DEF Grouped
<1> HIDE DEF Same
<1>9. Grouped(after, t, 0) = {} /\ Grouped(after, t, n) = Grouped(copies, t, 0)
  <2>1. \A s : s \notin Grouped(after, t, 0)
    BY <1>5, <1>7
  <2>2. \A s : s \in Grouped(after, t, n) <=> s \in Grouped(copies, t, 0)
    BY <1>5, <1>7, <1>8
  <2> QED BY <2>1, <2>2
<1>10. ASSUME NEW i \in Nat, i # 0, i # n PROVE Grouped(after, t, i) = Grouped(copies, t, i)
  <2>1. \A s : s \in Grouped(after, t, i) <=> s \in Grouped(copies, t, i)
    BY <1>5, <1>7, <1>8, <1>10
  <2> QED BY <2>1
<1>11. ASSUME NEW u \in Threads, u # t, NEW i \in Nat PROVE Grouped(after, u, i) = Grouped(copies, u, i)
  <2>1. \A s : s \in Grouped(after, u, i) <=> s \in Grouped(copies, u, i)
    BY <1>7, <1>8, <1>11
  <2> QED BY <2>1
<1> QED BY <1>2, <1>9, <1>10, <1>11, <1>12

(* A commit makes the open copies the last group.                          *)
LEMMA CommitInStep ==
  ASSUME TypeOK, QueueInv, NEW t \in Threads, Commit(t)
  PROVE  QueueInv'
<1> DEFINE groups == queue[t].groups
           open == queue[t].open
           n == asked[t].commits + 1
<1>1. /\ queue' = [queue EXCEPT ![t] = [open |-> <<>>, groups |-> Append(groups, open)]]
      /\ asked' = [asked EXCEPT ![t].commits = @ + 1]
      /\ made' = {IF c.thread = t /\ c.group = 0 THEN [c EXCEPT !.group = asked'[t].commits] ELSE c : c \in made}
  BY DEF Commit, Committed, QueueInv, QueueShape
<1>2. /\ DOMAIN queue = Threads /\ asked \in [Threads -> [commits : Nat, due : Nat]]
      /\ made \subseteq Copy /\ Listed(groups)
      /\ \A u \in Threads : queue[u] = [open |-> queue[u].open, groups |-> queue[u].groups]
  BY DEF QueueInv, QueueShape
<1>3. /\ asked' \in [Threads -> [commits : Nat, due : Nat]]
      /\ asked'[t].commits = n /\ asked'[t].due = asked[t].due
      /\ \A u \in Threads : u # t => asked'[u] = asked[u]
      /\ n \in Nat /\ n > 0
  <2>1. asked[t] \in [commits : Nat, due : Nat] /\ asked[t].commits \in Nat
    BY <1>2
  <2>2. asked' = [asked EXCEPT ![t] = [asked[t] EXCEPT !.commits = n]]
    BY <1>1
  <2>3. n \in Nat /\ n > 0
    BY <2>1
  <2> HIDE DEF n
  <2>4. /\ [asked[t] EXCEPT !.commits = n] \in [commits : Nat, due : Nat]
        /\ [asked[t] EXCEPT !.commits = n].commits = n
        /\ [asked[t] EXCEPT !.commits = n].due = asked[t].due
    BY <2>1, <2>3
  <2> QED BY <1>2, <2>2, <2>3, <2>4
<1>4. /\ queue'[t].open = <<>> /\ queue'[t].groups = Append(groups, open)
      /\ \A u \in Threads : u # t => queue'[u] = queue[u]
      /\ DOMAIN queue' = Threads
  BY <1>1, <1>2
<1>5. \A c \in made : c.thread = t => c.group < n
  BY <1>2 DEF QueueInv, QueueInStep, Copy
<1>6. made' = Regrouped(made, t, n)
  BY <1>1, <1>3 DEF Regrouped
<1>7. /\ made' \subseteq Copy
      /\ \A c \in made' : c.thread = t => c.group <= n
      /\ \A c \in made' : c.thread # t => c \in made
      /\ Grouped(made', t, 0) = {}
      /\ Grouped(made', t, n) = Grouped(made, t, 0)
      /\ \A i \in Nat : i # 0 /\ i # n => Grouped(made', t, i) = Grouped(made, t, i)
      /\ \A u \in Threads : u # t => \A i \in Nat : Grouped(made', u, i) = Grouped(made, u, i)
  <2>1. made \in SUBSET Copy /\ n \in Nat /\ n > 0
    BY <1>2, <1>3
  <2> HIDE DEF n
  <2> QED BY <1>5, <1>6, <2>1, GroupedCommit
<1>8. /\ Listed(Append(groups, open))
      /\ Len(Append(groups, open)) = Len(groups) + 1
      /\ \A i \in 1 .. Len(groups) : Append(groups, open)[i] = groups[i]
      /\ Append(groups, open)[Len(groups) + 1] = open
      /\ Len(groups) \in Nat
  <2>1. Len(groups) \in Nat
    BY <1>2 DEF Listed
  <2> QED BY <1>2, <2>1, ListedAppend
<1>9. Listed(<<>>) /\ Sinces(<<>>) = {}
  BY DEF Listed, Sinces, Seqs!ToSet
<1>10. QueueShape'
  <2>1. queue' = [u \in Threads |-> [open |-> queue'[u].open, groups |-> queue'[u].groups]]
    <3>1. \A u \in Threads : queue'[u] = [open |-> queue'[u].open, groups |-> queue'[u].groups]
      BY <1>1, <1>2
    <3>2. queue' = [u \in Threads |-> queue'[u]]
      BY <1>1, <1>2
    <3> QED BY <3>1, <3>2
  <2>2. \A u \in Threads : Listed(queue'[u].open) /\ Listed(queue'[u].groups)
    BY <1>4, <1>8, <1>9 DEF QueueInv, QueueShape
  <2>3. \A u \in Threads : (Listed(queue[u].open) /\ Listed(queue[u].groups))'
    BY <2>2 DEF Listed, Seqs!ToSet
  <2> QED BY <1>3, <1>7, <2>1, <2>3 DEF QueueShape
<1>12. \A u \in Threads : asked[u].due \in Nat /\ asked[u].commits \in Nat /\ Len(queue[u].groups) \in Nat
  BY <1>2 DEF QueueInv, QueueShape, Listed
<1>13. \A u \in Threads :
         /\ asked[u].due + Len(queue[u].groups) = asked[u].commits
         /\ Sinces(queue[u].open) = Grouped(made, u, 0)
         /\ \A i \in 1 .. Len(queue[u].groups) : Sinces(queue[u].groups[i]) = Grouped(made, u, asked[u].due + i)
         /\ \A c \in made : c.thread = u => c.group <= asked[u].commits
  BY DEF QueueInv, QueueInStep
<1>14. ASSUME NEW u \in Threads, u # t
       PROVE  /\ asked'[u].due + Len(queue'[u].groups) = asked'[u].commits
              /\ Sinces(queue'[u].open) = Grouped(made', u, 0)
              /\ \A i \in 1 .. Len(queue'[u].groups) :
                    Sinces(queue'[u].groups[i]) = Grouped(made', u, asked'[u].due + i)
              /\ \A c \in made' : c.thread = u => c.group <= asked'[u].commits
  <2>1. asked'[u] = asked[u] /\ queue'[u] = queue[u] /\ \A i \in Nat : Grouped(made', u, i) = Grouped(made, u, i)
    BY <1>3, <1>4, <1>7, <1>14
  <2>2. \A i \in 1 .. Len(queue[u].groups) : asked[u].due + i \in Nat
    BY <1>12
  <2> QED BY <1>7, <1>13, <1>14, <2>1, <2>2
<1>15. /\ asked'[t].due + Len(queue'[t].groups) = asked'[t].commits
       /\ Sinces(queue'[t].open) = Grouped(made', t, 0)
       /\ \A c \in made' : c.thread = t => c.group <= asked'[t].commits
  <2>1. asked'[t].due + Len(queue'[t].groups) = asked'[t].commits
    BY <1>3, <1>4, <1>8, <1>12, <1>13
  <2>2. Sinces(queue'[t].open) = Grouped(made', t, 0)
    BY <1>4, <1>7, <1>9
  <2> QED BY <1>3, <1>7, <2>1, <2>2
<1>16. ASSUME NEW i \in 1 .. Len(queue'[t].groups)
       PROVE  Sinces(queue'[t].groups[i]) = Grouped(made', t, asked'[t].due + i)
  <2>1. Len(queue'[t].groups) = Len(groups) + 1 /\ i \in Nat /\ i > 0
    BY <1>4, <1>8
  <2>2. CASE i <= Len(groups)
    <3>1. asked[t].due + i \in Nat /\ asked[t].due + i # 0 /\ asked[t].due + i # n
      BY <1>12, <1>13, <2>1, <2>2
    <3>2. i \in 1 .. Len(groups) /\ queue'[t].groups[i] = groups[i]
      BY <1>4, <1>8, <2>1, <2>2
    <3>3. Grouped(made', t, asked[t].due + i) = Grouped(made, t, asked[t].due + i)
      BY <1>7, <3>1
    <3>4. Sinces(groups[i]) = Grouped(made, t, asked[t].due + i)
      BY <1>13, <3>2
    <3> QED BY <1>3, <3>2, <3>3, <3>4
  <2>3. CASE i = Len(groups) + 1
    <3>1. asked'[t].due + i = n
      BY <1>3, <1>12, <1>13, <2>3
    <3>2. queue'[t].groups[i] = open
      BY <1>4, <1>8, <2>3
    <3>3. Grouped(made', t, asked'[t].due + i) = Grouped(made', t, n)
      BY <3>1
    <3> QED BY <1>7, <1>13, <3>2, <3>3
  <2> QED BY <1>8, <2>1, <2>2, <2>3
<1>17. QueueInStep'
  <2>1. \A s : Sinces(s)' = Sinces(s)
    BY DEF Sinces, Seqs!ToSet
  <2> QED BY <1>14, <1>15, <1>16, <2>1 DEF QueueInStep
<1> QED BY <1>10, <1>17 DEF QueueInv

(* An issue is one open copy more.                                         *)
LEMMA IssueInStep ==
  ASSUME TypeOK, QueueInv, NEW t \in Threads, NEW c \in Copies, Issue(t, c)
  PROVE  QueueInv'
<1> DEFINE open == queue[t].open
           since == seq + Len(c.src)
           vals == [n \in 1 .. Len(c.src) |-> late[c.src[n]]]
           issued == [dst |-> c.dst, vals |-> vals, since |-> since]
           opened == Append(open, issued)
           copy == [thread |-> t, dst |-> Seqs!ToSet(c.dst), since |-> since, before |-> hb[t], group |-> 0]
<1>1. /\ queue' = [queue EXCEPT ![t].open = Append(@, issued)]
      /\ made' = made \cup {copy}
      /\ asked' = asked
  BY DEF Issue
<1>2. /\ DOMAIN queue = Threads /\ asked \in [Threads -> [commits : Nat, due : Nat]]
      /\ made \subseteq Copy /\ Listed(open)
      /\ \A u \in Threads : queue[u] = [open |-> queue[u].open, groups |-> queue[u].groups]
  BY DEF QueueInv, QueueShape
<1>3. issued.since = since /\ copy.thread = t /\ copy.group = 0 /\ copy.since = since
  OBVIOUS
<1>4. copy \in Copy
  <2>1. hb[t] \in SUBSET Nat
    BY DEF TypeOK
  <2>2. c.src \in Seq(Keys \ Shared) /\ c.dst \in Seq(Shared) /\ Shared \subseteq Keys
    BY CopiesAssumption
  <2>3. since \in Nat
    <3>1. seq \in Nat /\ Len(c.src) \in Nat
      BY <2>2 DEF TypeOK
    <3> QED BY <3>1
  <2>4. Seqs!ToSet(c.dst) \in SUBSET Keys
    <3>1. \A i \in DOMAIN c.dst : c.dst[i] \in Shared
      BY <2>2
    <3> QED BY <2>2, <3>1 DEF Seqs!ToSet
  <2> HIDE DEF since
  <2> QED BY <2>1, <2>3, <2>4 DEF Copy
<1> HIDE DEF issued, copy, since, opened
<1>5. /\ queue'[t].open = opened /\ queue'[t].groups = queue[t].groups
      /\ \A u \in Threads : u # t => queue'[u] = queue[u]
      /\ queue' = [u \in Threads |-> [open |-> queue'[u].open, groups |-> queue'[u].groups]]
  <2>1. queue' = [queue EXCEPT ![t] = [queue[t] EXCEPT !.open = opened]]
    BY <1>1 DEF opened
  <2>2. [queue[t] EXCEPT !.open = opened] = [open |-> opened, groups |-> queue[t].groups]
    BY <1>2
  <2>3. \A u \in Threads :
          queue'[u] = IF u = t THEN [open |-> opened, groups |-> queue[t].groups] ELSE queue[u]
    BY <1>2, <2>1, <2>2
  <2>4. queue' = [u \in Threads |-> queue'[u]]
    BY <1>2, <2>1
  <2> QED BY <1>2, <2>3, <2>4
<1>6. Listed(opened) /\ Seqs!ToSet(opened) = Seqs!ToSet(open) \cup {issued}
  BY <1>2, ListedAppend DEF opened
<1>7. QueueShape'
  <2>1. \A u \in Threads : Listed(queue'[u].open) /\ Listed(queue'[u].groups)
    BY <1>5, <1>6 DEF QueueInv, QueueShape
  <2>2. \A u \in Threads : (Listed(queue[u].open) /\ Listed(queue[u].groups))'
    BY <2>1 DEF Listed, Seqs!ToSet
  <2> QED BY <1>1, <1>2, <1>4, <1>5, <2>2 DEF QueueShape
<1>8. /\ Grouped(made', t, 0) = Grouped(made, t, 0) \cup {since}
      /\ \A u, i : u # t \/ i # 0 => Grouped(made', u, i) = Grouped(made, u, i)
  BY <1>1, <1>3 DEF Grouped
<1>9. Sinces(queue'[t].open) = Sinces(open) \cup {since}
  BY <1>3, <1>5, <1>6 DEF Sinces
<1>10. \A u \in Threads :
         /\ asked[u].due + Len(queue[u].groups) = asked[u].commits
         /\ Sinces(queue[u].open) = Grouped(made, u, 0)
         /\ \A i \in 1 .. Len(queue[u].groups) : Sinces(queue[u].groups[i]) = Grouped(made, u, asked[u].due + i)
         /\ \A d \in made : d.thread = u => d.group <= asked[u].commits
  BY DEF QueueInv, QueueInStep
<1>11. \A u \in Threads : asked[u].due \in Nat /\ asked[u].commits \in Nat
  BY <1>2
<1>12. ASSUME NEW u \in Threads
       PROVE  /\ asked'[u].due + Len(queue'[u].groups) = asked'[u].commits
              /\ Sinces(queue'[u].open) = Grouped(made', u, 0)
              /\ \A i \in 1 .. Len(queue'[u].groups) :
                    Sinces(queue'[u].groups[i]) = Grouped(made', u, asked'[u].due + i)
              /\ \A d \in made' : d.thread = u => d.group <= asked'[u].commits
  <2>1. queue'[u].groups = queue[u].groups /\ asked'[u] = asked[u]
    BY <1>1, <1>5
  <2>2. Sinces(queue'[u].open) = Grouped(made', u, 0)
    BY <1>5, <1>8, <1>9, <1>10
  <2>3. ASSUME NEW i \in 1 .. Len(queue[u].groups)
        PROVE  Sinces(queue[u].groups[i]) = Grouped(made', u, asked[u].due + i)
    <3>1. asked[u].due + i # 0
      BY <1>11
    <3> QED BY <1>8, <1>10, <3>1
  <2>4. \A d \in made' : d.thread = u => d.group <= asked[u].commits
    BY <1>1, <1>3, <1>10, <1>11
  <2> QED BY <1>10, <2>1, <2>2, <2>3, <2>4
<1>13. QueueInStep'
  <2>1. \A s : Sinces(s)' = Sinces(s)
    BY DEF Sinces, Seqs!ToSet
  <2> QED BY <1>12, <2>1 DEF QueueInStep
<1> QED BY <1>7, <1>13 DEF QueueInv

(* A wait drops the oldest groups, as many as come due.                    *)
LEMMA WaitInStep ==
  ASSUME TypeOK, QueueInv, NEW t \in Threads, NEW p \in Pendings, Wait(t, p)
  PROVE  QueueInv'
<1> DEFINE groups == queue[t].groups
           n == Excess(groups, p)
           left == SubSeq(groups, n + 1, Len(groups))
<1>1. /\ queue' = [queue EXCEPT ![t].groups = left]
      /\ made' = made
      /\ asked' = [asked EXCEPT ![t].due = IF asked[t].commits > @ + p THEN asked[t].commits - p ELSE @]
  BY DEF Wait
<1>2. /\ DOMAIN queue = Threads /\ asked \in [Threads -> [commits : Nat, due : Nat]]
      /\ made \subseteq Copy
      /\ \A u \in Threads : queue[u] = [open |-> queue[u].open, groups |-> queue[u].groups]
      /\ \A u \in Threads : Listed(queue[u].open) /\ Listed(queue[u].groups)
  BY DEF QueueInv, QueueShape
<1>3. \A u \in Threads :
         /\ asked[u].due + Len(queue[u].groups) = asked[u].commits
         /\ Sinces(queue[u].open) = Grouped(made, u, 0)
         /\ \A i \in 1 .. Len(queue[u].groups) : Sinces(queue[u].groups[i]) = Grouped(made, u, asked[u].due + i)
         /\ \A d \in made : d.thread = u => d.group <= asked[u].commits
  BY DEF QueueInv, QueueInStep
<1>4. \A u \in Threads : asked[u].due \in Nat /\ asked[u].commits \in Nat /\ Len(queue[u].groups) \in Nat
  BY <1>2 DEF Listed
<1>5. p \in Nat
  BY CopiesAssumption
<1>6. n \in 0 .. Len(groups)
  BY <1>4, <1>5 DEF Excess
<1>7. (IF asked[t].commits > asked[t].due + p THEN asked[t].commits - p ELSE asked[t].due) = asked[t].due + n
  <2>1. asked[t].due + Len(groups) = asked[t].commits
    BY <1>3
  <2>2. asked[t].due \in Nat /\ asked[t].commits \in Nat /\ Len(groups) \in Nat
    BY <1>4
  <2> HIDE DEF groups
  <2> QED BY <1>5, <2>1, <2>2 DEF Excess
<1>8. Listed(left) /\ Len(left) = Len(groups) - n /\ \A i \in 1 .. Len(groups) - n : left[i] = groups[n + i]
  <2> HIDE DEF n, groups
  <2>1. Listed(groups)
    BY <1>2 DEF groups
  <2> QED BY <1>6, <2>1, ListedRest
<1> HIDE DEF left, n
<1>9. /\ asked' \in [Threads -> [commits : Nat, due : Nat]]
      /\ asked'[t].commits = asked[t].commits /\ asked'[t].due = asked[t].due + n
      /\ \A u \in Threads : u # t => asked'[u] = asked[u]
  <2>1. asked[t] \in [commits : Nat, due : Nat] /\ asked[t].due + n \in Nat
    BY <1>2, <1>4, <1>6
  <2>2. asked' = [asked EXCEPT ![t] = [asked[t] EXCEPT !.due = asked[t].due + n]]
    BY <1>1, <1>7
  <2>3. /\ [asked[t] EXCEPT !.due = asked[t].due + n] \in [commits : Nat, due : Nat]
        /\ [asked[t] EXCEPT !.due = asked[t].due + n].commits = asked[t].commits
        /\ [asked[t] EXCEPT !.due = asked[t].due + n].due = asked[t].due + n
    BY <2>1
  <2> QED BY <1>2, <2>2, <2>3
<1>10. /\ queue'[t].open = queue[t].open /\ queue'[t].groups = left
       /\ \A u \in Threads : u # t => queue'[u] = queue[u]
       /\ queue' = [u \in Threads |-> [open |-> queue'[u].open, groups |-> queue'[u].groups]]
  <2>1. queue' = [queue EXCEPT ![t] = [queue[t] EXCEPT !.groups = left]]
    BY <1>1
  <2>2. [queue[t] EXCEPT !.groups = left] = [open |-> queue[t].open, groups |-> left]
    BY <1>2
  <2>3. \A u \in Threads : queue'[u] = IF u = t THEN [open |-> queue[t].open, groups |-> left] ELSE queue[u]
    BY <1>2, <2>1, <2>2
  <2>4. queue' = [u \in Threads |-> queue'[u]]
    BY <1>2, <2>1
  <2> QED BY <1>2, <2>3, <2>4
<1>11. QueueShape'
  <2>1. \A u \in Threads : Listed(queue'[u].open) /\ Listed(queue'[u].groups)
    BY <1>2, <1>8, <1>10
  <2>2. \A u \in Threads : (Listed(queue[u].open) /\ Listed(queue[u].groups))'
    BY <2>1 DEF Listed, Seqs!ToSet
  <2> QED BY <1>1, <1>2, <1>9, <1>10, <2>2 DEF QueueShape
<1>12. ASSUME NEW i \in 1 .. Len(left)
       PROVE  Sinces(left[i]) = Grouped(made, t, asked[t].due + n + i)
  <2>1. n + i \in 1 .. Len(groups) /\ left[i] = groups[n + i]
    BY <1>4, <1>6, <1>8
  <2>2. asked[t].due + (n + i) = asked[t].due + n + i
    BY <1>4, <1>6
  <2> QED BY <1>3, <2>1, <2>2
<1>13. asked'[t].due + Len(left) = asked'[t].commits
  BY <1>3, <1>4, <1>6, <1>8, <1>9
<1>14. QueueInStep'
  <2>1. \A s : Sinces(s)' = Sinces(s)
    BY DEF Sinces, Seqs!ToSet
  <2>2. ASSUME NEW u \in Threads
        PROVE  /\ asked'[u].due + Len(queue'[u].groups) = asked'[u].commits
               /\ Sinces(queue'[u].open) = Grouped(made', u, 0)
               /\ \A i \in 1 .. Len(queue'[u].groups) :
                     Sinces(queue'[u].groups[i]) = Grouped(made', u, asked'[u].due + i)
               /\ \A d \in made' : d.thread = u => d.group <= asked'[u].commits
    BY <1>1, <1>3, <1>9, <1>10, <1>12, <1>13
  <2> QED BY <2>1, <2>2 DEF QueueInStep
<1> QED BY <1>11, <1>14 DEF QueueInv

(* No other step touches the queue or the commits.                         *)
LEMMA QueueStep ==
  ASSUME TypeOK, QueueInv, [AsyncNext]_copyVars
  PROVE  QueueInv'
<1>1. ASSUME UNCHANGED <<queue, made, asked>>
      PROVE  QueueInv'
  <2>1. QueueShape'
    <3>1. \A s : Listed(s)' <=> Listed(s)
      BY DEF Listed, Seqs!ToSet
    <3>2. Copy' = Copy
      BY DEF Copy
    <3> QED BY <1>1, <3>1, <3>2 DEF QueueInv, QueueShape
  <2>2. \A s : Sinces(s)' = Sinces(s)
    BY DEF Sinces, Seqs!ToSet
  <2>3. QueueInStep'
    BY <1>1, <2>2 DEF QueueInv, QueueInStep
  <2> QED BY <2>1, <2>3 DEF QueueInv
<1>2. ASSUME NEW t \in Threads, ThreadStep(t)
      PROVE  QueueInv'
  <2>1. ASSUME NEW site \in Touches, OwnFlight(t, {site.key}) \/ Touch(t, site)
        PROVE  UNCHANGED <<queue, made, asked>>
    BY <2>1 DEF OwnFlight, Traps, Touch, Read, Write
  <2>2. ASSUME NEW c \in Copies, OwnFlight(t, Seqs!ToSet(c.dst))
        PROVE  UNCHANGED <<queue, made, asked>>
    BY <2>2 DEF OwnFlight, Traps
  <2>3. Finish(t) \/ LeaveUnwaited(t) => UNCHANGED <<queue, made, asked>>
    BY DEF Finish, LeaveUnwaited, Traps
  <2> QED BY <1>1, <1>2, <2>1, <2>2, <2>3, IssueInStep, CommitInStep, WaitInStep DEF ThreadStep
<1>3. Proceed => UNCHANGED <<queue, made, asked>>
  BY DEF Proceed
<1>4. ASSUME NEW b \in Blocks, Meet(b)
      PROVE  UNCHANGED <<queue, made, asked>>
  BY <1>4 DEF Meet, asyncVars
<1>5. UNCHANGED copyVars => UNCHANGED <<queue, made, asked>>
  BY DEF copyVars, asyncVars
<1> QED BY <1>1, <1>2, <1>3, <1>4, <1>5 DEF AsyncNext

LEMMA QueueInit ==
  ASSUME AsyncInit
  PROVE  QueueInv
<1>1. /\ queue = [t \in Threads |-> [open |-> <<>>, groups |-> <<>>]]
      /\ made = {} /\ asked = [t \in Threads |-> [commits |-> 0, due |-> 0]]
  BY DEF AsyncInit
<1>2. Listed(<<>>) /\ Sinces(<<>>) = {} /\ Len(<<>>) = 0
  BY DEF Listed, Sinces, Seqs!ToSet
<1>3. \A t \in Threads : queue[t].open = <<>> /\ queue[t].groups = <<>>
  BY <1>1
<1>4. QueueShape
  BY <1>1, <1>2, <1>3 DEF QueueShape
<1>5. QueueInStep
  <2>1. \A t, n : Grouped(made, t, n) = {}
    BY <1>1 DEF Grouped
  <2>2. \A t \in Threads : asked[t].due = 0 /\ asked[t].commits = 0
    BY <1>1
  <2> SUFFICES ASSUME NEW t \in Threads
               PROVE  /\ asked[t].due + Len(queue[t].groups) = asked[t].commits
                      /\ Sinces(queue[t].open) = Grouped(made, t, 0)
                      /\ \A i \in 1 .. Len(queue[t].groups) :
                            Sinces(queue[t].groups[i]) = Grouped(made, t, asked[t].due + i)
                      /\ \A c \in made : c.thread = t => c.group <= asked[t].commits
    BY DEF QueueInStep
  <2>3. Len(queue[t].groups) = 0 /\ queue[t].open = <<>> /\ made = {}
    BY <1>1, <1>2, <1>3
  <2>4. Sinces(queue[t].open) = Grouped(made, t, 0)
    BY <1>2, <2>1, <2>3
  <2>5. asked[t].due + Len(queue[t].groups) = asked[t].commits
    BY <2>2, <2>3
  <2>6. 1 .. Len(queue[t].groups) = {}
    BY <2>3
  <2> QED BY <2>3, <2>4, <2>5, <2>6
<1> QED BY <1>4, <1>5 DEF QueueInv

(* What has not landed, group by group, is what was not yet due for.       *)
LEMMA InStepCovers ==
  ASSUME QueueInv
  PROVE  WaitsCover
<1> SUFFICES ASSUME NEW t \in Threads
             PROVE  {q.since : q \in InFlight(t)} =
                      {c.since : c \in {m \in made : m.thread = t /\ (m.group = 0 \/ m.group > asked[t].due)}}
  BY DEF WaitsCover
<1> DEFINE groups == queue[t].groups
           due == asked[t].due
<1>1. /\ due \in Nat /\ asked[t].commits \in Nat /\ Len(groups) \in Nat /\ DOMAIN groups = 1 .. Len(groups)
      /\ due + Len(groups) = asked[t].commits
      /\ Sinces(queue[t].open) = Grouped(made, t, 0)
      /\ \A i \in 1 .. Len(groups) : Sinces(groups[i]) = Grouped(made, t, due + i)
      /\ \A c \in made : c.group \in Nat /\ (c.thread = t => c.group <= asked[t].commits)
  <2>1. groups \in Seq(Seqs!ToSet(groups)) /\ asked[t] \in [commits : Nat, due : Nat] /\ made \subseteq Copy
    BY DEF QueueInv, QueueShape, Listed
  <2>2. Len(groups) \in Nat /\ DOMAIN groups = 1 .. Len(groups)
    BY <2>1
  <2> QED BY <2>1, <2>2 DEF QueueInv, QueueInStep, Copy
<1>2. \A s : s \in {q.since : q \in InFlight(t)} <=>
               s \in Sinces(queue[t].open) \/ \E i \in 1 .. Len(groups) : s \in Sinces(groups[i])
  BY <1>1 DEF InFlight, Sinces, Seqs!ToSet
<1> HIDE DEF groups, due
<1>3. \A s, n : s \in Grouped(made, t, n) <=> \E c \in made : c.thread = t /\ c.group = n /\ c.since = s
  BY DEF Grouped
<1>4. \A c \in made : c.thread = t /\ c.group > due => \E i \in 1 .. Len(groups) : c.group = due + i
  <2> SUFFICES ASSUME NEW c \in made, c.thread = t, c.group > due
               PROVE  c.group - due \in 1 .. Len(groups) /\ c.group = due + (c.group - due)
    OBVIOUS
  <2> QED BY <1>1
<1>5. \A s : s \in {q.since : q \in InFlight(t)} <=>
               \E c \in made : c.thread = t /\ (c.group = 0 \/ c.group > due) /\ c.since = s
  <2> TAKE s
  <2>1. ASSUME NEW i \in 1 .. Len(groups), s \in Sinces(groups[i])
        PROVE  \E c \in made : c.thread = t /\ c.group > due /\ c.since = s
    <3>1. PICK c \in made : c.thread = t /\ c.group = due + i /\ c.since = s
      BY <1>1, <1>3, <2>1
    <3> QED BY <1>1, <3>1
  <2>2. ASSUME NEW c \in made, c.thread = t, c.group > due, c.since = s
        PROVE  \E i \in 1 .. Len(groups) : s \in Sinces(groups[i])
    <3>1. PICK i \in 1 .. Len(groups) : c.group = due + i
      BY <1>4, <2>2
    <3> QED BY <1>1, <1>3, <2>2, <3>1
  <2>3. s \in Sinces(queue[t].open) <=> \E c \in made : c.thread = t /\ c.group = 0 /\ c.since = s
    BY <1>1, <1>3
  <2> QED BY <1>2, <2>1, <2>2, <2>3
<1> QED BY <1>5 DEF due

(* The waits cover what they must and nothing else: a copy has not landed  *)
(* exactly when it was not committed, or no wait was yet due for its group *)
(* (AsyncQueue, async_commit and async_wait), for any number of threads,   *)
(* commits and waits.                                                      *)
THEOREM WaitsCoverCopies == AsyncSpec => []WaitsCover
<1>1. AsyncInit => QueueInv
  BY QueueInit
<1>2. TypeOK /\ QueueInv /\ [AsyncNext]_copyVars => QueueInv'
  BY QueueStep
<1>3. QueueInv => WaitsCover
  BY InStepCovers
<1> QED BY <1>1, <1>2, <1>3, AsyncRunsDetector, TypeCorrect, PTL DEF AsyncSpec

-----------------------------------------------------------------------------
(* A step of the detector keeps every access's past closed.                *)
LEMMA PastsClosedStep ==
  ASSUME SoundInv, PastsClosed, [Next]_vars
  PROVE  PastsClosed'
<1>1. TypeOK /\ HistoryInv /\ TypeOK' /\ ClocksBounded
  BY TypeStep DEF SoundInv, HistoryInv
<1>2. ASSUME UNCHANGED hist, seq' = seq \/ seq' = seq + 1
      PROVE  PastsClosed'
  <2> SUFFICES ASSUME NEW e \in hist
               PROVE  /\ \A f \in hist : f.seq \in e.before => f.after \subseteq e.before
                      /\ \A n \in e.before : n <= seq'
    BY <1>2 DEF PastsClosed, Closed, UpToNow
  <2>1. e.before \in SUBSET Nat /\ seq \in Nat
    BY <1>1, EventType DEF TypeOK
  <2> QED BY <1>2, <2>1 DEF PastsClosed, Closed, UpToNow
<1>3. ASSUME NEW t \in Threads, NEW site \in AccessSites, Access(t, site)
      PROVE  PastsClosed'
  <2> DEFINE event == EventOf(t, site.key, site.kind, site.order, site.scope)
  <2>1. seq' = seq + 1 /\ hist' = hist \cup {event}
    <3>1. HB!Perform(t, site.key, site.kind, site.order, site.scope)
      BY <1>3 DEF Access
    <3>2. Performed(t, site.key, site.kind, site.order, site.scope)
      BY <1>1, <3>1, SiteType, PerformStep
    <3> QED BY <3>2 DEF Performed
  <2>2. event.seq = seq + 1 /\ event.before = hb[t]
    BY DEF EventOf
  <2> HIDE DEF event
  <2>3. ASSUME NEW events \in SUBSET Nat, Closed(events), UpToNow(events)
        PROVE  /\ \A e \in hist' : e.seq \in events => e.after \subseteq events
               /\ \A n \in events : n <= seq'
    <3>1. \A e \in hist' : e.seq \in events => e.after \subseteq events
      BY <1>1, <2>1, <2>2, <2>3, ClosedKept
    <3>2. seq \in Nat
      BY <1>1 DEF TypeOK
    <3> QED BY <2>1, <2>3, <3>1, <3>2 DEF UpToNow
  <2>4. ASSUME NEW e \in hist'
        PROVE  e.before \in SUBSET Nat /\ Closed(e.before) /\ UpToNow(e.before)
    <3>1. CASE e \in hist
      BY <1>1, <3>1, EventType DEF PastsClosed
    <3>2. CASE e = event
      BY <1>1, <2>2, <3>2 DEF TypeOK, HistoryInv, PastClosed, HistoryBounded
    <3> QED BY <2>1, <3>1, <3>2
  <2> QED BY <2>3, <2>4 DEF PastsClosed, Closed, UpToNow
<1>4. ASSUME NEW t \in Threads, NEW site \in AccessSites, RefuseAccess(t, site)
      PROVE  UNCHANGED hist /\ seq' = seq + 1
  BY <1>4 DEF RefuseAccess, Refuse, historyVars
<1>5. ASSUME NEW t \in Threads, NEW f \in FenceSites, Fence(t, f)
      PROVE  UNCHANGED hist /\ seq' = seq + 1
  BY <1>5 DEF Fence, HB!Fence
<1>6. ASSUME NEW b \in Blocks, NEW subs \in (SUBSET Subgroups) \ {{}}, SubgroupRelease(b, subs)
      PROVE  UNCHANGED <<hist, seq>>
  BY <1>6 DEF SubgroupRelease, HB!Rendezvous
<1>7. ASSUME NEW b \in Blocks, BlockRelease(b)
      PROVE  UNCHANGED <<hist, seq>>
  BY <1>7 DEF BlockRelease, HB!Rendezvous
<1>8. ASSUME NEW cs \in (SUBSET Clusters) \ {{}}, ClusterRelease(cs)
      PROVE  UNCHANGED <<hist, seq>>
  BY <1>8 DEF ClusterRelease, HB!Rendezvous
<1>9. DeviceRelease => UNCHANGED <<hist, seq>>
  BY DEF DeviceRelease, HB!Rendezvous
<1>10. UNCHANGED vars => UNCHANGED <<hist, seq>>
  BY DEF vars, historyVars, detectorVars
<1> QED BY <1>2, <1>3, <1>4, <1>5, <1>6, <1>7, <1>8, <1>9, <1>10 DEF Next

(* What an issue has written stays written, whatever group it is put in.   *)
LEMMA WrittenStays ==
  ASSUME NEW c, NEW d, d.thread = c.thread, d.dst = c.dst, d.since = c.since, d.before = c.before,
         hist \subseteq hist', Written(c)
  PROVE  Written(d)'
BY DEF Written, WrittenAt, Own

(* Between two statements every issue has been written.                    *)
LEMMA IdleWritten ==
  ASSUME IssuesLogged, ~rejected, agenda = <<>>, NEW c \in made
  PROVE  Written(c)
<1>1. Len(agenda) = 0
  OBVIOUS
<1> QED BY <1>1 DEF IssuesLogged, Issuing, Written

(* So a step that makes no access and issues nothing keeps them so.        *)
LEMMA IdleStep ==
  ASSUME IssuesLogged, ~rejected, agenda = <<>>, hist' = hist,
         \A d \in made' : \E c \in made :
           d.thread = c.thread /\ d.dst = c.dst /\ d.since = c.since /\ d.before = c.before
  PROVE  IssuesLogged'
<1> SUFFICES ASSUME NEW d \in made' PROVE Written(d)'
  BY DEF IssuesLogged
<1>1. PICK c \in made : d.thread = c.thread /\ d.dst = c.dst /\ d.since = c.since /\ d.before = c.before
  OBVIOUS
<1>2. Written(c)
  BY IdleWritten
<1> QED BY <1>1, <1>2, WrittenStays

(* The accesses a statement makes, one per key.                            *)
LEMMA AccessesMade ==
  ASSUME NEW t \in Threads, NEW keys \in Seq(Keys), NEW kind \in {"Read", "Write"},
         NEW accesses, accesses = Accesses(t, keys, kind)
  PROVE  /\ accesses \in Seq(AccessesOf(t))
         /\ Len(accesses) = Len(keys)
         /\ \A i \in 1 .. Len(keys) : accesses[i].site.kind = kind /\ accesses[i].site.key = keys[i]
<1> DEFINE access(i) == [thread |-> t, site |-> Plain(keys[i], kind)]
<1>1. Len(keys) \in Nat /\ \A i \in 1 .. Len(keys) : keys[i] \in Keys
  OBVIOUS
<1>2. \A i \in 1 .. Len(keys) : Plain(keys[i], kind) \in PlainSites
  BY <1>1 DEF PlainSites
<1>3. \A i \in 1 .. Len(keys) : access(i) \in AccessesOf(t)
  BY <1>2 DEF AccessesOf
<1>4. \A i \in 1 .. Len(keys) : access(i).site.kind = kind /\ access(i).site.key = keys[i]
  BY DEF Plain
<1>5. accesses = [i \in 1 .. Len(keys) |-> access(i)]
  BY DEF Accesses
<1> HIDE DEF access
<1>6. \A i \in 1 .. Len(keys) : accesses[i] = access(i)
  BY <1>5
<1>7. accesses \in [1 .. Len(keys) -> AccessesOf(t)]
  BY <1>3, <1>5
<1>8. accesses \in Seq(AccessesOf(t)) /\ Len(accesses) = Len(keys)
  <2>1. ASSUME NEW S, NEW n \in Nat, NEW s \in [1 .. n -> S]
        PROVE  s \in Seq(S) /\ Len(s) = n
    OBVIOUS
  <2> QED BY <1>1, <1>7, <2>1
<1> QED BY <1>4, <1>6, <1>8

(* An issue fills the agenda with its reads and its writes.                *)
LEMMA IssueLogged ==
  ASSUME TypeOK, IssuesLogged, NEW t \in Threads, NEW c \in Copies, Issue(t, c)
  PROVE  IssuesLogged'
<1> DEFINE copy == [thread |-> t, dst |-> Seqs!ToSet(c.dst), since |-> seq + Len(c.src),
                    before |-> hb[t], group |-> 0]
<1>1. /\ ~rejected /\ agenda = <<>> /\ UNCHANGED vars
      /\ agenda' = Accesses(t, c.src, "Read") \o Accesses(t, c.dst, "Write")
      /\ made' = made \cup {copy}
  BY DEF Issue, Idle, Issued
<1>2. c.dst \in Seq(Keys) /\ c.src \in Seq(Keys) /\ Len(c.dst) = Len(c.src)
  BY CopiesAssumption
<1>3. UNCHANGED <<seq, hist, hb, rejected>>
  BY <1>1 DEF vars, detectorVars, historyVars
<1>4. ASSUME NEW d \in made PROVE Written(d)'
  BY <1>1, <1>3, <1>4, IdleWritten, WrittenStays
<1>5. ASSUME NEW d, d = copy PROVE Written(d)' \/ Issuing(d)'
  <2>1. d.thread = t /\ d.dst = Seqs!ToSet(c.dst) /\ d.since = seq + Len(c.src) /\ d.before = hb[t]
    BY <1>5
  <2>2. PICK reads, writes, n :
          /\ reads = Accesses(t, c.src, "Read") /\ writes = Accesses(t, c.dst, "Write") /\ n = Len(c.src)
    OBVIOUS
  <2>3. /\ n \in Nat /\ seq \in Nat /\ Len(c.dst) = n /\ DOMAIN c.dst = 1 .. n
        /\ reads \in Seq(AccessesOf(t)) /\ Len(reads) = n
        /\ writes \in Seq(AccessesOf(t)) /\ Len(writes) = n
        /\ \A i \in 1 .. n : writes[i].site.kind = "Write" /\ writes[i].site.key = c.dst[i]
    <3>1. n \in Nat /\ seq \in Nat /\ Len(c.dst) = n /\ DOMAIN c.dst = 1 .. n
      BY <1>2, <2>2 DEF TypeOK
    <3>2. reads \in Seq(AccessesOf(t)) /\ Len(reads) = n
      <4>1. c.src \in Seq(Keys) /\ reads = Accesses(t, c.src, "Read") /\ "Read" \in {"Read", "Write"}
        BY <1>2, <2>2
      <4>2. reads \in Seq(AccessesOf(t)) /\ Len(reads) = Len(c.src)
        BY <4>1, AccessesMade
      <4> QED BY <2>2, <4>2
    <3>3. /\ writes \in Seq(AccessesOf(t)) /\ Len(writes) = n
          /\ \A i \in 1 .. n : writes[i].site.kind = "Write" /\ writes[i].site.key = c.dst[i]
      <4>1. /\ Len(writes) = Len(c.dst)
            /\ \A i \in 1 .. Len(c.dst) : writes[i].site.kind = "Write" /\ writes[i].site.key = c.dst[i]
            /\ writes \in Seq(AccessesOf(t))
        <5>1. c.dst \in Seq(Keys) /\ writes = Accesses(t, c.dst, "Write") /\ "Write" \in {"Read", "Write"}
          BY <1>2, <2>2
        <5> QED BY <5>1, AccessesMade
      <4> QED BY <3>1, <4>1
    <3> QED BY <3>1, <3>2, <3>3
  <2>4. /\ agenda' \in Seq(AccessesOf(t)) /\ Len(agenda') = n + n
        /\ \A i \in n + 1 .. n + n : agenda'[i] = writes[i - n]
    <3>1. agenda' = reads \o writes
      BY <1>1, <2>2
    <3>2. /\ agenda' \in Seq(AccessesOf(t)) /\ Len(agenda') = Len(reads) + Len(writes)
          /\ \A i \in 1 .. Len(reads) + Len(writes) :
               agenda'[i] = IF i <= Len(reads) THEN reads[i] ELSE writes[i - Len(reads)]
      <4>1. PICK S : S = AccessesOf(t)
        OBVIOUS
      <4>2. reads \in Seq(S) /\ writes \in Seq(S)
        BY <2>3, <4>1
      <4>3. /\ (reads \o writes) \in Seq(S) /\ Len(reads \o writes) = Len(reads) + Len(writes)
            /\ \A i \in 1 .. Len(reads) + Len(writes) :
                 (reads \o writes)[i] = IF i <= Len(reads) THEN reads[i] ELSE writes[i - Len(reads)]
        BY <4>2, ConcatProperties
      <4> QED BY <3>1, <4>1, <4>3, Zenon
    <3> QED BY <2>3, <3>2
  <2>5. CASE n = 0
    <3>1. d.dst = {}
      BY <2>1, <2>3, <2>5 DEF Seqs!ToSet
    <3> QED BY <3>1 DEF Written
  <2>6. CASE n > 0
    <3>1. \A i \in n + 1 .. Len(agenda') : agenda'[i].site.kind = "Write"
      <4> TAKE i \in n + 1 .. Len(agenda')
      <4>1. i - n \in 1 .. n /\ i \in n + 1 .. n + n
        BY <2>3, <2>4
      <4> QED BY <2>3, <2>4, <4>1
    <3>2. \A k \in d.dst : \E i \in n + 1 .. Len(agenda') : agenda'[i].site.key = k
      <4> TAKE k \in d.dst
      <4>1. PICK j \in 1 .. n : c.dst[j] = k
        BY <2>1, <2>3 DEF Seqs!ToSet
      <4>2. n + j \in n + 1 .. n + n /\ n + j - n = j
        BY <2>3
      <4>3. agenda'[n + j] = writes[j]
        <5>1. PICK i : i = n + j
          OBVIOUS
        <5>2. i \in n + 1 .. n + n /\ i - n = j
          BY <2>3, <5>1
        <5>3. agenda'[i] = writes[i - n]
          BY <2>4, <5>2
        <5> QED BY <5>1, <5>2, <5>3
      <4>4. agenda'[n + j].site.key = k
        BY <2>3, <4>1, <4>3
      <4> QED BY <2>4, <4>2, <4>4
    <3>3. n \in 0 .. Len(agenda') /\ seq' + n = d.since
      BY <1>3, <2>1, <2>2, <2>3, <2>4
    <3>4. hb'[d.thread] \subseteq d.before
      BY <1>3, <2>1
    <3>5. agenda' \in Seq(AccessesOf(d.thread))
      BY <2>1, <2>4
    <3> QED BY <2>6, <3>1, <3>2, <3>3, <3>4, <3>5 DEF Issuing
  <2> QED BY <2>3, <2>5, <2>6
<1>6. \A d \in made' : Written(d)' \/ Issuing(d)'
  BY <1>1, <1>4, <1>5
<1> QED BY <1>6 DEF IssuesLogged

(* The next access of the agenda: of a copy being issued, a read or one of *)
(* the writes that were missing.                                           *)
LEMMA ProceedLogged ==
  ASSUME SoundInv, IssuesLogged, Proceed
  PROVE  IssuesLogged'
<1>1. PICK t \in Threads, site \in PlainSites :
        /\ Head(agenda) = [thread |-> t, site |-> site]
        /\ Access(t, site) \/ RefuseAccess(t, site)
  BY DEF Proceed
<1>2. agenda # <<>> /\ agenda' = Tail(agenda) /\ made' = made /\ Head(agenda).thread = t /\ Head(agenda).site = site
  BY <1>1 DEF Proceed
<1>3. CASE RefuseAccess(t, site)
  BY <1>3 DEF RefuseAccess, Refuse, IssuesLogged
<1>4. CASE Access(t, site)
  <2> SUFFICES ASSUME NEW c \in made PROVE Written(c)' \/ Issuing(c)'
    BY <1>2 DEF IssuesLogged
  <2> DEFINE event == EventOf(t, site.key, site.kind, site.order, site.scope)
             past == PastAfter(t, site.key, site.kind, site.order, site.scope)
  <2>1. site \in AccessSites /\ site.kind \in {"Read", "Write"} /\ site.kind # "Atomic"
    BY CopiesAssumption DEF PlainSites, Plain
  <2>2. /\ ~rejected /\ seq \in Nat /\ seq' = seq + 1 /\ hist' = hist \cup {event}
        /\ hb'[t] = past
        /\ \A u \in Threads : u # t => hb'[u] = hb[u]
    <3>1. HB!Perform(t, site.key, site.kind, site.order, site.scope) /\ ~rejected
      BY <1>4 DEF Access, Admit
    <3>2. Performed(t, site.key, site.kind, site.order, site.scope)
      BY <2>1, <3>1, SiteType, PerformStep DEF SoundInv
    <3> QED BY <3>1, <3>2 DEF Performed, SoundInv, TypeOK
  <2>3. past = hb[t] \cup {seq + 1}
    BY <2>1 DEF PastAfter, Gained
  <2>4. /\ event.seq = seq + 1 /\ event.thread = t /\ event.key = site.key /\ event.kind = site.kind
        /\ event.before = hb[t] /\ event.after = past
    BY DEF EventOf
  <2> HIDE DEF event, past
  <2>5. hist \subseteq hist' /\ \A u : Own(u) \subseteq Own(u)' /\ seq + 1 \in Own(t)'
    BY <2>2, <2>4 DEF Own
  <2>6. \A k : WrittenAt(c, k) => WrittenAt(c, k)'
    BY <2>5 DEF WrittenAt
  <2>7. CASE Written(c)
    BY <2>6, <2>7 DEF Written
  <2>8. CASE Issuing(c)
    <3> DEFINE n == Len(agenda)
    <3>1. agenda \in Seq(AccessesOf(c.thread))
      BY <2>8 DEF Issuing
    <3>2. PICK m \in 0 .. n :
            /\ IF m > 0 THEN seq + m = c.since ELSE c.since \in hb[c.thread]
            /\ \A i \in m + 1 .. n : agenda[i].site.kind = "Write"
            /\ \A k \in c.dst : WrittenAt(c, k) \/ \E i \in m + 1 .. n : agenda[i].site.key = k
      BY <2>8 DEF Issuing
    <3>3. /\ n \in Nat /\ n > 0 /\ Head(agenda) = agenda[1] /\ agenda[1] \in AccessesOf(c.thread)
          /\ agenda' \in Seq(AccessesOf(c.thread)) /\ Len(agenda') = n - 1
          /\ \A i \in 1 .. n - 1 : agenda'[i] = agenda[i + 1]
      BY <1>2, <3>1, HeadTailProperties
    <3> HIDE DEF n
    <3>4. c.thread = t
      BY <1>2, <3>3 DEF AccessesOf
    <3>5. hb[t] \subseteq c.before \cup Own(t)
      BY <2>8, <3>4 DEF Issuing
    <3>6. hb'[t] \subseteq c.before \cup Own(t)'
      BY <2>2, <2>3, <2>5, <3>5
    <3> DEFINE l == IF m > 0 THEN m - 1 ELSE 0
    <3>7. l \in 0 .. n - 1 /\ (m > 0 => m = l + 1) /\ (m = 0 => l = 0) /\ m \in Nat
      BY <3>2, <3>3
    <3> HIDE DEF l
    <3>8. IF l > 0 THEN seq' + l = c.since ELSE c.since \in hb'[t]
      <4>1. CASE m = 0
        BY <2>2, <2>3, <3>2, <3>4, <3>7, <4>1
      <4>2. CASE m = 1
        <5>1. c.since = seq + 1 /\ l = 0
          BY <3>2, <3>7, <4>2
        <5> QED BY <2>2, <2>3, <5>1
      <4>3. CASE m > 1
        <5>1. c.since = seq + m /\ l > 0 /\ m = l + 1 /\ l \in Nat
          BY <3>2, <3>7, <4>3
        <5> QED BY <2>2, <5>1
      <4> QED BY <3>7, <4>1, <4>2, <4>3
    <3>9. \A i \in l + 1 .. n - 1 : i + 1 \in m + 1 .. n /\ agenda'[i] = agenda[i + 1]
      <4> TAKE i \in l + 1 .. n - 1
      <4>1. i \in 1 .. n - 1 /\ i + 1 \in m + 1 .. n
        BY <3>2, <3>3, <3>7
      <4> QED BY <3>3, <4>1
    <3>10. \A i \in l + 1 .. n - 1 : agenda'[i].site.kind = "Write"
      BY <3>2, <3>9
    <3>11. ASSUME NEW k \in c.dst
           PROVE  WrittenAt(c, k)' \/ \E i \in l + 1 .. n - 1 : agenda'[i].site.key = k
      <4>1. CASE WrittenAt(c, k)
        BY <2>6, <4>1
      <4>2. ASSUME NEW i \in m + 1 .. n, agenda[i].site.key = k
            PROVE  WrittenAt(c, k)' \/ \E j \in l + 1 .. n - 1 : agenda'[j].site.key = k
        <5>1. CASE i = 1
          <6>1. m = 0 /\ site.key = k /\ site.kind = "Write"
            BY <1>2, <3>2, <3>3, <3>7, <4>2, <5>1
          <6>2. c.since \in event.after /\ event.before \subseteq c.before \cup Own(t)'
            BY <2>3, <2>4, <2>5, <3>2, <3>4, <3>5, <6>1
          <6> QED BY <2>2, <2>4, <3>4, <6>1, <6>2 DEF WrittenAt
        <5>2. CASE i # 1
          <6>1. PICK j : j = i - 1
            OBVIOUS
          <6>2. j \in l + 1 .. n - 1 /\ j + 1 = i
            BY <3>3, <3>7, <5>2, <6>1
          <6> QED BY <3>9, <4>2, <6>2
        <5> QED BY <5>1, <5>2
      <4> QED BY <3>2, <4>1, <4>2
    <3> QED BY <3>3, <3>4, <3>6, <3>7, <3>8, <3>10, <3>11 DEF Issuing
  <2> QED BY <2>2, <2>7, <2>8 DEF IssuesLogged
<1> QED BY <1>1, <1>3, <1>4

(* Every issue is in the log before another statement is begun.            *)
LEMMA IssuesStep ==
  ASSUME SoundInv, made \subseteq Copy, IssuesLogged, [AsyncNext]_copyVars
  PROVE  IssuesLogged'
<1>1. ASSUME NEW t \in Threads, ThreadStep(t), ~(\E c \in Copies : Issue(t, c))
      PROVE  IssuesLogged'
  <2>1. Idle(t) /\ UNCHANGED vars
    BY <1>1 DEF ThreadStep, Touch, OwnFlight, Traps, Read, Write, Commit, Wait, Finish, LeaveUnwaited
  <2>2. CASE Commit(t)
    <3>1. made' = {IF c.thread = t /\ c.group = 0 THEN [c EXCEPT !.group = asked'[t].commits] ELSE c : c \in made}
      BY <2>2 DEF Commit
    <3>2. \A c \in made : LET d == [c EXCEPT !.group = asked'[t].commits]
                          IN  d.thread = c.thread /\ d.dst = c.dst /\ d.since = c.since /\ d.before = c.before
      BY DEF Copy
    <3>3. \A d \in made' : \E c \in made :
            d.thread = c.thread /\ d.dst = c.dst /\ d.since = c.since /\ d.before = c.before
      BY <3>1, <3>2
    <3> QED BY <2>1, <3>3, IdleStep DEF Idle, vars, historyVars
  <2>3. CASE ~Commit(t)
    <3>1. made' = made
      BY <1>1, <2>3 DEF ThreadStep, Touch, OwnFlight, Traps, Read, Write, Wait, Finish, LeaveUnwaited
    <3> QED BY <2>1, <3>1, IdleStep DEF Idle, vars, historyVars
  <2> QED BY <2>2, <2>3
<1>2. ASSUME NEW t \in Threads, NEW c \in Copies, Issue(t, c)
      PROVE  IssuesLogged'
  BY <1>2, IssueLogged DEF SoundInv
<1>3. Proceed => IssuesLogged'
  BY ProceedLogged
<1>4. ASSUME NEW b \in Blocks, Meet(b)
      PROVE  IssuesLogged'
  <2>1. ~rejected /\ agenda = <<>> /\ hist' = hist /\ made' = made
    BY <1>4 DEF Meet, BlockRelease, HB!Rendezvous, asyncVars
  <2> QED BY <2>1, IdleStep
<1>5. ASSUME UNCHANGED copyVars
      PROVE  IssuesLogged'
  <2>1. UNCHANGED <<rejected, made, hist, agenda, hb, seq>>
    BY <1>5 DEF copyVars, vars, asyncVars, detectorVars, historyVars
  <2> QED BY <2>1 DEF IssuesLogged, Written, WrittenAt, Issuing, Own
<1> QED BY <1>1, <1>2, <1>3, <1>4, <1>5 DEF AsyncNext

(* Whoever touches the destination is ordered with the logged write, and   *)
(* so with the issue.                                                      *)
LEMMA LoggedIsOrdered ==
  ASSUME FlightInv, RaceFree
  PROVE  FlightOrdered
<1> SUFFICES ASSUME agenda = <<>>, ~rejected, NEW c \in made, NEW f \in hist,
                    f.key \in c.dst, f.thread # c.thread
             PROVE  f.seq \in c.before \/ c.since \in f.before
  BY DEF FlightOrdered
<1>1. Written(c)
  BY IdleWritten DEF FlightInv
<1>2. PICK w \in hist : /\ w.thread = c.thread /\ w.key = f.key /\ w.kind = "Write"
                        /\ c.since \in w.after
                        /\ w.before \subseteq c.before \cup Own(c.thread)
  BY <1>1 DEF Written, WrittenAt
<1>3. /\ w.seq \in Nat /\ f.seq \in Nat
      /\ \A e, g \in hist : e.seq = g.seq => e = g
  BY EventType DEF FlightInv, SoundInv, PastClosed
<1>4. HB!Conflict(w.kind, f.kind) /\ HB!Conflict(f.kind, w.kind)
  BY <1>2 DEF HB!Conflict
<1>5. w.seq # f.seq
  BY <1>2, <1>3
<1>6. CASE f.seq < w.seq
  <2>1. f.seq \in w.before
    BY <1>2, <1>4, <1>6 DEF RaceFree
  <2>2. f.seq \notin Own(c.thread)
    BY <1>3 DEF Own
  <2> QED BY <1>2, <2>1, <2>2
<1>7. CASE w.seq < f.seq
  <2>1. w.seq \in f.before
    BY <1>2, <1>4, <1>7 DEF RaceFree
  <2>2. w.after \subseteq f.before
    BY <2>1 DEF FlightInv, PastsClosed, Closed
  <2> QED BY <1>2, <2>2
<1> QED BY <1>3, <1>5, <1>6, <1>7

(* While a copy is in flight, whatever another thread has done to its      *)
(* destination is ordered with the issue, before it or after it            *)
(* (copy_async notes the issue as a write of it), however many copies are  *)
(* in flight, whatever their sizes and wherever the barriers are.          *)
THEOREM CopiesAreOrdered == AsyncSpec => []FlightOrdered
<1>1. AsyncInit => PastsClosed /\ IssuesLogged
  BY DEF AsyncInit, Init, PastsClosed, IssuesLogged
<1>2. SoundInv /\ PastsClosed /\ [Next]_vars => PastsClosed'
  BY PastsClosedStep
<1>3. SoundInv /\ QueueInv /\ IssuesLogged /\ [AsyncNext]_copyVars => IssuesLogged'
  BY IssuesStep DEF QueueInv, QueueShape
<1>4. SoundInv /\ QueueInv /\ PastsClosed /\ IssuesLogged /\ RaceFree => FlightOrdered
  BY LoggedIsOrdered DEF FlightInv, QueueInv, QueueShape
<1>5. AsyncInit => QueueInv
  BY QueueInit
<1>6. TypeOK /\ QueueInv /\ [AsyncNext]_copyVars => QueueInv'
  BY QueueStep
<1>7. [AsyncNext]_copyVars => [Next]_vars
  BY AsyncStepRefines
<1> QED BY <1>1, <1>2, <1>3, <1>4, <1>5, <1>6, <1>7,
           AsyncRunsDetector, AsyncRaceFreedom, TypeCorrect, SoundInvariant, PTL DEF AsyncSpec

-----------------------------------------------------------------------------
(* Why nobody can tell when a copy lands: what is in flight is in early    *)
(* memory already, and what no flight covers is the same in both.          *)

Early(c) == \A n \in DOMAIN c.dst : early[c.dst[n]] = c.vals[n]

Uncovered(k) == \A t \in Threads : ~Covers(t, k)

MemoriesAgree ==
  /\ ~told
  /\ \A t \in Threads : \A c \in InFlight(t) : Early(c)
  /\ \A k \in Keys : Uncovered(k) => late[k] = early[k]

UntoldInv ==
  /\ late = [k \in Keys |-> late[k]] /\ early = [k \in Keys |-> early[k]]
  /\ \A t \in Threads : \A c \in InFlight(t) : Seqs!ToSet(c.dst) \subseteq Keys
  /\ done \subseteq Threads /\ \A t \in done : IsEmpty(t)
  /\ crossed \/ MemoriesAgree

(* An issue puts one copy more in flight.                                  *)
LEMMA IssueFlies ==
  ASSUME QueueInv, NEW t \in Threads, NEW issued,
         queue' = [queue EXCEPT ![t].open = Append(@, issued)]
  PROVE  /\ InFlight(t)' = InFlight(t) \cup {issued}
         /\ \A u \in Threads : u # t => queue'[u] = queue[u] /\ InFlight(u)' = InFlight(u)
<1> DEFINE opened == Append(queue[t].open, issued)
<1>1. /\ DOMAIN queue = Threads /\ Listed(queue[t].open)
      /\ queue[t] = [open |-> queue[t].open, groups |-> queue[t].groups]
  BY DEF QueueInv, QueueShape
<1>2. queue' = [queue EXCEPT ![t] = [queue[t] EXCEPT !.open = opened]]
  OBVIOUS
<1>3. Seqs!ToSet(opened) = Seqs!ToSet(queue[t].open) \cup {issued}
  BY <1>1, ListedAppend
<1> HIDE DEF opened
<1>4. [queue[t] EXCEPT !.open = opened].open = opened /\ [queue[t] EXCEPT !.open = opened].groups = queue[t].groups
  BY <1>1
<1>5. queue'[t].open = opened /\ queue'[t].groups = queue[t].groups /\ \A u \in Threads : u # t => queue'[u] = queue[u]
  BY <1>1, <1>2, <1>4
<1>6. InFlight(t)' = Seqs!ToSet(opened) \cup UNION {Seqs!ToSet(g) : g \in Seqs!ToSet(queue[t].groups)}
  BY <1>5 DEF InFlight, Seqs!ToSet
<1>7. \A u \in Threads : u # t => InFlight(u)' = InFlight(u)
  BY <1>5 DEF InFlight, Seqs!ToSet
<1> QED BY <1>3, <1>5, <1>6, <1>7 DEF InFlight

(* A commit leaves what is in flight in flight.                            *)
LEMMA CommitFlies ==
  ASSUME QueueInv, NEW t \in Threads, Commit(t)
  PROVE  \A u \in Threads : InFlight(u)' = InFlight(u) /\ (u # t => queue'[u] = queue[u])
<1> DEFINE grouped == Append(queue[t].groups, queue[t].open)
<1>1. DOMAIN queue = Threads /\ Listed(queue[t].groups)
  BY DEF QueueInv, QueueShape
<1>2. queue' = [queue EXCEPT ![t] = [open |-> <<>>, groups |-> grouped]]
  BY DEF Commit, Committed
<1>3. Seqs!ToSet(grouped) = Seqs!ToSet(queue[t].groups) \cup {queue[t].open}
  BY <1>1, ListedAppend
<1> HIDE DEF grouped
<1>4. queue'[t].open = <<>> /\ queue'[t].groups = grouped /\ \A u \in Threads : u # t => queue'[u] = queue[u]
  BY <1>1, <1>2
<1>5. Seqs!ToSet(<<>>) = {}
  BY DEF Seqs!ToSet
<1>6. InFlight(t)' = Seqs!ToSet(<<>>) \cup UNION {Seqs!ToSet(g) : g \in Seqs!ToSet(grouped)}
  BY <1>4 DEF InFlight, Seqs!ToSet
<1>7. InFlight(t)' = InFlight(t)
  BY <1>3, <1>5, <1>6 DEF InFlight
<1>8. \A u \in Threads : u # t => InFlight(u)' = InFlight(u)
  BY <1>4 DEF InFlight, Seqs!ToSet
<1> QED BY <1>4, <1>7, <1>8

(* A wait takes out of flight what it lands and nothing else.              *)
LEMMA WaitFlies ==
  ASSUME QueueInv, NEW t \in Threads, NEW p \in Pendings, Wait(t, p)
  PROVE  /\ InFlight(t) =
              InFlight(t)' \cup UNION {Seqs!ToSet(queue[t].groups[i]) : i \in 1 .. Excess(queue[t].groups, p)}
         /\ \A u \in Threads : u # t => queue'[u] = queue[u] /\ InFlight(u)' = InFlight(u)
<1> DEFINE groups == queue[t].groups
           n == Excess(groups, p)
           left == SubSeq(groups, n + 1, Len(groups))
<1>1. /\ DOMAIN queue = Threads /\ Listed(groups)
      /\ queue[t] = [open |-> queue[t].open, groups |-> queue[t].groups]
  BY DEF QueueInv, QueueShape
<1>2. queue' = [queue EXCEPT ![t] = [queue[t] EXCEPT !.groups = left]]
  BY DEF Wait
<1>3. p \in Nat /\ Len(groups) \in Nat /\ DOMAIN groups = 1 .. Len(groups)
  BY <1>1, CopiesAssumption DEF Listed
<1>4. n \in 0 .. Len(groups) /\ n \in Nat
  BY <1>3 DEF Excess
<1> HIDE DEF n
<1>5. Listed(left) /\ Len(left) = Len(groups) - n /\ \A i \in 1 .. Len(groups) - n : left[i] = groups[n + i]
  <2> HIDE DEF groups
  <2> QED BY <1>1, <1>4, ListedRest
<1> HIDE DEF left
<1>6. DOMAIN left = 1 .. Len(groups) - n
  BY <1>5 DEF Listed
<1>7. [queue[t] EXCEPT !.groups = left].open = queue[t].open /\ [queue[t] EXCEPT !.groups = left].groups = left
  BY <1>1
<1>8. queue'[t].open = queue[t].open /\ queue'[t].groups = left /\ \A u \in Threads : u # t => queue'[u] = queue[u]
  BY <1>1, <1>2, <1>7
<1>9. InFlight(t)' = Seqs!ToSet(queue[t].open) \cup UNION {Seqs!ToSet(g) : g \in Seqs!ToSet(left)}
  BY <1>8 DEF InFlight, Seqs!ToSet
<1>10. \A u \in Threads : u # t => InFlight(u)' = InFlight(u)
  BY <1>8 DEF InFlight, Seqs!ToSet
<1>11. Seqs!ToSet(groups) = Seqs!ToSet(left) \cup {groups[i] : i \in 1 .. n}
  <2>1. ASSUME NEW i \in 1 .. Len(groups)
        PROVE  groups[i] \in Seqs!ToSet(left) \cup {groups[j] : j \in 1 .. n}
    <3>1. CASE i <= n
      BY <1>4, <3>1
    <3>2. CASE i > n
      <4>1. PICK j : j = i - n
        OBVIOUS
      <4>2. j \in 1 .. Len(groups) - n /\ n + j = i
        BY <1>3, <1>4, <3>2, <4>1
      <4>3. left[j] = groups[i]
        BY <1>5, <4>2
      <4> QED BY <1>6, <4>2, <4>3 DEF Seqs!ToSet
    <3> QED BY <1>4, <3>1, <3>2
  <2>2. ASSUME NEW j \in 1 .. Len(groups) - n
        PROVE  left[j] \in Seqs!ToSet(groups)
    <3>1. n + j \in 1 .. Len(groups)
      BY <1>3, <1>4
    <3> QED BY <1>3, <1>5, <3>1 DEF Seqs!ToSet
  <2>3. \A j \in 1 .. n : groups[j] \in Seqs!ToSet(groups)
    BY <1>3, <1>4 DEF Seqs!ToSet
  <2>4. Seqs!ToSet(groups) = {groups[i] : i \in 1 .. Len(groups)} /\ Seqs!ToSet(left) = {left[i] : i \in 1 .. Len(groups) - n}
    BY <1>3, <1>6 DEF Seqs!ToSet
  <2> HIDE DEF groups
  <2> QED BY <2>1, <2>2, <2>3, <2>4
<1> DEFINE landed == UNION {Seqs!ToSet(groups[i]) : i \in 1 .. n}
<1>12. InFlight(t) = InFlight(t)' \cup landed
  <2>1. \A c : c \in InFlight(t) <=> c \in Seqs!ToSet(queue[t].open) \/ \E g \in Seqs!ToSet(groups) : c \in Seqs!ToSet(g)
    BY DEF InFlight
  <2>2. \A c : c \in landed <=> \E i \in 1 .. n : c \in Seqs!ToSet(groups[i])
    OBVIOUS
  <2>3. \A c : c \in InFlight(t)' <=> c \in Seqs!ToSet(queue[t].open) \/ \E g \in Seqs!ToSet(left) : c \in Seqs!ToSet(g)
    BY <1>9
  <2> HIDE DEF landed, groups
  <2>4. \A c : c \in InFlight(t) <=> c \in InFlight(t)' \/ c \in landed
    BY <1>11, <2>1, <2>2, <2>3
  <2> QED BY <2>4
<1> QED BY <1>8, <1>10, <1>12 DEF n

(* A load of what nobody else's copy is in flight to reads what it would   *)
(* have read from early memory.                                            *)
LEMMA ReadUntold ==
  ASSUME UntoldInv, NEW t \in Threads, NEW k \in Keys, Read(t, k)
  PROVE  UntoldInv'
<1>1. /\ UNCHANGED <<queue, late, early, done>> /\ ~Covers(t, k)
      /\ told' = (told \/ late[k] # early[k])
      /\ crossed' = (crossed \/ CrossedBy(t, {k}))
  BY DEF Read
<1>2. (\A u \in Threads : InFlight(u)' = InFlight(u)) /\ \A u : IsEmpty(u)' <=> IsEmpty(u)
  BY <1>1 DEF InFlight, IsEmpty, Seqs!ToSet
<1>3. \A u \in Threads, j \in Keys : Covers(u, j)' <=> Covers(u, j)
  BY <1>2 DEF Covers, Seqs!ToSet
<1>4. ASSUME ~crossed' PROVE MemoriesAgree'
  <2>1. MemoriesAgree /\ ~CrossedBy(t, {k})
    BY <1>1, <1>4 DEF UntoldInv
  <2>2. Uncovered(k)
    BY <1>1, <2>1 DEF CrossedBy, Uncovered
  <2>3. ~told'
    BY <1>1, <2>1, <2>2 DEF MemoriesAgree
  <2> QED BY <1>1, <1>2, <1>3, <2>1, <2>3 DEF MemoriesAgree, Early, Uncovered
<1> QED BY <1>1, <1>2, <1>4 DEF UntoldInv, Seqs!ToSet

(* A store writes both memories, and no copy in flight is to what it       *)
(* stores to.                                                              *)
LEMMA WriteUntold ==
  ASSUME UntoldInv, NEW t \in Threads, NEW k \in Keys, Write(t, k)
  PROVE  UntoldInv'
<1>1. /\ UNCHANGED <<queue, done, told>> /\ ~Covers(t, k)
      /\ late' = [late EXCEPT ![k] = seq + 1]
      /\ early' = [early EXCEPT ![k] = seq + 1]
      /\ crossed' = (crossed \/ CrossedBy(t, {k}))
  BY DEF Write
<1>2. (\A u \in Threads : InFlight(u)' = InFlight(u)) /\ \A u : IsEmpty(u)' <=> IsEmpty(u)
  BY <1>1 DEF InFlight, IsEmpty, Seqs!ToSet
<1>3. \A u \in Threads, j \in Keys : Covers(u, j)' <=> Covers(u, j)
  BY <1>2 DEF Covers, Seqs!ToSet
<1>4. /\ late' = [j \in Keys |-> late'[j]] /\ early' = [j \in Keys |-> early'[j]]
      /\ \A j \in Keys : j # k => late'[j] = late[j] /\ early'[j] = early[j]
      /\ late'[k] = early'[k]
  BY <1>1 DEF UntoldInv
<1>5. ASSUME ~crossed' PROVE MemoriesAgree'
  <2>1. MemoriesAgree /\ ~CrossedBy(t, {k})
    BY <1>1, <1>5 DEF UntoldInv
  <2>2. Uncovered(k)
    BY <1>1, <2>1 DEF CrossedBy, Uncovered
  <2>3. ASSUME NEW u \in Threads, NEW c \in InFlight(u) PROVE Early(c)'
    <3> SUFFICES ASSUME NEW n \in DOMAIN c.dst PROVE early'[c.dst[n]] = c.vals[n]
      BY DEF Early
    <3>1. c.dst[n] \in Seqs!ToSet(c.dst) /\ Seqs!ToSet(c.dst) \subseteq Keys
      BY DEF UntoldInv, Seqs!ToSet
    <3>2. c.dst[n] # k
      BY <2>2, <3>1 DEF Uncovered, Covers
    <3> QED BY <1>4, <2>1, <3>1, <3>2 DEF MemoriesAgree, Early
  <2>4. ASSUME NEW j \in Keys, Uncovered(j)' PROVE late'[j] = early'[j]
    <3>1. Uncovered(j)
      BY <1>3, <2>4 DEF Uncovered
    <3> QED BY <1>4, <2>1, <3>1 DEF MemoriesAgree
  <2>5. ~told'
    BY <1>1, <2>1 DEF MemoriesAgree
  <2>6. \A u \in Threads : \A c \in InFlight(u)' : Early(c)'
    BY <1>2, <2>3
  <2> QED BY <2>4, <2>5, <2>6 DEF MemoriesAgree
<1> QED BY <1>1, <1>2, <1>4, <1>5 DEF UntoldInv, Seqs!ToSet

(* Landing changes nothing but the destinations.                           *)
LEMMA LandedElsewhere ==
  ASSUME NEW memory, NEW copies, NEW after, after = Landed(memory, copies)
  PROVE  /\ after = [k \in Keys |-> after[k]]
         /\ \A k \in Keys : k \notin Destinations(copies) => after[k] = memory[k]
<1> DEFINE new(k) == IF k \in Destinations(copies)
                       THEN LET c == CHOOSE d \in copies : k \in Seqs!ToSet(d.dst)
                            IN  c.vals[CHOOSE n \in DOMAIN c.dst : c.dst[n] = k]
                       ELSE memory[k]
<1>1. after = [k \in Keys |-> new(k)]
  BY Zenon DEF Landed
<1>2. \A k : k \notin Destinations(copies) => new(k) = memory[k]
  OBVIOUS
<1> HIDE DEF new
<1> QED BY <1>1, <1>2

(* An issue lands in early memory at once, where nothing is in flight to.  *)
LEMMA IssueUntold ==
  ASSUME QueueInv, UntoldInv, NEW t \in Threads, NEW c \in Copies, Issue(t, c)
  PROVE  UntoldInv'
<1> DEFINE keys == Seqs!ToSet(c.dst)
           vals == [n \in 1 .. Len(c.src) |-> late[c.src[n]]]
<1>0. PICK copy : copy = [dst |-> c.dst, vals |-> vals, since |-> seq + Len(c.src)]
  OBVIOUS
<1>1. /\ UNCHANGED <<late, done, told>> /\ t \notin done
      /\ \A k \in keys : ~Covers(t, k)
      /\ queue' = [queue EXCEPT ![t].open = Append(@, copy)]
      /\ early' = Landed(early, {copy})
      /\ crossed' = (crossed \/ CrossedBy(t, keys))
  BY <1>0 DEF Issue, Idle
<1>2. keys \subseteq Keys /\ \A m, n \in DOMAIN c.dst : c.dst[m] = c.dst[n] => m = n
  <2>1. c.dst \in Seq(Shared) /\ Shared \subseteq Keys
    BY CopiesAssumption
  <2>2. \A n \in DOMAIN c.dst : c.dst[n] \in Keys
    BY <2>1
  <2> QED BY <2>2, CopiesAssumption DEF Seqs!ToSet
<1>3. copy.dst = c.dst /\ copy.vals = vals
  BY <1>0
<1> HIDE DEF vals
<1>4. /\ InFlight(t)' = InFlight(t) \cup {copy}
      /\ \A u \in Threads : u # t => queue'[u] = queue[u] /\ InFlight(u)' = InFlight(u)
  BY <1>1, IssueFlies
<1>5. /\ early' = [k \in Keys |-> early'[k]]
      /\ \A k \in Keys \ keys : early'[k] = early[k]
      /\ \A n \in DOMAIN c.dst : early'[c.dst[n]] = vals[n]
  <2>1. Destinations({copy}) = keys
    BY <1>3 DEF Destinations
  <2>2. ASSUME NEW n \in DOMAIN c.dst
        PROVE  early'[c.dst[n]] = vals[n]
    <3>1. c.dst[n] \in keys /\ c.dst[n] \in Keys
      BY <1>2 DEF Seqs!ToSet
    <3>2. (CHOOSE d \in {copy} : c.dst[n] \in Seqs!ToSet(d.dst)) = copy
      BY <1>3, <3>1
    <3>3. (CHOOSE m \in DOMAIN c.dst : c.dst[m] = c.dst[n]) = n
      BY <1>2
    <3> HIDE DEF keys
    <3>4. early'[c.dst[n]] =
            LET d == CHOOSE d \in {copy} : c.dst[n] \in Seqs!ToSet(d.dst)
            IN  d.vals[CHOOSE m \in DOMAIN d.dst : d.dst[m] = c.dst[n]]
      BY <1>1, <2>1, <3>1 DEF Landed
    <3> QED BY <1>3, <3>2, <3>3, <3>4
  <2> HIDE DEF keys
  <2>3. early' = [k \in Keys |-> early'[k]] /\ \A k \in Keys : k \notin keys => early'[k] = early[k]
    <3>1. PICK now, copies : now = early' /\ copies = {copy}
      OBVIOUS
    <3>2. now = Landed(early, copies)
      BY <1>1, <3>1
    <3>3. now = [k \in Keys |-> now[k]]
      BY <3>2, LandedElsewhere
    <3>4. \A k \in Keys : k \notin Destinations(copies) => now[k] = early[k]
      BY <3>2, LandedElsewhere
    <3> QED BY <2>1, <3>1, <3>3, <3>4
  <2> QED BY <2>2, <2>3
<1>6. \A u \in Threads : \A d \in InFlight(u)' : Seqs!ToSet(d.dst) \subseteq Keys
  BY <1>2, <1>3, <1>4 DEF UntoldInv
<1>7. ASSUME ~crossed' PROVE MemoriesAgree'
  <2>1. MemoriesAgree /\ ~CrossedBy(t, keys)
    BY <1>1, <1>7 DEF UntoldInv
  <2>2. \A k \in keys : Uncovered(k)
    BY <1>1, <2>1 DEF CrossedBy, Uncovered
  <2>3. ASSUME NEW u \in Threads, NEW d \in InFlight(u) PROVE Early(d)'
    <3> SUFFICES ASSUME NEW n \in DOMAIN d.dst PROVE early'[d.dst[n]] = d.vals[n]
      BY DEF Early
    <3>1. d.dst[n] \in Seqs!ToSet(d.dst) /\ Seqs!ToSet(d.dst) \subseteq Keys
      BY DEF UntoldInv, Seqs!ToSet
    <3>2. d.dst[n] \notin keys
      BY <2>2, <3>1 DEF Uncovered, Covers
    <3> QED BY <1>5, <2>1, <3>1, <3>2 DEF MemoriesAgree, Early
  <2>4. Early(copy)'
    BY <1>3, <1>5 DEF Early
  <2>5. \A u \in Threads : \A d \in InFlight(u)' : Early(d)'
    BY <1>4, <2>3, <2>4
  <2>6. ASSUME NEW k \in Keys, Uncovered(k)' PROVE late'[k] = early'[k]
    <3>1. \A u \in Threads : \A d \in InFlight(u)' : k \notin Seqs!ToSet(d.dst)
      BY <2>6 DEF Uncovered, Covers, Seqs!ToSet
    <3>2. k \notin keys /\ Uncovered(k)
      BY <1>3, <1>4, <3>1 DEF Uncovered, Covers
    <3> QED BY <1>1, <1>5, <2>1, <3>2 DEF MemoriesAgree
  <2> QED BY <1>1, <2>1, <2>5, <2>6 DEF MemoriesAgree
<1>8. done' \subseteq Threads /\ \A u \in done' : IsEmpty(u)'
  <2>1. done' = done /\ done \subseteq Threads /\ \A u \in done : queue'[u] = queue[u] /\ IsEmpty(u)
    BY <1>1, <1>4 DEF UntoldInv
  <2>2. \A u \in done : queue'[u].open = <<>> /\ \A g \in Seqs!ToSet(queue'[u].groups) : g = <<>>
    BY <2>1 DEF IsEmpty
  <2>3. \A u \in done : IsEmpty(u)'
    BY <2>2 DEF IsEmpty, Seqs!ToSet
  <2> QED BY <2>1, <2>3
<1>9. late' = [k \in Keys |-> late'[k]]
  BY <1>1 DEF UntoldInv
<1> QED BY <1>5, <1>6, <1>7, <1>8, <1>9 DEF UntoldInv, Seqs!ToSet

(* A wait stores what early memory has had since the issue.                *)
LEMMA WaitUntold ==
  ASSUME QueueInv, UntoldInv, NEW t \in Threads, NEW p \in Pendings, Wait(t, p)
  PROVE  UntoldInv'
<1> DEFINE copies == UNION {Seqs!ToSet(queue[t].groups[i]) : i \in 1 .. Excess(queue[t].groups, p)}
<1>1. /\ UNCHANGED <<early, done, told>> /\ t \notin done
      /\ late' = Landed(late, copies)
      /\ crossed' = (crossed \/ CrossedBy(t, Destinations(copies)))
  BY DEF Wait, Idle
<1>2. /\ InFlight(t) = InFlight(t)' \cup copies
      /\ \A u \in Threads : u # t => queue'[u] = queue[u] /\ InFlight(u)' = InFlight(u)
  BY WaitFlies
<1> HIDE DEF copies
<1>3. \A u \in Threads : \A d \in InFlight(u)' : Seqs!ToSet(d.dst) \subseteq Keys
  BY <1>2 DEF UntoldInv
<1>4. /\ late' = [k \in Keys |-> late'[k]]
      /\ \A k \in Keys : k \notin Destinations(copies) => late'[k] = late[k]
  <2>1. PICK now : now = late'
    OBVIOUS
  <2>2. now = Landed(late, copies)
    BY <1>1, <2>1
  <2>3. now = [k \in Keys |-> now[k]]
    BY <2>2, LandedElsewhere
  <2>4. \A k \in Keys : k \notin Destinations(copies) => now[k] = late[k]
    BY <2>2, LandedElsewhere
  <2> QED BY <2>1, <2>3, <2>4
<1>5. ASSUME ~crossed' PROVE MemoriesAgree'
  <2>1. MemoriesAgree
    BY <1>1, <1>5 DEF UntoldInv
  <2>2. \A u \in Threads : \A d \in InFlight(u)' : Early(d)'
    BY <1>1, <1>2, <2>1 DEF MemoriesAgree, Early
  <2>3. ASSUME NEW k \in Keys, Uncovered(k)' PROVE late'[k] = early'[k]
    <3>1. CASE k \in Destinations(copies)
      <4>1. PICK d : d = CHOOSE x \in copies : k \in Seqs!ToSet(x.dst)
        OBVIOUS
      <4>2. \E x \in copies : k \in Seqs!ToSet(x.dst)
        BY <3>1 DEF Destinations
      <4>3. d \in copies /\ k \in Seqs!ToSet(d.dst)
        BY <4>1, <4>2
      <4>4. PICK n : n = CHOOSE m \in DOMAIN d.dst : d.dst[m] = k
        OBVIOUS
      <4>5. n \in DOMAIN d.dst /\ d.dst[n] = k
        BY <4>3, <4>4 DEF Seqs!ToSet
      <4>6. late'[k] = d.vals[n]
        BY <1>1, <3>1, <4>1, <4>4 DEF Landed
      <4>7. early[k] = d.vals[n]
        BY <1>2, <2>1, <4>3, <4>5 DEF MemoriesAgree, Early
      <4> QED BY <1>1, <4>6, <4>7
    <3>2. CASE k \notin Destinations(copies)
      <4>1. \A u \in Threads : \A d \in InFlight(u)' : k \notin Seqs!ToSet(d.dst)
        BY <2>3 DEF Uncovered, Covers, Seqs!ToSet
      <4>2. \A d \in copies : k \notin Seqs!ToSet(d.dst)
        BY <3>2 DEF Destinations
      <4>3. Uncovered(k)
        BY <1>2, <4>1, <4>2 DEF Uncovered, Covers
      <4> QED BY <1>1, <1>4, <2>1, <3>2, <4>3 DEF MemoriesAgree
    <3> QED BY <3>1, <3>2
  <2> QED BY <1>1, <2>1, <2>2, <2>3 DEF MemoriesAgree
<1>6. done' \subseteq Threads /\ \A u \in done' : IsEmpty(u)'
  BY <1>1, <1>2 DEF UntoldInv, IsEmpty, Seqs!ToSet
<1>7. early' = [k \in Keys |-> early'[k]]
  BY <1>1 DEF UntoldInv
<1> QED BY <1>3, <1>4, <1>5, <1>6, <1>7 DEF UntoldInv, Seqs!ToSet

LEMMA UntoldStep ==
  ASSUME QueueInv, UntoldInv, [AsyncNext]_copyVars
  PROVE  UntoldInv'
<1>1. ASSUME UNCHANGED <<late, early, told, crossed>>,
             \A u \in Threads : InFlight(u)' = InFlight(u),
             done' \subseteq Threads, \A u \in done' : IsEmpty(u)'
      PROVE  UntoldInv'
  <2>1. \A k : Uncovered(k)' <=> Uncovered(k)
    BY <1>1 DEF Uncovered, Covers, Seqs!ToSet
  <2>2. MemoriesAgree => MemoriesAgree'
    BY <1>1, <2>1 DEF MemoriesAgree, Early
  <2>3. \A u \in Threads : \A d \in InFlight(u)' : (Seqs!ToSet(d.dst) \subseteq Keys)'
    BY <1>1 DEF UntoldInv, Seqs!ToSet
  <2>4. (late = [k \in Keys |-> late[k]] /\ early = [k \in Keys |-> early[k]])'
    BY <1>1 DEF UntoldInv
  <2> QED BY <1>1, <2>2, <2>3, <2>4 DEF UntoldInv
<1>2. ASSUME UNCHANGED <<queue, late, early, told, crossed, done>>
      PROVE  UntoldInv'
  <2>1. (\A u \in Threads : InFlight(u)' = InFlight(u)) /\ \A u : IsEmpty(u)' <=> IsEmpty(u)
    BY <1>2 DEF InFlight, IsEmpty, Seqs!ToSet
  <2> QED BY <1>1, <1>2, <2>1 DEF UntoldInv
<1>3. ASSUME NEW t \in Threads, ThreadStep(t)
      PROVE  UntoldInv'
  <2>1. ASSUME NEW site \in Touches, OwnFlight(t, {site.key}) \/ Touch(t, site)
        PROVE  UntoldInv'
    <3>1. site.key \in Keys
      BY CopiesAssumption DEF PlainSites, Plain
    <3>2. OwnFlight(t, {site.key}) => UNCHANGED <<queue, late, early, told, crossed, done>>
      BY DEF OwnFlight, Traps
    <3> QED BY <1>2, <2>1, <3>1, <3>2, ReadUntold, WriteUntold DEF Touch
  <2>2. ASSUME NEW c \in Copies, OwnFlight(t, Seqs!ToSet(c.dst)) \/ Issue(t, c)
        PROVE  UntoldInv'
    <3>1. OwnFlight(t, Seqs!ToSet(c.dst)) => UNCHANGED <<queue, late, early, told, crossed, done>>
      BY DEF OwnFlight, Traps
    <3> QED BY <1>2, <2>2, <3>1, IssueUntold
  <2>3. ASSUME Commit(t) PROVE UntoldInv'
    <3>1. \A u \in Threads : InFlight(u)' = InFlight(u) /\ (u # t => queue'[u] = queue[u])
      BY <2>3, CommitFlies
    <3>2. UNCHANGED <<late, early, told, crossed, done>> /\ t \notin done
      BY <2>3 DEF Commit, Idle
    <3>3. done' \subseteq Threads /\ \A u \in done' : IsEmpty(u)'
      BY <3>1, <3>2 DEF UntoldInv, IsEmpty, Seqs!ToSet
    <3> QED BY <1>1, <3>1, <3>2, <3>3
  <2>4. ASSUME Finish(t) PROVE UntoldInv'
    <3>1. UNCHANGED <<queue, late, early, told, crossed>> /\ IsEmpty(t) /\ done' = done \cup {t}
      BY <2>4 DEF Finish
    <3>2. (\A u \in Threads : InFlight(u)' = InFlight(u)) /\ \A u : IsEmpty(u)' <=> IsEmpty(u)
      BY <3>1 DEF InFlight, IsEmpty, Seqs!ToSet
    <3>3. done' \subseteq Threads /\ \A u \in done' : IsEmpty(u)'
      BY <3>1, <3>2 DEF UntoldInv
    <3> QED BY <1>1, <3>1, <3>2, <3>3
  <2>5. LeaveUnwaited(t) => UNCHANGED <<queue, late, early, told, crossed, done>>
    BY DEF LeaveUnwaited, Traps
  <2> QED BY <1>2, <1>3, <2>1, <2>2, <2>3, <2>4, <2>5, WaitUntold DEF ThreadStep
<1>4. Proceed => UNCHANGED <<queue, late, early, told, crossed, done>>
  BY DEF Proceed
<1>5. ASSUME NEW b \in Blocks, Meet(b)
      PROVE  UNCHANGED <<queue, late, early, told, crossed, done>>
  BY <1>5 DEF Meet, asyncVars
<1>6. UNCHANGED copyVars => UNCHANGED <<queue, late, early, told, crossed, done>>
  BY DEF copyVars, asyncVars
<1> QED BY <1>2, <1>3, <1>4, <1>5, <1>6 DEF AsyncNext

LEMMA UntoldInit ==
  ASSUME AsyncInit
  PROVE  UntoldInv
<1>1. /\ queue = [t \in Threads |-> [open |-> <<>>, groups |-> <<>>]]
      /\ late = [k \in Keys |-> IF k \in Shared THEN Uninit ELSE 0] /\ early = late
      /\ done = {} /\ ~told
  BY DEF AsyncInit
<1>2. Seqs!ToSet(<<>>) = {}
  BY DEF Seqs!ToSet
<1>3. \A t \in Threads : InFlight(t) = {}
  BY <1>1, <1>2 DEF InFlight
<1>4. late = [k \in Keys |-> late[k]] /\ early = [k \in Keys |-> early[k]]
  BY <1>1
<1> QED BY <1>1, <1>3, <1>4 DEF UntoldInv, MemoriesAgree

(* A thread that has finished has nothing in flight, so when all have, no  *)
(* element is covered.                                                     *)
LEMMA EndUntold ==
  ASSUME QueueInv, UntoldInv
  PROVE  UntouchedCannotTell
<1> SUFFICES ASSUME done = Threads, ~crossed PROVE ~told /\ late = early
  BY DEF UntouchedCannotTell
<1>1. \A t \in Threads : InFlight(t) = {}
  <2> TAKE t \in Threads
  <2>1. IsEmpty(t)
    BY DEF UntoldInv
  <2>2. Seqs!ToSet(<<>>) = {}
    BY DEF Seqs!ToSet
  <2> QED BY <2>1, <2>2 DEF IsEmpty, InFlight
<1>2. \A k \in Keys : Uncovered(k)
  BY <1>1 DEF Uncovered, Covers
<1>3. ~told /\ \A k \in Keys : late[k] = early[k]
  BY <1>2 DEF UntoldInv, MemoriesAgree
<1> QED BY <1>3 DEF UntoldInv

(* A launch that ended has read the same, and leaves the same memory, as   *)
(* if every copy had landed at its issue, provided nobody touched an       *)
(* element another thread's copy was in flight to (copy_async reads the    *)
(* source at once and async_wait stores it late; alloc_index refuses an    *)
(* own touch in between): for any copies, waits and sizes.                 *)
THEOREM CopiesCannotBeTold == AsyncSpec => []UntouchedCannotTell
<1>1. AsyncInit => QueueInv /\ UntoldInv
  BY QueueInit, UntoldInit
<1>2. TypeOK /\ QueueInv /\ [AsyncNext]_copyVars => QueueInv'
  BY QueueStep
<1>3. QueueInv /\ UntoldInv /\ [AsyncNext]_copyVars => UntoldInv'
  BY UntoldStep
<1>4. QueueInv /\ UntoldInv => UntouchedCannotTell
  BY EndUntold
<1> QED BY <1>1, <1>2, <1>3, <1>4, AsyncRunsDetector, TypeCorrect, PTL DEF AsyncSpec
=============================================================================
