---------------------------- MODULE AsyncCopies ----------------------------
(***************************************************************************)
(* Asynchronous copies in the launch interpreter (oracle/kernel_async.rs,  *)
(* AsyncQueue in kernel_mem.rs), on top of the race detector: every access *)
(* a copy makes goes through RaceSoundness!Access, as every other does.    *)
(*                                                                         *)
(* A copy reads its source when it is issued and stores it when a wait     *)
(* covers its group.  The C emitter stores it at the issue, and hardware   *)
(* at any time in between; so a second memory, early, is kept beside the   *)
(* interpreter's, and what the program reads is compared.                  *)
(*                                                                         *)
(* A statement makes several accesses and the host runs it without a       *)
(* break: it fills the agenda, which is worked off before anything else.   *)
(* A stored value is named by the moment it was stored; 0 is what global   *)
(* memory holds at first.                                                  *)
(***************************************************************************)
EXTENDS RaceSoundness, Integers, Sequences

Seqs == INSTANCE SequencesExt

CONSTANTS
  Shared,        \* the keys that are Shared elements; the others are global
  Touches,       \* the loads and stores a kernel may make
  Copies,        \* the copies a kernel may issue: [dst, src], sequences of keys
  Pendings,      \* the pending counts its waits may have
  MaxCommits     \* bound: commits of a thread

(* A plain access, which carries no order and the scope Device.            *)
Plain(k, kind) == [key |-> k, kind |-> kind, order |-> "Relaxed", scope |-> "Device"]

PlainSites == {Plain(k, kind) : k \in Keys, kind \in {"Read", "Write"}}

ASSUME CopiesAssumption ==
  /\ Shared \subseteq Keys
  /\ Touches \subseteq PlainSites
  /\ PlainSites \subseteq AccessSites
  /\ Pendings \subseteq Nat
  /\ MaxCommits \in Nat
  /\ \A c \in Copies : /\ c.dst \in Seq(Shared) /\ c.src \in Seq(Keys \ Shared) /\ Len(c.dst) = Len(c.src)
                       /\ \A m, n \in DOMAIN c.dst : c.dst[m] = c.dst[n] => m = n

VARIABLES
  queue,     \* AsyncQueue per thread: the open copies, the groups, oldest first
  agenda,    \* the accesses the running statement still makes: [thread, site]
  late,      \* memory as the interpreter has it
  early,     \* memory had every copy landed at its issue
  trap,      \* "" or what the launch ended with, a DataRace apart
  done,      \* the threads that have finished
  told,      \* a read gave another value than it would have from early
  crossed,   \* somebody touched an element another's copy was in flight to
  made,      \* every copy issued; group is 0 until it is committed
  asked      \* per thread its commits, and the groups a wait has been due for

asyncVars == <<queue, agenda, late, early, trap, done, told, crossed, made, asked>>
copyVars == <<vars, asyncVars>>

Uninit == -1

AsyncInit ==
  /\ Init
  /\ queue = [t \in Threads |-> [open |-> <<>>, groups |-> <<>>]]
  /\ agenda = <<>>
  /\ late = [k \in Keys |-> IF k \in Shared THEN Uninit ELSE 0]
  /\ early = late
  /\ trap = ""
  /\ done = {}
  /\ told = FALSE
  /\ crossed = FALSE
  /\ made = {}
  /\ asked = [t \in Threads |-> [commits |-> 0, due |-> 0]]

-----------------------------------------------------------------------------
(* The copies of t that have not landed.                                   *)
InFlight(t) == Seqs!ToSet(queue[t].open) \cup UNION {Seqs!ToSet(g) : g \in Seqs!ToSet(queue[t].groups)}

(* AsyncQueue::covers.                                                     *)
Covers(t, k) == \E c \in InFlight(t) : k \in Seqs!ToSet(c.dst)

(* Mutant: copies that were never committed do not count.                  *)
IsEmptyCommitted(t) == \A g \in Seqs!ToSet(queue[t].groups) : g = <<>>

(* AsyncQueue::is_empty.                                                   *)
IsEmpty(t) == queue[t].open = <<>> /\ \A g \in Seqs!ToSet(queue[t].groups) : g = <<>>

Destinations(copies) == UNION {Seqs!ToSet(c.dst) : c \in copies}

(* What memory is once the copies have landed in it; no two of a thread's  *)
(* that have not are to one element.                                       *)
Landed(memory, copies) ==
  [k \in Keys |-> IF k \in Destinations(copies)
                    THEN LET c == CHOOSE d \in copies : k \in Seqs!ToSet(d.dst)
                         IN  c.vals[CHOOSE n \in DOMAIN c.dst : c.dst[n] = k]
                    ELSE memory[k]]

CrossedBy(t, keys) == \E u \in Threads \ {t} : \E k \in keys : Covers(u, k)

(* The host is between two statements and t has not finished.              *)
Idle(t) == ~rejected /\ trap = "" /\ agenda = <<>> /\ t \notin done

Accesses(t, keys, kind) ==
  [n \in 1 .. Len(keys) |-> [thread |-> t, site |-> Plain(keys[n], kind)]]

Traps(what) ==
  /\ trap' = what
  /\ UNCHANGED <<vars, queue, agenda, late, early, done, told, crossed, made, asked>>

-----------------------------------------------------------------------------
(* alloc_index: a thread touches what its own copy is in flight to.        *)
OwnFlight(t, keys) ==
  /\ Idle(t)
  /\ \E k \in keys : Covers(t, k)
  /\ Traps("AsyncRace")

(* alloc_load: a read; a Shared element must have been stored.             *)
Read(t, k) ==
  /\ Idle(t)
  /\ ~Covers(t, k)
  /\ agenda' = Accesses(t, <<k>>, "Read")
  /\ trap' = IF late[k] = Uninit THEN "UninitializedShared" ELSE ""
  /\ told' = (told \/ late[k] # early[k])
  /\ crossed' = (crossed \/ CrossedBy(t, {k}))
  /\ UNCHANGED <<vars, queue, late, early, done, made, asked>>

(* alloc_store, and a store to a buffer.                                   *)
Write(t, k) ==
  /\ Idle(t)
  /\ ~Covers(t, k)
  /\ agenda' = Accesses(t, <<k>>, "Write")
  /\ late' = [late EXCEPT ![k] = seq + 1]
  /\ early' = [early EXCEPT ![k] = seq + 1]
  /\ crossed' = (crossed \/ CrossedBy(t, {k}))
  /\ UNCHANGED <<vars, queue, trap, done, told, made, asked>>

(* Mutant: the issue is not a write of the destination.                    *)
IssuedUnlogged(t, c) == Accesses(t, c.src, "Read")

(* What an issue logs: the source read now, and the destination as written *)
(* from now on.                                                            *)
Issued(t, c) == Accesses(t, c.src, "Read") \o Accesses(t, c.dst, "Write")

(* copy_async.                                                             *)
Issue(t, c) ==
  /\ Idle(t)
  /\ \A k \in Seqs!ToSet(c.dst) : ~Covers(t, k)
  /\ agenda' = Issued(t, c)
  /\ LET since == seq + Len(c.src)
         copy == [dst |-> c.dst, vals |-> [n \in 1 .. Len(c.src) |-> late[c.src[n]]], since |-> since]
     IN  /\ queue' = [queue EXCEPT ![t].open = Append(@, copy)]
         /\ early' = Landed(early, {copy})
         /\ made' = made \cup {[thread |-> t, dst |-> Seqs!ToSet(c.dst), since |-> since,
                                before |-> hb[t], group |-> 0]}
  /\ crossed' = (crossed \/ CrossedBy(t, Seqs!ToSet(c.dst)))
  /\ UNCHANGED <<vars, late, trap, done, told, asked>>

(* Mutant: a commit with nothing open makes no group.                      *)
CommittedUnlessEmpty(q) ==
  [open |-> <<>>, groups |-> IF q.open = <<>> THEN q.groups ELSE Append(q.groups, q.open)]

Committed(q) == [open |-> <<>>, groups |-> Append(q.groups, q.open)]

(* async_commit.                                                           *)
Commit(t) ==
  /\ Idle(t)
  /\ asked[t].commits < MaxCommits
  /\ queue' = [queue EXCEPT ![t] = Committed(@)]
  /\ asked' = [asked EXCEPT ![t].commits = @ + 1]
  /\ made' = {IF c.thread = t /\ c.group = 0 THEN [c EXCEPT !.group = asked'[t].commits] ELSE c : c \in made}
  /\ UNCHANGED <<vars, agenda, late, early, trap, done, told, crossed>>

(* How many of the oldest groups a wait for p lands.                       *)
Excess(groups, p) == IF Len(groups) > p THEN Len(groups) - p ELSE 0

(* async_wait: the oldest groups land until at most p are left, copy by    *)
(* copy and element by element.                                            *)
Wait(t, p) ==
  LET groups == queue[t].groups
      landing == Seqs!FlattenSeq(SubSeq(groups, 1, Excess(groups, p)))
      keys == Seqs!FlattenSeq([n \in DOMAIN landing |-> landing[n].dst])
      copies == UNION {Seqs!ToSet(groups[i]) : i \in 1 .. Excess(groups, p)}
  IN  /\ Idle(t)
      /\ queue' = [queue EXCEPT ![t].groups = SubSeq(groups, Excess(groups, p) + 1, Len(groups))]
      /\ agenda' = Accesses(t, keys, "Write")
      /\ late' = Landed(late, copies)
      /\ crossed' = (crossed \/ CrossedBy(t, Destinations(copies)))
      /\ asked' = [asked EXCEPT ![t].due = IF asked[t].commits > @ + p THEN asked[t].commits - p ELSE @]
      /\ UNCHANGED <<vars, early, trap, done, told, made>>

-----------------------------------------------------------------------------
(* The next access of the running statement, admitted or refused.          *)
Proceed ==
  /\ agenda # <<>>
  /\ agenda' = Tail(agenda)
  /\ \E t \in Threads, site \in PlainSites :
       /\ Head(agenda) = [thread |-> t, site |-> site]
       /\ Access(t, site) \/ RefuseAccess(t, site)
  /\ UNCHANGED <<queue, late, early, trap, done, told, crossed, made, asked>>

(* A thread ends: run_launch looks at its queue.                           *)
Finish(t) ==
  /\ Idle(t)
  /\ IsEmpty(t)
  /\ done' = done \cup {t}
  /\ UNCHANGED <<vars, queue, agenda, late, early, trap, told, crossed, made, asked>>

LeaveUnwaited(t) ==
  /\ Idle(t)
  /\ ~IsEmpty(t)
  /\ Traps("AsyncUnwaited")

(* A block barrier every thread of the block has come to.                  *)
Meet(b) ==
  /\ ~rejected /\ trap = "" /\ agenda = <<>>
  /\ done \cap HB!BlockThreads(b) = {}
  /\ BlockRelease(b)
  /\ UNCHANGED asyncVars

(* A load or a store of the kernel.                                        *)
Touch(t, site) ==
  \/ site.kind = "Read" /\ Read(t, site.key)
  \/ site.kind = "Write" /\ Write(t, site.key)

ThreadStep(t) ==
  \/ \E site \in Touches : OwnFlight(t, {site.key}) \/ Touch(t, site)
  \/ \E c \in Copies : OwnFlight(t, Seqs!ToSet(c.dst)) \/ Issue(t, c)
  \/ Commit(t)
  \/ \E p \in Pendings : Wait(t, p)
  \/ Finish(t)
  \/ LeaveUnwaited(t)

AsyncNext ==
  \/ Proceed
  \/ \E t \in Threads : ThreadStep(t)
  \/ \E b \in Blocks : Meet(b)

AsyncSpec == AsyncInit /\ [][AsyncNext]_copyVars

-----------------------------------------------------------------------------
(* While a copy is in flight, whatever another thread has done to its      *)
(* destination is ordered with the issue, before it or after it: this is   *)
(* what logging the issue as a write is for, the store being made later.   *)
FlightOrdered ==
  (agenda = <<>> /\ ~rejected) =>
    \A c \in made : \A f \in hist :
      (/\ c.since \in {q.since : q \in InFlight(c.thread)}
       /\ f.key \in c.dst
       /\ f.thread # c.thread) => f.seq \in c.before \/ c.since \in f.before

(* What has not landed is what was never committed and the groups no wait  *)
(* was yet due for, a commit counting when there was nothing to commit:    *)
(* a pipeline may issue its waits blindly at its start and its end.        *)
WaitsCover ==
  \A t \in Threads :
    {q.since : q \in InFlight(t)} =
      {c.since : c \in {m \in made : m.thread = t /\ (m.group = 0 \/ m.group > asked[t].due)}}

(* A launch that ended has read the same, and leaves the same memory, as   *)
(* if every copy had landed at its issue, provided nobody touched an       *)
(* element another thread's copy was in flight to.                         *)
UntouchedCannotTell ==
  (done = Threads /\ ~crossed) => ~told /\ late = early

(* kernel.rs says it without the proviso: a kernel the interpreter accepts *)
(* cannot tell when its copies land.                                       *)
CannotTell == done = Threads => ~told /\ late = early
=============================================================================
