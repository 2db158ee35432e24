------------------------------- MODULE Lifts -------------------------------
(***************************************************************************)
(* The cooperative lifts: the kernels that kernel_lift/block_reduce.rs,    *)
(* scan_launched.rs and row_reduce_launched.rs make of a reduction, a scan *)
(* and a row reduction, run by one block.  Blocks share nothing: they take *)
(* different rows.                                                         *)
(*                                                                         *)
(* A value is the sequence of elements folded into it, in the order they   *)
(* were added, so a missed, doubled or foreign element shows.  Sum is      *)
(* concatenation; Max takes its first element in place of what was there   *)
(* while have is 0 (extremum_step), which matters as a reduction starts    *)
(* from a 0 that is no identity of it (Zero).                              *)
(***************************************************************************)
EXTENDS Integers, Sequences, Functions

CONSTANTS
  Jobs,   \* the kernels: [lift, op, block, extent, reverse, exclusive]
  Rows    \* the rows the block does, one after the other

ASSUME JobsAssumption ==
  /\ Rows \in Nat
  /\ \A j \in Jobs : /\ j.lift \in {"reduce", "scan", "rowreduce"}
                     /\ j.extent \in Nat
                     /\ \E k \in 0 .. 31 : j.block = 2 ^ k

VARIABLES
  job,
  pc, row,                \* per thread: the statement, and the row it is in
  acc, have, partner,     \* per thread: the locals of a Fold, and a scan's partner
  red,                    \* per thread: the stage results it has loaded
  partial, partialHave,   \* the Shared arrays a Fold publishes to
  stage,                  \* the Shared array of stage results
  touched,                \* the Shared accesses since the last barrier
  out                     \* what has been stored in each element of the output

shared == <<partial, partialHave, stage>>
liftVars == <<job, pc, row, acc, have, partner, red, shared, touched, out>>

-----------------------------------------------------------------------------
Threads == 0 .. job.block - 1
Levels == CHOOSE k \in 0 .. 31 : 2 ^ k = job.block

Do(what, arg) == [do |-> what, arg |-> arg]
Barrier == Do("Barrier", 0)

(* Fold::rounds: strides block / 2, block / 4, ... 1.                      *)
Rounds ==
  [i \in 1 .. 2 * Levels |->
     IF i % 2 = 1 THEN Do("Round", 2 ^ (Levels - (i + 1) \div 2)) ELSE Barrier]

(* Scan::totals_scan: distances 1, 2, ... block / 2.                       *)
TotalsScan ==
  [i \in 1 .. 4 * Levels |->
     CASE i % 4 = 1 -> Do("Partner", 2 ^ (i \div 4))
       [] i % 4 = 3 -> Do("Combine", 2 ^ (i \div 4))
       [] OTHER     -> Barrier]

(* Mutant: the result is taken before the threads have met.                *)
StageUnmet(s) ==
  <<Do("Slice", s), Do("Publish", s), Barrier>> \o Rounds \o <<Do("Share", s), Do("Take", s)>>

(* launched_stage.                                                         *)
Stage(s) ==
  <<Do("Slice", s), Do("Publish", s), Barrier>> \o Rounds
    \o <<Do("Share", s), Barrier, Do("Take", s)>>

(* Mutant: no barrier at the end of a row.                                 *)
ScanRowOpen ==
  <<Do("Chunk", 1), Do("Publish", 1), Barrier>> \o TotalsScan \o <<Do("Offset", 1), Do("Write", 1)>>

(* Scan::row: the three phases.                                            *)
ScanRow ==
  <<Do("Chunk", 1), Do("Publish", 1), Barrier>> \o TotalsScan
    \o <<Do("Offset", 1), Do("Write", 1), Barrier>>

(* What every thread does for a row.                                       *)
Program ==
  CASE job.lift = "reduce" ->
         <<Do("Slice", 1), Do("Publish", 1), Barrier>> \o Rounds \o <<Do("Store", 1)>>
    [] job.lift = "scan" -> ScanRow
    [] job.lift = "rowreduce" -> Stage(1) \o Stage(2) \o <<Do("Epilogue", 3)>>

(* A row reduction here is a softmax: the second stage sums.               *)
OpOf(s) == IF s = 1 THEN job.op ELSE "Sum"
HasFlag(s) == OpOf(s) = "Max"

-----------------------------------------------------------------------------
Leaf(r, i) == <<r, i>>
Zero == <<Rows, 0>>

(* ReductionShape::fold_identity: the 0 a reduction starts from.           *)
FoldIdentity(s) == IF HasFlag(s) THEN <<Zero>> ELSE <<>>

(* fold_step, for every element of a sequence.                             *)
FoldStep(s, held, value, elements) ==
  IF elements # <<>> /\ HasFlag(s) /\ ~held THEN elements ELSE value \o elements

FoldHave(s, held, elements) == held \/ (HasFlag(s) /\ elements # <<>>)

(* The elements reduced = tid; < n; += BlockDim of row r.                  *)
SliceOf(t, r) ==
  LET count == (job.extent - t + job.block - 1) \div job.block
  IN  [i \in 1 .. count |-> Leaf(r, t + (i - 1) * job.block)]

(* Mutant: rounded down.                                                   *)
ChunkSizeFloor == job.extent \div job.block

(* Scan::bounds: the least chunk with chunk * block >= n.                  *)
ChunkSize == CHOOSE c \in 0 .. job.extent : c * job.block >= job.extent /\ \A d \in 0 .. c - 1 : d * job.block < job.extent

Lo(t) == t * ChunkSize
Hi(t) == IF Lo(t) + ChunkSize < job.extent THEN Lo(t) + ChunkSize ELSE job.extent

(* Scan::walk: scan position p is this element.                            *)
At(p) == IF job.reverse THEN job.extent - 1 - p ELSE p

(* The elements of row r at the scan positions lo to hi - 1.               *)
Walk(r, lo, hi) == [i \in 1 .. (IF hi > lo THEN hi - lo ELSE 0) |-> Leaf(r, At(lo + i - 1))]

-----------------------------------------------------------------------------
LiftInit ==
  /\ job \in Jobs
  /\ pc = [t \in Threads |-> 1]
  /\ row = [t \in Threads |-> 0]
  /\ acc = [t \in Threads |-> <<>>]
  /\ have = [t \in Threads |-> FALSE]
  /\ partner = [t \in Threads |-> <<>>]
  /\ red = [t \in Threads |-> <<>>]
  /\ partial = [t \in Threads |-> {}]       \* {} until it is stored
  /\ partialHave = [t \in Threads |-> {}]
  /\ stage = [s \in 1 .. 2 |-> {}]
  /\ touched = {}
  /\ out = [r \in 0 .. Rows - 1 |-> [i \in 0 .. job.extent |-> {}]]

-----------------------------------------------------------------------------
Ended(t) == row[t] = Rows

(* t is at such a statement and goes on past it.                           *)
Doing(t, what) ==
  /\ ~Ended(t)
  /\ Program[pc[t]].do = what
  /\ IF pc[t] = Len(Program)
       THEN pc' = [pc EXCEPT ![t] = 1] /\ row' = [row EXCEPT ![t] = @ + 1]
       ELSE pc' = [pc EXCEPT ![t] = @ + 1] /\ UNCHANGED row
  /\ UNCHANGED job

Arg(t) == Program[pc[t]].arg

Access(t, array, slot, kind) == [by |-> t, array |-> array, slot |-> slot, kind |-> kind]

(* A published total, with its flag when the operation has one.            *)
Totals(t, slot, kind, s) ==
  {Access(t, "partial", slot, kind)}
    \cup (IF HasFlag(s) THEN {Access(t, "have", slot, kind)} ELSE {})

(* What a slot holds; it is never read before it is stored (NeverUnset).   *)
Held(slot) == CHOOSE v \in slot : TRUE
Loaded(slot, none) == IF slot = {} THEN none ELSE Held(slot)

(* Tree::slice and the strided loop of a stage.                            *)
Slice(t) ==
  LET s == Arg(t)
      elements == SliceOf(t, row[t])
  IN  /\ Doing(t, "Slice")
      /\ acc' = [acc EXCEPT ![t] = FoldStep(s, FALSE, FoldIdentity(s), elements)]
      /\ have' = [have EXCEPT ![t] = FoldHave(s, FALSE, elements)]
      /\ UNCHANGED <<partner, red, shared, touched, out>>

(* A scan starts from the monoid's identity.                               *)
Chunk(t) ==
  LET elements == Walk(row[t], Lo(t), Hi(t))
  IN  /\ Doing(t, "Chunk")
      /\ acc' = [acc EXCEPT ![t] = FoldStep(1, FALSE, <<>>, elements)]
      /\ have' = [have EXCEPT ![t] = FoldHave(1, FALSE, elements)]
      /\ partner' = [partner EXCEPT ![t] = <<>>]
      /\ UNCHANGED <<red, shared, touched, out>>

(* Fold::publish.                                                          *)
Publishes(t, s, value, held) ==
  /\ partial' = [partial EXCEPT ![t] = {value}]
  /\ partialHave' = IF HasFlag(s) THEN [partialHave EXCEPT ![t] = {held}] ELSE partialHave
  /\ UNCHANGED stage

Publish(t) ==
  /\ Doing(t, "Publish")
  /\ Publishes(t, Arg(t), acc[t], have[t])
  /\ touched' = touched \cup Totals(t, t, "Write", Arg(t))
  /\ UNCHANGED <<acc, have, partner, red, out>>

(* Mutant: a partner that folded nothing is folded in.                     *)
CarriesAlways(s, slot) == TRUE

(* Whether the partial in a slot is to be folded in.                       *)
Carries(s, slot) == HasFlag(s) => Loaded(partialHave[slot], FALSE)

(* Mutant: the partner's value goes first.                                 *)
CombinedLeft(s, held, value, other) ==
  IF HasFlag(s) /\ ~held THEN other ELSE other \o value

(* A partial folded into an accumulator.                                   *)
Combined(s, held, value, other) ==
  IF HasFlag(s) /\ ~held THEN other ELSE value \o other

(* The stage a round belongs to is that of the last Slice before it.       *)
StageOf(t) == IF \E i \in 1 .. pc[t] : Program[i] = Do("Slice", 2) THEN 2 ELSE 1

(* round_body, by the threads below the stride.                            *)
Round(t) ==
  LET s == StageOf(t)
      from == t + Arg(t)
      joins == Carries(s, from)
      value == IF joins THEN Combined(s, have[t], acc[t], Loaded(partial[from], <<>>)) ELSE acc[t]
      held == have[t] \/ (HasFlag(s) /\ joins)
  IN  /\ Doing(t, "Round")
      /\ IF t < Arg(t)
           THEN /\ acc' = [acc EXCEPT ![t] = value]
                /\ have' = [have EXCEPT ![t] = held]
                /\ Publishes(t, s, value, held)
                /\ touched' = touched \cup Totals(t, from, "Read", s) \cup Totals(t, t, "Write", s)
           ELSE UNCHANGED <<acc, have, shared, touched>>
      /\ UNCHANGED <<partner, red, out>>

(* read_partner, by the threads that have one.                             *)
Partner(t) ==
  /\ Doing(t, "Partner")
  /\ IF t >= Arg(t)
       THEN /\ partner' = [partner EXCEPT ![t] = Loaded(partial[t - Arg(t)], <<>>)]
            /\ touched' = touched \cup {Access(t, "partial", t - Arg(t), "Read")}
       ELSE UNCHANGED <<partner, touched>>
  /\ UNCHANGED <<acc, have, red, shared, out>>

(* combine_and_publish.                                                    *)
Combine(t) ==
  LET value == Combined(1, have[t], acc[t], partner[t])
      held == have[t] \/ HasFlag(1)
  IN  /\ Doing(t, "Combine")
      /\ IF t >= Arg(t)
           THEN /\ acc' = [acc EXCEPT ![t] = value]
                /\ have' = [have EXCEPT ![t] = held]
                /\ Publishes(t, 1, value, held)
                /\ touched' = touched \cup Totals(t, t, "Write", 1)
           ELSE UNCHANGED <<acc, have, shared, touched>>
      /\ UNCHANGED <<partner, red, out>>

(* take_offset.                                                            *)
Offset(t) ==
  /\ Doing(t, "Offset")
  /\ IF t = 0
       THEN /\ acc' = [acc EXCEPT ![t] = <<>>]
            /\ have' = [have EXCEPT ![t] = FALSE]
            /\ UNCHANGED touched
       ELSE /\ acc' = [acc EXCEPT ![t] = Loaded(partial[t - 1], <<>>)]
            /\ have' = IF HasFlag(1) THEN [have EXCEPT ![t] = Loaded(partialHave[t - 1], FALSE)] ELSE have
            /\ touched' = touched \cup Totals(t, t - 1, "Read", 1)
  /\ UNCHANGED <<partner, red, shared, out>>

(* The walk of phase 3: scan_pass at each position of the chunk.           *)
Write(t) ==
  LET r == row[t]
      prefix(p) == FoldStep(1, have[t], acc[t], Walk(r, Lo(t), IF job.exclusive THEN p ELSE p + 1))
      mine == {p \in 0 .. job.extent - 1 : Lo(t) <= p /\ p < Hi(t)}
  IN  /\ Doing(t, "Write")
      /\ out' = [out EXCEPT ![r] = [i \in DOMAIN @ |->
                   @[i] \cup {prefix(p) : p \in {q \in mine : At(q) = i}}]]
      /\ acc' = [acc EXCEPT ![t] = FoldStep(1, have[t], acc[t], Walk(r, Lo(t), Hi(t)))]
      /\ have' = [have EXCEPT ![t] = FoldHave(1, have[t], Walk(r, Lo(t), Hi(t)))]
      /\ UNCHANGED <<partner, red, shared, touched>>

(* thread0_stores.                                                         *)
Store(t) ==
  /\ Doing(t, "Store")
  /\ out' = IF t = 0 THEN [out EXCEPT ![row[t]][0] = @ \cup {acc[t]}] ELSE out
  /\ UNCHANGED <<acc, have, partner, red, shared, touched>>

(* Thread 0 shares a stage's result ...                                    *)
Share(t) ==
  /\ Doing(t, "Share")
  /\ IF t = 0
       THEN /\ stage' = [stage EXCEPT ![Arg(t)] = {acc[t]}]
            /\ touched' = touched \cup {Access(t, "stage", Arg(t), "Write")}
       ELSE UNCHANGED <<stage, touched>>
  /\ UNCHANGED <<acc, have, partner, red, partial, partialHave, out>>

(* ... and all load it.                                                    *)
Take(t) ==
  /\ Doing(t, "Take")
  /\ red' = [red EXCEPT ![t] = IF Arg(t) = 1 THEN <<Loaded(stage[1], <<>>)>>
                                             ELSE Append(@, Loaded(stage[2], <<>>))]
  /\ touched' = touched \cup {Access(t, "stage", Arg(t), "Read")}
  /\ UNCHANGED <<acc, have, partner, shared, out>>

(* The columns tid, tid + BlockDim, ... of the output.                     *)
Epilogue(t) ==
  LET mine == {i \in 0 .. job.extent - 1 : i % job.block = t}
  IN  /\ Doing(t, "Epilogue")
      /\ out' = [out EXCEPT ![row[t]] = [i \in DOMAIN @ |-> IF i \in mine THEN @[i] \cup {red[t]} ELSE @[i]]]
      /\ UNCHANGED <<acc, have, partner, red, shared, touched>>

(* A block barrier: every thread is at it.                                 *)
Meet ==
  /\ \A t \in Threads : ~Ended(t) /\ pc[t] = pc[0] /\ row[t] = row[0]
  /\ Program[pc[0]] = Barrier
  /\ touched' = {}
  /\ IF pc[0] = Len(Program)
       THEN pc' = [t \in Threads |-> 1] /\ row' = [t \in Threads |-> row[t] + 1]
       ELSE pc' = [t \in Threads |-> pc[t] + 1] /\ UNCHANGED row
  /\ UNCHANGED <<job, acc, have, partner, red, shared, out>>

LiftStep(t) ==
  \/ Slice(t) \/ Chunk(t) \/ Publish(t) \/ Round(t) \/ Partner(t) \/ Combine(t)
  \/ Offset(t) \/ Write(t) \/ Store(t) \/ Share(t) \/ Take(t) \/ Epilogue(t)

LiftNext == (\E t \in Threads : LiftStep(t)) \/ Meet

(* The driver runs every thread that is not waiting.                       *)
LiftSpec == LiftInit /\ [][LiftNext]_liftVars /\ WF_liftVars(LiftNext)

-----------------------------------------------------------------------------
(* Between two barriers no Shared element is stored by one thread and      *)
(* touched by another: the lifted kernels have no DataRace, in whatever    *)
(* order the threads of a phase run, and from one row to the next.         *)
NoRace ==
  \A a, b \in touched :
    (a.by # b.by /\ a.array = b.array /\ a.slot = b.slot) => a.kind = "Read" /\ b.kind = "Read"

(* A Shared element is read only when it has been stored.                  *)
NeverUnset ==
  \A a \in touched :
    CASE a.array = "partial" -> partial[a.slot] # {}
      [] a.array = "have"    -> partialHave[a.slot] # {}
      [] a.array = "stage"   -> stage[a.slot] # {}

(* One sequence is the other in another order; neither repeats anything.   *)
Permutes(a, b) == Len(a) = Len(b) /\ Range(a) = Range(b)

(* What the serial lift stores: a fold over the elements of a row in       *)
(* ascending order, from the same start.                                   *)
Elements(r, n) == [i \in 1 .. n |-> Leaf(r, i - 1)]
Serial(s, r) == FoldStep(s, FALSE, FoldIdentity(s), Elements(r, job.extent))

(* The serial scan's prefix at element i.                                  *)
SerialPrefix(r, i) ==
  LET p == At(i) IN [n \in 1 .. (IF job.exclusive THEN p ELSE p + 1) |-> Leaf(r, At(n - 1))]

Right(r, i, value) ==
  CASE job.lift = "reduce"    -> Permutes(value, Serial(1, r))
    [] job.lift = "scan"      -> Permutes(value, SerialPrefix(r, i))
    [] job.lift = "rowreduce" -> Len(value) = 2 /\ \A s \in 1 .. 2 : Permutes(value[s], Serial(s, r))

(* Every element stored is the fold of just the elements the serial kernel *)
(* folds into it, each once: with more threads than elements, with threads *)
(* that folded nothing, and with the Shared arrays used row after row.     *)
OutputsRight == \A r \in DOMAIN out : \A i \in DOMAIN out[r] : \A v \in out[r][i] : Right(r, i, v)

(* The order the docs fix for a float sum: thread t's slice, ascending,    *)
(* then acc[t] + acc[t + s] for s = block / 2, ... 1, left operand first.  *)
TreeOrder(r) ==
  LET tree[l \in 0 .. Levels] ==
        [t \in 0 .. 2 ^ (Levels - l) - 1 |->
           IF l = 0 THEN SliceOf(t, r) ELSE tree[l - 1][t] \o tree[l - 1][t + 2 ^ (Levels - l)]]
  IN  tree[Levels][0]

(* A reduction is reproducible: its order is fixed by the block size, and  *)
(* with one thread it is the serial one.                                   *)
DocumentedOrder ==
  (job.lift = "reduce" /\ job.op = "Sum") =>
    \A r \in DOMAIN out : \A v \in out[r][0] :
      v = TreeOrder(r) /\ (job.block = 1 => v = Elements(r, job.extent))

(* Every element of the output gets stored.                                *)
Stored(r) ==
  IF job.lift = "reduce" THEN out[r][0] # {}
  ELSE \A i \in 0 .. job.extent - 1 : out[r][i] # {}

RowsComplete == <>(\A t \in Threads : Ended(t)) /\ <>(\A r \in DOMAIN out : Stored(r))
=============================================================================
