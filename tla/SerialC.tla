------------------------------- MODULE SerialC -------------------------------
(***************************************************************************)
(* A launched kernel as serial C (unpopped-cpu-c: launch.rs, kernel.rs,    *)
(* collective.rs): which kernels are spelled, and what the C of one does.  *)
(* The blocks run one after another and, in a block, the threads; a        *)
(* barrier ends a loop over the threads, and a branch or a loop holding    *)
(* one is spelled once, for all threads, around the thread loops inside.   *)
(*                                                                         *)
(* outer is where the block is: the constructs holding a barrier that it   *)
(* is in, the innermost first.  While a thread loop runs, run is its       *)
(* statements, lane the thread it is at and mine that thread's place in    *)
(* run.                                                                    *)
(***************************************************************************)
EXTENDS Frames, Uniformity

CONSTANTS
  Launches, GridSize, BlockSize, ClusterSize, Size, Arg,   \* as in ParallelLaunch
  longLo, longHi                                         \* the range of a long long

ASSUME LongAssumption == longLo \in Int /\ longHi \in Int /\ longLo < 0 /\ 0 < longHi

VARIABLES
  kernel, locals, global, shared, outcome,   \* as in ParallelLaunch; outcome is what the C returns
  from,     \* the first statement of the phase of the grid
  blk,      \* the block the block loops are at
  outer, run, lane, mine,
  turns     \* the threads that accessed memory since the block's last barrier (history)

cursor == <<from, blk, outer, run, lane, mine>>
memory == <<locals, global, shared>>
serialVars == <<kernel, memory, outcome, cursor, turns>>

Blocks == 0 .. GridSize - 1
Lanes == 0 .. BlockSize - 1
Threads == Blocks \X Lanes
Indices == 0 .. Size - 1

-----------------------------------------------------------------------------
(* contains_barrier.                                                       *)
ContainsBarrier(st) == \E x \in Statements(<<st>>) : x.op \in Rendezvous
HasBarrier(b) == \E x \in Statements(b) : x.op \in Rendezvous

(* device_segments: the top-level barriers that cut the body into phases.  *)
Cut(st) == st.op = "Barrier" /\ st.scope \in {"Device", "Cluster"}

(* Mutant: a Return is spelled next to barriers.                           *)
AdmitStmtReturning(st, barriers) ==
  \A x \in Statements(<<st>>) :
    /\ x.op = "Barrier" => x.scope = "Block"
    /\ ~(x.op = "While" /\ HasBarrier(x.body))

(* admit_stmts, on the statements of a phase.                              *)
AdmitStmt(st, barriers) ==
  \A x \in Statements(<<st>>) :
    /\ x.op = "Barrier" => x.scope = "Block"
    /\ ~(x.op = "Return" /\ barriers)
    /\ ~(x.op = "While" /\ HasBarrier(x.body))

(* escape: a Break or Continue outside the thread loop's own loops.        *)
RECURSIVE Escapes(_), EscapesBlock(_)
Escapes(st) ==
  \/ st.op \in {"Break", "Continue"}
  \/ st.op = "If" /\ \E b \in Inner(st) : EscapesBlock(b)
EscapesBlock(b) == \E n \in DOMAIN b : Escapes(b[n])

RECURSIVE AdmitEscapes(_)
AdmitEscapes(b) ==
  \A n \in DOMAIN b :
    IF ContainsBarrier(b[n]) THEN \A c \in Inner(b[n]) : AdmitEscapes(c) ELSE ~Escapes(b[n])

(* The kernels there is C for: admit_launch, then what emission refuses.   *)
Admitted(f) ==
  /\ Accepted([fns |-> <<f>>, externs |-> <<>>, entry |-> 1])
  /\ \A n \in DOMAIN f.body : Cut(f.body[n]) \/ AdmitStmt(f.body[n], HasBarrier(f.body))
  /\ AdmitEscapes(f.body)

-----------------------------------------------------------------------------
Body == kernel.body
Me == <<blk, lane>>
Who(t) == [tid |-> t[2], bid |-> t[1], dim |-> BlockSize]
Of(t, e) == Value(e, locals[t], Who(t))

(* A block's frames at the n-th statement of the body.                     *)
BodyAt(n) == <<[SeqFrame(Body) EXCEPT !.pc = n]>>

(* The end of the phase: its cut, or the end of the body.                  *)
PhaseEnd ==
  CHOOSE n \in from .. Len(Body) + 1 :
    /\ n <= Len(Body) => Cut(Body[n])
    /\ \A m \in from .. n - 1 : ~Cut(Body[m])

FirstLocals(f) == [i \in 1 .. f.locals |-> IF i <= f.params THEN Arg ELSE Unset]

(* launched_body, device_body: before the first block.  An element of a    *)
(* thread's array of a local holds anything until the thread sets it.      *)
SerialInit ==
  /\ kernel \in {f \in Launches : Admitted(f)}
  /\ locals = [t \in Threads |-> FirstLocals(kernel)]
  /\ global = [i \in Indices |-> 0]
  /\ shared = [b \in Blocks |-> [i \in Indices |-> 0]]
  /\ outcome = "running"
  /\ from = 1 /\ blk = 0
  /\ outer = BodyAt(1)
  /\ run = <<>> /\ lane = 0 /\ mine = <<>>
  /\ turns = <<>>

-----------------------------------------------------------------------------
(* How a for of the C counts: in a long long, to which its bounds are      *)
(* converted.                                                              *)
ToLong(v) == ((v - longLo) % (longHi - longLo + 1)) + longLo

(* Mutant: the counter is a variable of the local's own type.              *)
CounterNarrow(frame) == Wrap(IF frame.started THEN frame.i + frame.step ELSE frame.i)

Counter(frame) == ToLong(IF frame.started THEN frame.i + frame.step ELSE frame.i)
Passes(frame) ==
  LET k == Counter(frame)
  IN  IF frame.step > 0 THEN k < frame.end ELSE k > frame.end

(* k += t overflows: undefined in C.  The build may have the counter wrap  *)
(* and go on, or the loop left (broken).                                   *)
Overflows(s) ==
  /\ ~IsAtStatement(s) /\ Head(s).is = "For" /\ Head(s).started
  /\ Head(s).i + Head(s).step \notin longLo .. longHi

BrokenOff(s) == IF Overflows(s) THEN BOOLEAN ELSE {FALSE}

MovedC(s, t, broken) ==
  LET HasPass(frame) == Passes(frame) /\ ~broken
  IN  Moved(s, locals[t], Who(t), ToLong, Counter, HasPass)

-----------------------------------------------------------------------------
(* Block level.                                                            *)
AtBlockLevel == outcome = "running" /\ run = <<>>
AtPhaseEnd == AtBlockLevel /\ Len(outer) = 1 /\ Head(outer).pc = PhaseEnd
Spells(ops) ==
  /\ AtBlockLevel /\ ~AtPhaseEnd
  /\ IsAtStatement(outer)
  /\ StatementOf(outer).op \in ops
  /\ ContainsBarrier(StatementOf(outer))

(* The longest stretch of statements from here on that hold no barrier.    *)
NextRun ==
  LET b == Head(outer).stmts
      pc == Head(outer).pc
      last == CHOOSE n \in pc .. Len(b) :
                /\ \A i \in pc .. n : ~ContainsBarrier(b[i])
                /\ n < Len(b) => ContainsBarrier(b[n + 1])
  IN  SubSeq(b, pc, last)

(* phases and flush_run: a loop over the threads opens.                    *)
OpenRun ==
  /\ AtBlockLevel /\ ~AtPhaseEnd
  /\ IsAtStatement(outer) /\ ~ContainsBarrier(StatementOf(outer))
  /\ run' = NextRun
  /\ mine' = <<SeqFrame(NextRun)>>
  /\ lane' = 0
  /\ UNCHANGED <<kernel, memory, outcome, from, blk, outer, turns>>

(* A barrier is where thread loops end: nothing is left to do.             *)
PassBarrier ==
  /\ Spells({"Barrier"})
  /\ outer' = Past(outer)
  /\ turns' = <<>>
  /\ UNCHANGED <<kernel, memory, outcome, from, blk, run, lane, mine>>

(* collective: every thread's contribution is stored, then the group is    *)
(* folded from its first lane on and every lane given the result.          *)
Collect ==
  /\ Spells({"Collective"})
  /\ outer' = Past(outer)
  /\ turns' = <<>>
  /\ LET st == StatementOf(outer)
         cv == [l \in Lanes |-> Of(<<blk, l>>, st.value)]
         acc[l \in Lanes] == IF l = 0 THEN cv[0] ELSE Wrap(acc[l - 1] + cv[l])
     IN  locals' = [t \in Threads |->
           IF t[1] = blk THEN [locals[t] EXCEPT ![st.local] = acc[BlockSize - 1]] ELSE locals[t]]
  /\ UNCHANGED <<kernel, global, shared, outcome, from, blk, run, lane, mine>>

(* block_if: the condition is read at thread 0.                            *)
BlockIf ==
  /\ Spells({"If"})
  /\ outer' = MovedC(outer, <<blk, 0>>, FALSE).stack
  /\ UNCHANGED <<kernel, memory, outcome, from, blk, run, lane, mine, turns>>

(* block_for: the bounds are read at thread 0.                             *)
BlockFor ==
  /\ Spells({"For"})
  /\ IF HasZeroStep(outer, locals[<<blk, 0>>], Who(<<blk, 0>>))
     THEN outcome' = "ZeroStep" /\ UNCHANGED outer
     ELSE outer' = MovedC(outer, <<blk, 0>>, FALSE).stack /\ UNCHANGED outcome
  /\ UNCHANGED <<kernel, memory, from, blk, run, lane, mine, turns>>

(* Mutant: the counter is set for thread 0 only.                           *)
BlockTurnFirst ==
  /\ AtBlockLevel /\ ~AtPhaseEnd /\ ~IsAtStatement(outer)
  /\ \E broken \in BrokenOff(outer) : LET moved == MovedC(outer, <<blk, 0>>, broken) IN
       /\ outer' = moved.stack
       /\ locals' = [locals EXCEPT ![<<blk, 0>>] = moved.locals]
  /\ UNCHANGED <<kernel, global, shared, outcome, from, blk, run, lane, mine, turns>>

(* The end of a block, or of a pass: the loop's counter is copied to every *)
(* thread.                                                                 *)
BlockTurn ==
  /\ AtBlockLevel /\ ~AtPhaseEnd /\ ~IsAtStatement(outer)
  /\ \E broken \in BrokenOff(outer) :
     LET moved == MovedC(outer, <<blk, 0>>, broken)
         set(l) == IF Head(outer).is = "For" /\ moved.stack # Tail(outer)
                   THEN [l EXCEPT ![Head(outer).local] = moved.locals[Head(outer).local]] ELSE l
     IN  /\ outer' = moved.stack
         /\ locals' = [t \in Threads |-> IF t[1] = blk THEN set(locals[t]) ELSE locals[t]]
  /\ UNCHANGED <<kernel, global, shared, outcome, from, blk, run, lane, mine, turns>>

(* The block loops: the next block takes this phase.                       *)
NextBlock ==
  /\ AtPhaseEnd
  /\ blk + 1 \in Blocks
  /\ blk' = blk + 1
  /\ outer' = BodyAt(from)
  /\ turns' = <<>>
  /\ UNCHANGED <<kernel, memory, outcome, from, run, lane, mine>>

(* device_body: every block has come to the cut.                           *)
NextPhase ==
  /\ AtPhaseEnd
  /\ blk + 1 \notin Blocks
  /\ PhaseEnd <= Len(Body)
  /\ from' = PhaseEnd + 1
  /\ blk' = 0
  /\ outer' = BodyAt(PhaseEnd + 1)
  /\ turns' = <<>>
  /\ UNCHANGED <<kernel, memory, outcome, run, lane, mine>>

ReturnZero ==
  /\ AtPhaseEnd
  /\ blk + 1 \notin Blocks
  /\ PhaseEnd > Len(Body)
  /\ outcome' = "Done"
  /\ UNCHANGED <<kernel, memory, cursor, turns>>

-----------------------------------------------------------------------------
(* Inside a thread loop.                                                   *)
InRun == outcome = "running" /\ run # <<>>
AtAccess == InRun /\ IsAtStatement(mine) /\ StatementOf(mine).op \in {"Load", "Store", "AtomicRmw"}

ThreadMove ==
  /\ InRun
  /\ IsLocal(mine, locals[Me], Who(Me))
  /\ \E broken \in BrokenOff(mine) : LET moved == MovedC(mine, Me, broken) IN
       /\ mine' = moved.stack
       /\ locals' = [locals EXCEPT ![Me] = moved.locals]
  /\ UNCHANGED <<kernel, global, shared, outcome, from, blk, outer, run, lane, turns>>

Offset == LET st == StatementOf(mine) IN Of(Me, IF st.op = "Load" THEN st.value ELSE st.index)
Element == IF StatementOf(mine).space = "Shared" THEN shared[blk][Offset] ELSE global[Offset]
Put(v) ==
  IF StatementOf(mine).space = "Shared"
  THEN shared' = [shared EXCEPT ![blk][Offset] = v] /\ UNCHANGED global
  ELSE global' = [global EXCEPT ![Offset] = v] /\ UNCHANGED shared
Bind(l, v) == locals' = IF l = None THEN locals ELSE [locals EXCEPT ![Me][l] = v]

TakesTurn == turns' = IF turns # <<>> /\ turns[Len(turns)] = lane THEN turns ELSE Append(turns, lane)

(* stmt and atomic_rmw, after the bounds check of address.                 *)
ThreadAccess ==
  /\ AtAccess
  /\ Offset \in Indices
  /\ mine' = Past(mine)
  /\ TakesTurn
  /\ LET st == StatementOf(mine) IN
       CASE st.op = "Load" -> Bind(st.local, Element) /\ UNCHANGED <<global, shared>>
         [] st.op = "Store" -> Put(Of(Me, st.value)) /\ UNCHANGED locals
         [] st.op = "AtomicRmw" -> Put(Wrap(Element + Of(Me, st.value))) /\ Bind(st.local, Element)
  /\ UNCHANGED <<kernel, outcome, from, blk, outer, run, lane>>

(* return 1 and return 2.                                                  *)
ThreadTrap ==
  /\ InRun
  /\ \/ AtAccess /\ Offset \notin Indices /\ outcome' = "OutOfBounds"
     \/ HasZeroStep(mine, locals[Me], Who(Me)) /\ outcome' = "ZeroStep"
  /\ UNCHANGED <<kernel, memory, cursor, turns>>

(* The thread loop goes on to the next thread, or is over.                 *)
NextThread ==
  /\ InRun
  /\ IsDone(mine)
  /\ IF lane + 1 \in Lanes
     THEN lane' = lane + 1 /\ mine' = <<SeqFrame(run)>> /\ UNCHANGED <<run, outer>>
     ELSE /\ run' = <<>> /\ mine' = <<>> /\ lane' = 0
          /\ outer' = Push([Head(outer) EXCEPT !.pc = @ + Len(run)], Tail(outer))
  /\ UNCHANGED <<kernel, memory, outcome, from, blk, turns>>

SerialNext ==
  \/ OpenRun \/ PassBarrier \/ Collect \/ BlockIf \/ BlockFor \/ BlockTurn
  \/ NextBlock \/ NextPhase \/ ReturnZero
  \/ ThreadMove \/ ThreadAccess \/ ThreadTrap \/ NextThread

SerialSpec == SerialInit /\ [][SerialNext]_serialVars /\ WF_serialVars(SerialNext)

-----------------------------------------------------------------------------
(* Where each thread is in its own program: those of earlier blocks at the *)
(* end of the phase, those of later ones at its start; in a thread loop,   *)
(* earlier threads behind the run and later ones before it.                *)
InType(s) ==
  [n \in DOMAIN s |->
     IF s[n].is = "For"
     THEN [s[n] EXCEPT !.i = Wrap(@), !.end = Wrap(@), !.step = Wrap(@)] ELSE s[n]]

Ahead(n) == Push([Head(outer) EXCEPT !.pc = @ + n], Tail(outer))

StackOf(t) ==
  CASE t[1] < blk -> BodyAt(PhaseEnd)
    [] t[1] > blk -> BodyAt(from)
    [] run # <<>> /\ t[2] < lane -> InType(Ahead(Len(run)))
    [] run # <<>> /\ t[2] = lane ->
         InType(SubSeq(mine, 1, Len(mine) - 1) \o Ahead(Outermost(mine).pc - 1))
    [] OTHER -> InType(outer)

P == INSTANCE ParallelLaunch WITH stack <- [t \in Threads |-> StackOf(t)]

(* The C of an admitted kernel is one of the kernel's own executions: each *)
(* of its steps is a step of one thread, or of all threads of a block that *)
(* only they see, or all of them meeting (launch.rs:44).                   *)
IsOneOrder == P!ParallelSpec

(* unpopped-cpu-c/tests/kernel_launch_emit_agrees.rs:2: "The serialized    *)
(* thread-loop C agrees with the launch interpreter", also when the        *)
(* locals' type has values that no long long has, or all that it has.      *)
AgreesWithInterpreter == P!ParallelSpec

(* Every sum of two values of the locals' type is a long long: a counter   *)
(* less than its end goes one step past it and no further.                 *)
SumsFit == longLo <= 2 * lo /\ 2 * hi <= longHi

(* Where a long long is wider than the locals, C without a while comes to  *)
(* an end, also when a counter comes to the end of its type                *)
(* (kernel.rs:415-416, "a narrow counter type cannot overflow the loop     *)
(* itself").                                                               *)
LoopsEnd ==
  SumsFit /\ (\A st \in Statements(kernel.body) : st.op # "While") => <>(outcome # "running")

(* launch.rs:43-44: "each thread running to the next barrier before the    *)
(* next thread starts": between two barriers no thread is come back to.    *)
OneTurnEach ==
  \A i, j \in DOMAIN turns : i # j => turns[i] # turns[j]
=============================================================================
