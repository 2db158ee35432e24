--------------------------- MODULE ParallelLaunch ---------------------------
(***************************************************************************)
(* What a launched kernel means (docs/ir-kernel-layer.md, 5a): its threads *)
(* run in any order between rendezvous, and no thread passes a rendezvous  *)
(* before its group is there.  The interpreter's order                     *)
(* (oracle/kernel_launch.rs) is one of these, and so must be that of any   *)
(* other spelling of the kernel.                                           *)
(*                                                                         *)
(* A kernel here calls nothing and has one array of each memory space,     *)
(* whose elements start as 0; the interpreter refuses to load a Shared     *)
(* element before it is stored, so there any value would do.               *)
(***************************************************************************)
EXTENDS Frames

CONSTANTS
  Launches,            \* the kernels: Function records with a launch
  GridSize, BlockSize,   \* blocks of the grid, threads of a block
  ClusterSize,         \* blocks of a cluster
  Size,                \* elements of an array
  Arg                  \* the launch's scalar argument

VARIABLES
  kernel,
  stack,      \* of every thread
  locals,     \* of every thread
  global,     \* the buffer
  shared,     \* every block's Shared array
  outcome     \* "running", "Done" or the trap

parallelVars == <<kernel, stack, locals, global, shared, outcome>>

Blocks == 0 .. GridSize - 1
Lanes == 0 .. BlockSize - 1
Threads == Blocks \X Lanes
Indices == 0 .. Size - 1

BlockThreads(b) == {b} \X Lanes
ClusterThreads(c) == {t \in Threads : t[1] \div ClusterSize = c}
Clusters == {b \div ClusterSize : b \in Blocks}

Who(t) == [tid |-> t[2], bid |-> t[1], dim |-> BlockSize]

FirstLocals(f) == [i \in 1 .. f.locals |-> IF i <= f.params THEN Arg ELSE Unset]

ParallelInit ==
  /\ kernel \in Launches
  /\ stack = [t \in Threads |-> <<SeqFrame(kernel.body)>>]
  /\ locals = [t \in Threads |-> FirstLocals(kernel)]
  /\ global = [i \in Indices |-> 0]
  /\ shared = [b \in Blocks |-> [i \in Indices |-> 0]]
  /\ outcome = "running"

-----------------------------------------------------------------------------
At(t, ops) == outcome = "running" /\ IsAtStatement(stack[t]) /\ StatementOf(stack[t]).op \in ops
Statement(t) == StatementOf(stack[t])
Of(t, e) == Value(e, locals[t], Who(t))
Advance(ts) == stack' = [t \in Threads |-> IF t \in ts THEN Past(stack[t]) ELSE stack[t]]

(* How a For of the IR counts (advance_for).                               *)
Same(v) == v
NextCounter(frame) == IF frame.started THEN frame.i + frame.step ELSE frame.i
Passes(frame) ==
  LET i == NextCounter(frame)
  IN  i \in lo .. hi /\ (IF frame.step > 0 THEN i < frame.end ELSE i > frame.end)

(* Threads take a step of their own; as nobody else sees it, several may   *)
(* take one at once.                                                       *)
MoveAlone(ts) ==
  LET moved(t) == Moved(stack[t], locals[t], Who(t), Same, NextCounter, Passes) IN
  /\ outcome = "running"
  /\ \A t \in ts : IsLocal(stack[t], locals[t], Who(t))
  /\ stack' = [t \in Threads |-> IF t \in ts THEN moved(t).stack ELSE stack[t]]
  /\ locals' = [t \in Threads |-> IF t \in ts THEN moved(t).locals ELSE locals[t]]
  /\ UNCHANGED <<kernel, global, shared, outcome>>

-----------------------------------------------------------------------------
(* An access to memory: the element, and what it holds.                    *)
Index(t) == Of(t, IF Statement(t).op = "Load" THEN Statement(t).value ELSE Statement(t).index)
Found(t) == IF Statement(t).space = "Shared" THEN shared[t[1]][Index(t)] ELSE global[Index(t)]

Put(t, v) ==
  IF Statement(t).space = "Shared"
  THEN shared' = [shared EXCEPT ![t[1]][Index(t)] = v] /\ UNCHANGED global
  ELSE global' = [global EXCEPT ![Index(t)] = v] /\ UNCHANGED shared

Bind(t, l, v) ==
  locals' = IF l = None THEN locals ELSE [locals EXCEPT ![t][l] = v]

Access(t) ==
  /\ At(t, {"Load", "Store", "AtomicRmw"})
  /\ Index(t) \in Indices
  /\ Advance({t})
  /\ LET st == Statement(t) IN
       CASE st.op = "Load" -> Bind(t, st.local, Found(t)) /\ UNCHANGED <<global, shared>>
         [] st.op = "Store" -> Put(t, Of(t, st.value)) /\ UNCHANGED locals
         [] st.op = "AtomicRmw" -> Put(t, Wrap(Found(t) + Of(t, st.value))) /\ Bind(t, st.local, Found(t))
  /\ UNCHANGED <<kernel, outcome>>

Trap(t) ==
  /\ \/ At(t, {"For"}) /\ HasZeroStep(stack[t], locals[t], Who(t)) /\ outcome' = "ZeroStep"
     \/ At(t, {"Load", "Store", "AtomicRmw"}) /\ Index(t) \notin Indices /\ outcome' = "OutOfBounds"
  /\ UNCHANGED <<kernel, stack, locals, global, shared>>

-----------------------------------------------------------------------------
(* All these threads are at one barrier of this scope.                     *)
Together(ts, op) == \A t, u \in ts : At(t, {op}) /\ Statement(t) = Statement(u)
TogetherAt(ts, scope) == Together(ts, "Barrier") /\ \A t \in ts : Statement(t).scope = scope

Meet ==
  /\ \/ \E b \in Blocks : TogetherAt(BlockThreads(b), "Block") /\ Advance(BlockThreads(b))
     \/ TogetherAt(Threads, "Device") /\ Advance(Threads)
     \/ \E cs \in (SUBSET Clusters) \ {{}} :
          /\ \A c \in cs : TogetherAt(ClusterThreads(c), "Cluster")
          /\ Advance(UNION {ClusterThreads(c) : c \in cs})
  /\ UNCHANGED <<kernel, locals, global, shared, outcome>>

(* A block-wide Reduce(Sum): every thread gets the sum of what all brought.*)
SumOf(b, e) ==
  LET sum[n \in 0 .. BlockSize] == IF n = 0 THEN 0 ELSE sum[n - 1] + Of(<<b, n - 1>>, e)
  IN  Wrap(sum[BlockSize])

Collect(b) ==
  /\ Together(BlockThreads(b), "Collective")
  /\ Advance(BlockThreads(b))
  /\ LET st == Statement(<<b, 0>>) IN
       locals' = [t \in Threads |->
         IF t[1] = b THEN [locals[t] EXCEPT ![st.local] = SumOf(b, st.value)] ELSE locals[t]]
  /\ UNCHANGED <<kernel, global, shared, outcome>>

Finish ==
  /\ outcome = "running"
  /\ \A t \in Threads : IsDone(stack[t])
  /\ outcome' = "Done"
  /\ UNCHANGED <<kernel, stack, locals, global, shared>>

ParallelNext ==
  \/ \E ts \in (SUBSET Threads) \ {{}} : MoveAlone(ts)
  \/ \E t \in Threads : Access(t) \/ Trap(t)
  \/ \E b \in Blocks : Collect(b)
  \/ Meet \/ Finish

ParallelSpec == ParallelInit /\ [][ParallelNext]_parallelVars
=============================================================================
