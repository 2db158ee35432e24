---------------------------- MODULE LaunchDriver ----------------------------
(***************************************************************************)
(* The per-thread driver of a launch (oracle/kernel_launch.rs): blocks in  *)
(* order, the threads of a block in lockstep phases between rendezvous,    *)
(* and the rendezvous themselves: barriers of each scope, collectives and  *)
(* MMAs.                                                                   *)
(*                                                                         *)
(* script[t] is what thread t would execute: its statements once control   *)
(* flow (kernel_resume.rs) has been followed.  Threads of one kernel       *)
(* branch on their ids and on data, so the scripts may differ; a           *)
(* rendezvous statement is known by its address (at).  Spin is a While     *)
(* whose condition the interpreter never sees become false.                *)
(***************************************************************************)
EXTENDS Scopes, Sequences, FiniteSets

CONSTANTS
  Scripts,     \* the launches to run: functions from threads to statements
  StepBound    \* the limit argument: STEP_LIMIT or max_steps

ASSUME StepAssumption == StepBound \in Nat \ {0}

VARIABLES
  script,        \* the statements each thread executes
  pc,            \* the next statement of each thread
  steps,         \* ThreadRun.steps
  status,        \* ThreadRun.status
  stops,         \* launch_checked: where each block stopped
  acquired,      \* Edges.acquired
  devEpoch, clusterEpoch, blockEpoch, subEpoch,   \* barriers released
  outcome        \* "running", "Finished" or the KernelTrap

threadVars == <<pc, steps, status>>
epochVars == <<devEpoch, clusterEpoch, blockEpoch, subEpoch>>
driverVars == <<script, threadVars, stops, acquired, epochVars, outcome>>

-----------------------------------------------------------------------------
Runnable == [is |-> "Runnable"]
Done == [is |-> "Done"]
Waiting(item) == [is |-> "Waiting", scope |-> item.scope, at |-> item.at]

(* Option<BlockStop>: None while the block may run.                        *)
NotStopped == [is |-> "None"]

IsRendezvous(item) == item.op \in {"Barrier", "Collective", "Mma"}

(* The rendezvous of a launch.                                             *)
RendezvousOf(s) ==
  {x \in UNION {{s[t][i] : i \in 1 .. Len(s[t])} : t \in Threads} : IsRendezvous(x)}

(* An address is that of one statement; a collective or an MMA is one of a *)
(* subgroup or a block.                                                    *)
ASSUME ScriptsAssumption ==
  \A s \in Scripts :
    /\ DOMAIN s = Threads
    /\ \A t \in Threads : Len(s[t]) \in Nat
    /\ \A x \in RendezvousOf(s) :
         /\ x.at \in Nat
         /\ x.scope \in {"Subgroup", "Block"} \/ (x.op = "Barrier" /\ x.scope \in {"Cluster", "Device"})
         /\ \A y \in RendezvousOf(s) : x.at = y.at => x = y

AcquireClass(item) == item.op \in {"Atomic", "Fence"} /\ Acquires(item.order)

BlockThreads(b) == {t \in Threads : BlockOf(t) = b}
SubgroupThreads(b, s) == {t \in Threads : BlockOf(t) = b /\ SubOf(t) = s}

-----------------------------------------------------------------------------
(* start_block for every block.                                            *)
DriverInit ==
  /\ script \in Scripts
  /\ pc = [t \in Threads |-> 1]
  /\ steps = [t \in Threads |-> 0]
  /\ status = [t \in Threads |-> Runnable]
  /\ stops = [b \in Blocks |-> NotStopped]
  /\ acquired = FALSE
  /\ devEpoch = 0
  /\ clusterEpoch = [c \in Clusters |-> 0]
  /\ blockEpoch = [b \in Blocks |-> 0]
  /\ subEpoch = [b \in Blocks |-> [s \in Subgroups |-> 0]]
  /\ outcome = "running"

-----------------------------------------------------------------------------
(* The block being advanced is the first that has not stopped.             *)
Advancing(b) ==
  /\ outcome = "running"
  /\ stops[b] = NotStopped
  /\ \A c \in Blocks : c < b => stops[c] # NotStopped

(* The thread a phase runs is the first runnable one: each runs until it   *)
(* is no longer runnable.                                                  *)
Running(t) ==
  /\ Advancing(BlockOf(t))
  /\ status[t] = Runnable
  /\ \A u \in BlockThreads(BlockOf(t)) : u[2] < t[2] => status[u] # Runnable

AtEnd(t) == pc[t] > Len(script[t])
Item(t) == script[t][pc[t]]

(* Mutant: off by one.                                                     *)
TicksLate(t) == steps[t] <= StepBound

(* tick: one more statement fits under the limit.                          *)
Ticks(t) == steps[t] < StepBound

(* A statement the thread goes on after.                                   *)
Step(t) ==
  /\ Running(t)
  /\ ~AtEnd(t)
  /\ ~IsRendezvous(Item(t))
  /\ Ticks(t)
  /\ steps' = [steps EXCEPT ![t] = @ + 1]
  /\ pc' = IF Item(t).op = "Spin" THEN pc ELSE [pc EXCEPT ![t] = @ + 1]
  /\ acquired' = (acquired \/ AcquireClass(Item(t)))
  /\ UNCHANGED <<script, status, stops, epochVars, outcome>>

(* A statement it waits at; the stack is left just past it.                *)
Arrive(t) ==
  /\ Running(t)
  /\ ~AtEnd(t)
  /\ IsRendezvous(Item(t))
  /\ Ticks(t)
  /\ steps' = [steps EXCEPT ![t] = @ + 1]
  /\ pc' = [pc EXCEPT ![t] = @ + 1]
  /\ status' = [status EXCEPT ![t] = Waiting(Item(t))]
  /\ UNCHANGED <<script, stops, acquired, epochVars, outcome>>

(* Its stack is empty.  Scripts have no asynchronous copies, so no thread  *)
(* is left with one it never waited for (AsyncCopies).                     *)
Finish(t) ==
  /\ Running(t)
  /\ AtEnd(t)
  /\ status' = [status EXCEPT ![t] = Done]
  /\ UNCHANGED <<script, pc, steps, stops, acquired, epochVars, outcome>>

(* StepLimit, or CrossBlockWait when an acquire has run and this block is  *)
(* not the last.                                                           *)
RunAway(t) ==
  /\ Running(t)
  /\ ~AtEnd(t)
  /\ ~Ticks(t)
  /\ outcome' = IF acquired /\ BlockOf(t) + 1 < GridSize THEN "CrossBlockWait" ELSE "StepLimit"
  /\ steps' = [steps EXCEPT ![t] = @ + 1]
  /\ UNCHANGED <<script, pc, status, stops, acquired, epochVars>>

(* A statement that traps (a DataRace, an index outside its allocation, an *)
(* unstored element, a contribution with no value): the launch ends there. *)
StatementTraps(t) ==
  /\ Running(t)
  /\ ~AtEnd(t)
  /\ Item(t).op \in {"Read", "Write", "Atomic", "Collective", "Mma"}
  /\ Ticks(t)
  /\ outcome' = "StatementTrap"
  /\ steps' = [steps EXCEPT ![t] = @ + 1]
  /\ UNCHANGED <<script, pc, status, stops, acquired, epochVars>>

-----------------------------------------------------------------------------
(* The end of a phase: no thread of the block is runnable.                 *)
PhaseOver(b) == Advancing(b) /\ \A t \in BlockThreads(b) : status[t] # Runnable

BlockDone(b) == \A t \in BlockThreads(b) : status[t] = Done

(* at_grid_barrier: all wait at one Device or Cluster barrier.             *)
AtGridBarrier(b) ==
  /\ status[<<b, 0>>].is = "Waiting"
  /\ status[<<b, 0>>].scope \in {"Device", "Cluster"}
  /\ \A t \in BlockThreads(b) : status[t] = status[<<b, 0>>]

StopBlock(b) ==
  /\ PhaseOver(b)
  /\ BlockDone(b) \/ AtGridBarrier(b)
  /\ stops' = [stops EXCEPT ![b] = status[<<b, 0>>]]
  /\ UNCHANGED <<script, threadVars, acquired, epochVars, outcome>>

(* Mutant: every rendezvous waits for the whole block.                     *)
GroupOfBlock(t) == BlockThreads(BlockOf(t))

(* group_of: the threads a rendezvous t waits at synchronises.             *)
GroupOf(t) ==
  IF status[t].scope = "Subgroup"
    THEN SubgroupThreads(BlockOf(t), SubOf(t))
    ELSE BlockThreads(BlockOf(t))

Waiters(b) == {t \in BlockThreads(b) : status[t].is = "Waiting"}

(* A member of a waiting group has finished: it can never be released.     *)
Stranded(b) == \E t \in Waiters(b) : \E u \in GroupOf(t) : status[u] = Done

(* Mutant: waiting anywhere is enough.                                     *)
ReadyAnywhere(b) ==
  {GroupOf(t) : t \in {u \in Waiters(b) : \A v \in GroupOf(u) : status[v].is = "Waiting"}}

(* The groups whose members all wait at one statement.                     *)
Ready(b) == {GroupOf(t) : t \in {u \in Waiters(b) : \A v \in GroupOf(u) : status[v] = status[u]}}

(* The statement a waiting thread is at is the one just before its pc.     *)
AtBarrier(t) == script[t][pc[t] - 1].op = "Barrier"

(* Whether the release of these groups counts a barrier of this scope: a   *)
(* collective or an MMA orders no memory and is not counted.               *)
Counted(groups, scope) ==
  {g \in groups : \E t \in g : AtBarrier(t) /\ ((status[t].scope = "Subgroup") <=> (scope = "Subgroup"))}

Release(b) ==
  LET ready == Ready(b) IN
  /\ PhaseOver(b)
  /\ ~BlockDone(b)
  /\ ~AtGridBarrier(b)
  /\ ~Stranded(b)
  /\ ready # {}
  /\ subEpoch' = [subEpoch EXCEPT ![b] =
       [s \in Subgroups |->
          IF SubgroupThreads(b, s) \in Counted(ready, "Subgroup") THEN @[s] + 1 ELSE @[s]]]
  /\ blockEpoch' = IF Counted(ready, "Block") # {} THEN [blockEpoch EXCEPT ![b] = @ + 1] ELSE blockEpoch
  /\ status' = [t \in Threads |-> IF t \in UNION ready THEN Runnable ELSE status[t]]
  /\ UNCHANGED <<script, pc, steps, stops, acquired, devEpoch, clusterEpoch, outcome>>

(* deliver and deliver_mma: the lanes' contributions have no result.  What  *)
(* other groups were let go before is lost with the launch.                *)
DeliveryTraps(b) ==
  /\ PhaseOver(b)
  /\ ~BlockDone(b)
  /\ ~AtGridBarrier(b)
  /\ ~Stranded(b)
  /\ \E g \in Ready(b) : \A t \in g : ~AtBarrier(t)
  /\ outcome' = "StatementTrap"
  /\ UNCHANGED <<script, threadVars, stops, acquired, epochVars>>

Mismatch(b) ==
  /\ PhaseOver(b)
  /\ ~BlockDone(b)
  /\ ~AtGridBarrier(b)
  /\ Stranded(b) \/ Ready(b) = {}
  /\ outcome' = "BarrierMismatch"
  /\ UNCHANGED <<script, threadVars, stops, acquired, epochVars>>

-----------------------------------------------------------------------------
(* Every block has stopped: grid_release.                                  *)
AllStopped == outcome = "running" /\ \A b \in Blocks : stops[b] # NotStopped

(* A block waits at a barrier of the grid.                                 *)
OnDevice == \E b \in Blocks : stops[b].is = "Waiting" /\ stops[b].scope = "Device"

ClusterBlocks(c) == {b \in Blocks : ClusterOfBlock(b) = c}

(* Blocks that all stopped alike.                                          *)
Agree(bs) == \A a, b \in bs : stops[a] = stops[b]

(* Mutant: finished clusters are let go again.                             *)
GoingAll == Clusters

(* The clusters let go: those whose blocks wait.                           *)
Going == {c \in Clusters : \E b \in ClusterBlocks(c) : stops[b] # Done}

(* The blocks resume: their stop is cleared and their threads run.         *)
Resume(bs) ==
  /\ stops' = [b \in Blocks |-> IF b \in bs THEN NotStopped ELSE stops[b]]
  /\ status' = [t \in Threads |-> IF BlockOf(t) \in bs THEN Runnable ELSE status[t]]
  /\ UNCHANGED <<script, pc, steps, acquired, blockEpoch, subEpoch, outcome>>

GridFinished ==
  /\ AllStopped
  /\ \A b \in Blocks : stops[b] = Done
  /\ outcome' = "Finished"
  /\ UNCHANGED <<script, threadVars, stops, acquired, epochVars>>

ReleaseGrid ==
  /\ AllStopped
  /\ OnDevice
  /\ Agree(Blocks)
  /\ devEpoch' = devEpoch + 1
  /\ UNCHANGED clusterEpoch
  /\ Resume(Blocks)

ReleaseClusters ==
  /\ AllStopped
  /\ \E b \in Blocks : stops[b] # Done
  /\ ~OnDevice
  /\ \A c \in Clusters : Agree(ClusterBlocks(c))
  /\ clusterEpoch' = [c \in Clusters |-> IF c \in Going THEN clusterEpoch[c] + 1 ELSE clusterEpoch[c]]
  /\ UNCHANGED devEpoch
  /\ Resume({b \in Blocks : ClusterOfBlock(b) \in Going})

(* Mutant: clusters that disagree are not reported.                        *)
GridMismatchOnDevice ==
  /\ AllStopped
  /\ OnDevice
  /\ ~Agree(Blocks)
  /\ outcome' = "BarrierMismatch"
  /\ UNCHANGED <<script, threadVars, stops, acquired, epochVars>>

(* Blocks that wait and can never be released.                             *)
GridMismatch ==
  /\ AllStopped
  /\ \E b \in Blocks : stops[b] # Done
  /\ IF OnDevice THEN ~Agree(Blocks) ELSE \E c \in Clusters : ~Agree(ClusterBlocks(c))
  /\ outcome' = "BarrierMismatch"
  /\ UNCHANGED <<script, threadVars, stops, acquired, epochVars>>

-----------------------------------------------------------------------------
DriverNext ==
  \/ \E t \in Threads : Step(t) \/ Arrive(t) \/ Finish(t) \/ RunAway(t) \/ StatementTraps(t)
  \/ \E b \in Blocks : StopBlock(b) \/ Release(b) \/ DeliveryTraps(b) \/ Mismatch(b)
  \/ GridFinished \/ ReleaseGrid \/ ReleaseClusters \/ GridMismatch

(* The driver is one loop in one thread of the host: it never stands still *)
(* while it has something to do.                                           *)
DriverSpec == DriverInit /\ [][DriverNext]_driverVars /\ WF_driverVars(DriverNext)

-----------------------------------------------------------------------------
Traps == {"BarrierMismatch", "StepLimit", "CrossBlockWait", "StatementTrap"}

Stops == {NotStopped, Done} \cup [is : {"Waiting"}, scope : Scope, at : Nat]

DriverTypeOK ==
  /\ DOMAIN script = Threads
  /\ pc \in [Threads -> Nat \ {0}]
  /\ steps \in [Threads -> 0 .. StepBound + 1]
  /\ status \in [Threads -> {Runnable} \cup (Stops \ {NotStopped})]
  /\ stops \in [Blocks -> Stops]
  /\ acquired \in BOOLEAN
  /\ devEpoch \in Nat
  /\ clusterEpoch \in [Clusters -> Nat]
  /\ blockEpoch \in [Blocks -> Nat]
  /\ subEpoch \in [Blocks -> [Subgroups -> Nat]]
  /\ outcome \in {"running", "Finished"} \cup Traps

-----------------------------------------------------------------------------
(* What a launch must do, said of the scripts alone.                       *)

(* Where t meets others, of the scopes at least this wide, in its first n  *)
(* statements.                                                             *)
Wide(t, scope, n) ==
  {i \in 1 .. n : IsRendezvous(script[t][i]) /\ Width(script[t][i].scope) >= Width(scope)}

(* What it meets them at there, in order: the first, the second, ...       *)
MeetsUpTo(t, scope, n) ==
  {<<Cardinality(Wide(t, scope, i)), script[t][i]>> : i \in Wide(t, scope, n)}

Meets(t, scope) == MeetsUpTo(t, scope, Len(script[t]))

MeetingScopes == {"Subgroup", "Block", "Cluster", "Device"}

(* Every thread of a scope meets the others at the same statements in the  *)
(* same order: the rule "a Barrier is defined only if every thread of its  *)
(* scope reaches it" (kernel_uniform.rs).                                  *)
Aligned ==
  \A t, u \in Threads : \A s \in MeetingScopes :
    Contains(s, t, u) => Meets(t, s) = Meets(u, s)

(* A kernel that uses barriers of both scopes that span blocks.            *)
MixesGridScopes ==
  \A s \in {"Cluster", "Device"} :
    \E t \in Threads : \E i \in 1 .. Len(script[t]) :
      script[t][i].op = "Barrier" /\ script[t][i].scope = s

(* A launch finishes only if its threads really met at every rendezvous:   *)
(* no divergent barrier is ever let through, whatever the threads' order.  *)
FinishedIsAligned == outcome = "Finished" => Aligned

(* release and grid_release report BarrierMismatch only for a kernel that  *)
(* has one, unless it mixes Cluster and Device barriers.                   *)
MismatchIsReal == outcome = "BarrierMismatch" => ~Aligned \/ MixesGridScopes

(* The statements of t behind it: a waiting thread is still at the last.   *)
Behind(t) == 1 .. (pc[t] - IF status[t].is = "Waiting" THEN 2 ELSE 1)

Passed(t, scope) ==
  Cardinality({i \in Behind(t) : script[t][i].op = "Barrier" /\ script[t][i].scope = scope})

(* The counts a stamp reads are, for every thread and whatever the driver  *)
(* is in the middle of, the barriers of each scope that thread itself has  *)
(* passed: so two accesses of a group with counts a < b have that group's  *)
(* barrier between them, for both threads.  Collectives and MMAs, which    *)
(* order no memory, are not in any count.                                  *)
EpochsCountPasses ==
  \A t \in Threads :
    /\ subEpoch[BlockOf(t)][SubOf(t)] = Passed(t, "Subgroup")
    /\ blockEpoch[BlockOf(t)] = Passed(t, "Block")
    /\ clusterEpoch[ClusterOf(t)] = Passed(t, "Cluster")
    /\ devEpoch = Passed(t, "Device")

(* A thread that does not end within the limit, counted over all phases.   *)
TooLong(t) ==
  \/ Len(script[t]) > StepBound
  \/ \E i \in 1 .. Len(script[t]) : script[t][i].op = "Spin"

(* The limit is per thread and no barrier resets it: only a thread that    *)
(* has more statements than it, or a loop without end, runs away, and a    *)
(* launch with such a thread never finishes.                               *)
LimitIsExact ==
  /\ outcome \in {"StepLimit", "CrossBlockWait"} => \E t \in Threads : TooLong(t)
  /\ outcome = "Finished" => \A t \in Threads : ~TooLong(t)

(* Every launch ends, finished or trapped, also one whose threads spin or  *)
(* never meet.                                                             *)
Ends == <>(outcome # "running")

=============================================================================
