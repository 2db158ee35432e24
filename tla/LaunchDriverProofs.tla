------------------------- MODULE LaunchDriverProofs -------------------------
(***************************************************************************)
(* Proofs about the launch driver, for every launch shape, every set of    *)
(* scripts and every step limit: its type invariant, that its barrier      *)
(* counts are for each thread the barriers that thread has passed, that    *)
(* its step limit is exact, that a launch that finishes had every barrier, *)
(* collective and MMA reached by all the threads of its scope, and that a  *)
(* BarrierMismatch is reported only of one that had not.                   *)
(***************************************************************************)
EXTENDS LaunchDriver, FiniteSetTheorems, TLAPS

-----------------------------------------------------------------------------
(* The strengthening, part by part.                                        *)

(* A thread is within its script or at its end.                            *)
Placed == \A t \in Threads : pc[t] \in 1 .. Len(script[t]) + 1

(* A waiting thread is just past the rendezvous it waits at.               *)
WaitsAtItem ==
  \A t \in Threads : status[t].is = "Waiting" =>
    /\ pc[t] > 1
    /\ IsRendezvous(script[t][pc[t] - 1])
    /\ status[t] = Waiting(script[t][pc[t] - 1])

DoneAtEnd == \A t \in Threads : status[t] = Done => pc[t] = Len(script[t]) + 1

(* A block that stopped has all its threads at one place, a barrier of the *)
(* grid or the end.                                                        *)
BlocksStopped ==
  \A b \in Blocks : stops[b] # NotStopped =>
    /\ \A t \in BlockThreads(b) : status[t] = stops[b]
    /\ stops[b].is = "Waiting" => stops[b].scope \in {"Cluster", "Device"}

(* Every statement behind a thread has been counted, once if none loops.   *)
StepsCount ==
  \A t \in Threads :
    /\ \A i \in 1 .. pc[t] - 1 : script[t][i].op # "Spin"
    /\ outcome \in {"running", "Finished"} =>
         /\ pc[t] - 1 <= steps[t]
         /\ steps[t] <= StepBound
         /\ steps[t] # pc[t] - 1 => pc[t] <= Len(script[t]) /\ script[t][pc[t]].op = "Spin"

(* What the outcome says of the threads.                                   *)
OutcomeIsReal ==
  /\ outcome \in {"StepLimit", "CrossBlockWait"} => \E t \in Threads : TooLong(t)
  /\ outcome = "Finished" => \A t \in Threads : status[t] = Done

Controlled ==
  /\ script \in Scripts
  /\ DriverTypeOK
  /\ Placed
  /\ WaitsAtItem
  /\ DoneAtEnd
  /\ BlocksStopped

DriverInv == Controlled /\ StepsCount /\ OutcomeIsReal /\ EpochsCountPasses

-----------------------------------------------------------------------------
(* Places: where a thread or a block is.                                   *)

(* The kinds of places are told apart by their tag.                        *)
LEMMA Tags ==
  /\ Runnable.is = "Runnable" /\ Done.is = "Done" /\ NotStopped.is = "None"
  /\ \A x : Waiting(x).is = "Waiting" /\ Waiting(x).scope = x.scope /\ Waiting(x).at = x.at
BY DEF Runnable, Done, NotStopped, Waiting

(* So a place is none of the others.                                       *)
LEMMA PlacesDiffer ==
  /\ Runnable # Done /\ Runnable # NotStopped /\ Done # NotStopped
  /\ \A x : Waiting(x) # Runnable /\ Waiting(x) # Done /\ Waiting(x) # NotStopped
<1>1. Runnable.is # Done.is /\ Runnable.is # NotStopped.is /\ Done.is # NotStopped.is
  BY Tags
<1>2. \A x : Waiting(x).is # Runnable.is /\ Waiting(x).is # Done.is /\ Waiting(x).is # NotStopped.is
  BY Tags
<1> QED BY <1>1, <1>2

(* Where a thread may be.                                                  *)
Places == {Runnable} \cup (Stops \ {NotStopped})

LEMMA PlaceTypes ==
  /\ Runnable \in Places
  /\ Done \in Places /\ Done \in Stops /\ NotStopped \in Stops
  /\ \A x : x.scope \in Scope /\ x.at \in Nat => Waiting(x) \in Places /\ Waiting(x) \in Stops
  /\ \A p \in Places : p.is = "Waiting" \/ p = Runnable \/ p = Done
  /\ \A p \in Stops : p.is = "Waiting" \/ p = NotStopped \/ p = Done
  /\ \A p \in Places : p # Runnable => p \in Stops
<1>1. \A x : x.scope \in Scope /\ x.at \in Nat => Waiting(x) \in Stops
  BY DEF Waiting, Stops
<1>2. \A x : Waiting(x) # NotStopped
  BY PlacesDiffer
<1>3. \A p \in [is : {"Waiting"}, scope : Scope, at : Nat] : p.is = "Waiting"
  OBVIOUS
<1>4. \A p \in Stops : p.is = "Waiting" \/ p = NotStopped \/ p = Done
  BY <1>3 DEF Stops
<1>5. Done \in Stops /\ NotStopped \in Stops
  BY DEF Stops
<1> QED BY <1>1, <1>2, <1>4, <1>5, PlacesDiffer DEF Places

-----------------------------------------------------------------------------
(* Scripts.                                                                *)

(* A rendezvous of a script has an address and a scope of its kind, and    *)
(* another with its address is the same statement.                         *)
LEMMA RendezvousType ==
  ASSUME script \in Scripts, NEW t \in Threads, NEW i \in 1 .. Len(script[t]), IsRendezvous(script[t][i])
  PROVE  /\ script[t][i].at \in Nat
         /\ script[t][i].scope \in Scope
         /\ \/ script[t][i].scope \in {"Subgroup", "Block"}
            \/ script[t][i].op = "Barrier" /\ script[t][i].scope \in {"Cluster", "Device"}
<1>1. script[t][i] \in RendezvousOf(script)
  BY DEF RendezvousOf
<1> QED BY <1>1, ScriptsAssumption DEF Scope

LEMMA SameAddress ==
  ASSUME script \in Scripts,
         NEW t \in Threads, NEW i \in 1 .. Len(script[t]), IsRendezvous(script[t][i]),
         NEW u \in Threads, NEW j \in 1 .. Len(script[u]), IsRendezvous(script[u][j]),
         script[t][i].at = script[u][j].at
  PROVE  script[t][i].op = script[u][j].op /\ script[t][i].scope = script[u][j].scope
<1>1. script[t][i] \in RendezvousOf(script) /\ script[u][j] \in RendezvousOf(script)
  BY DEF RendezvousOf
<1> QED BY <1>1, ScriptsAssumption

(* The length of a script, and the place of a thread in it.                *)
LEMMA PlaceInScript ==
  ASSUME Controlled, NEW t \in Threads
  PROVE  Len(script[t]) \in Nat /\ pc[t] \in Nat \ {0} /\ pc[t] <= Len(script[t]) + 1
<1>1. Len(script[t]) \in Nat
  BY ScriptsAssumption DEF Controlled
<1> QED BY <1>1 DEF Controlled, Placed

(* What a waiting thread waits at.                                         *)
LEMMA WaitedItem ==
  ASSUME Controlled, NEW t \in Threads, status[t].is = "Waiting"
  PROVE  /\ pc[t] - 1 \in 1 .. Len(script[t])
         /\ IsRendezvous(script[t][pc[t] - 1])
         /\ status[t].scope = script[t][pc[t] - 1].scope
         /\ status[t].at = script[t][pc[t] - 1].at
<1>1. pc[t] > 1 /\ IsRendezvous(script[t][pc[t] - 1]) /\ status[t] = Waiting(script[t][pc[t] - 1])
  BY DEF Controlled, WaitsAtItem
<1>2. pc[t] - 1 \in 1 .. Len(script[t])
  BY <1>1, PlaceInScript
<1> QED BY <1>1, <1>2, Tags

(* Threads that wait alike wait at statements of one operation.            *)
LEMMA WaitAlike ==
  ASSUME Controlled, NEW t \in Threads, NEW u \in Threads, status[t].is = "Waiting", status[t] = status[u]
  PROVE  AtBarrier(t) <=> AtBarrier(u)
<1>1. /\ pc[t] - 1 \in 1 .. Len(script[t]) /\ IsRendezvous(script[t][pc[t] - 1])
      /\ pc[u] - 1 \in 1 .. Len(script[u]) /\ IsRendezvous(script[u][pc[u] - 1])
      /\ script[t][pc[t] - 1].at = script[u][pc[u] - 1].at
  BY WaitedItem
<1>2. script[t][pc[t] - 1].op = script[u][pc[u] - 1].op
  BY <1>1, SameAddress DEF Controlled
<1> QED BY <1>2 DEF AtBarrier

-----------------------------------------------------------------------------
(* The type invariant and the places of threads and blocks.                *)

(* The block a thread is in, and the first thread of a block.              *)
LEMMA ThreadsOfBlock ==
  /\ \A t \in Threads : BlockOf(t) \in Blocks /\ t \in BlockThreads(BlockOf(t))
  /\ \A b \in Blocks : <<b, 0>> \in BlockThreads(b)
  /\ \A b \in Blocks : BlockThreads(b) \subseteq Threads
  /\ \A t \in Threads : ClusterOf(t) = ClusterOfBlock(BlockOf(t)) /\ ClusterOf(t) \in Clusters /\ SubOf(t) \in Subgroups
<1>1. \A t \in Threads : BlockOf(t) \in Blocks
  BY DEF Threads, BlockOf
<1>2. \A b \in Blocks : <<b, 0>> \in Threads /\ BlockOf(<<b, 0>>) = b
  BY LaunchAssumption DEF Threads, BlockOf
<1>3. \A t \in Threads : ClusterOf(t) = ClusterOfBlock(BlockOf(t)) /\ ClusterOf(t) \in Clusters /\ SubOf(t) \in Subgroups
  BY <1>1 DEF ClusterOf, ClusterOfBlock, BlockOf, Clusters, Subgroups
<1> QED BY <1>1, <1>2, <1>3 DEF BlockThreads

LEMMA ControlledInit ==
  ASSUME DriverInit
  PROVE  Controlled
<1>1. script \in Scripts /\ DOMAIN script = Threads /\ \A t \in Threads : Len(script[t]) \in Nat
  BY ScriptsAssumption DEF DriverInit
<1>2. DriverTypeOK
  <2>1. status \in [Threads -> {Runnable} \cup (Stops \ {NotStopped})] /\ stops \in [Blocks -> Stops]
    BY PlaceTypes, Zenon DEF DriverInit, Places
  <2>2. 0 \in 0 .. StepBound + 1
    BY StepAssumption
  <2>3. pc \in [Threads -> Nat \ {0}] /\ steps \in [Threads -> 0 .. StepBound + 1]
    BY <2>2 DEF DriverInit
  <2>4. /\ devEpoch \in Nat /\ clusterEpoch \in [Clusters -> Nat]
        /\ blockEpoch \in [Blocks -> Nat] /\ subEpoch \in [Blocks -> [Subgroups -> Nat]]
        /\ acquired \in BOOLEAN /\ outcome = "running"
    BY DEF DriverInit
  <2> QED BY <1>1, <2>1, <2>3, <2>4 DEF DriverTypeOK
<1>3. Placed
  BY <1>1 DEF DriverInit, Placed
<1>4. WaitsAtItem /\ DoneAtEnd
  BY Tags, PlacesDiffer DEF DriverInit, WaitsAtItem, DoneAtEnd
<1>5. BlocksStopped
  BY DEF DriverInit, BlocksStopped
<1> QED BY <1>1, <1>2, <1>3, <1>4, <1>5 DEF Controlled

(* One thread moves: to its next statement, to a rendezvous it waits at,   *)
(* to its end, or nowhere.  No block that has stopped is concerned.        *)
LEMMA OneThreadMoves ==
  ASSUME Controlled, NEW t \in Threads, stops[BlockOf(t)] = NotStopped,
         NEW n \in {pc[t], pc[t] + 1}, n <= Len(script[t]) + 1,
         NEW p \in Places,
         p.is = "Waiting" => /\ n = pc[t] + 1
                             /\ IsRendezvous(script[t][pc[t]])
                             /\ p = Waiting(script[t][pc[t]]),
         p = Done => n = Len(script[t]) + 1,
         script' = script, stops' = stops, UNCHANGED epochVars,
         pc' = [pc EXCEPT ![t] = n],
         status' = [status EXCEPT ![t] = p],
         steps' \in [Threads -> 0 .. StepBound + 1],
         acquired' \in BOOLEAN,
         outcome' \in {"running", "Finished"} \cup Traps
  PROVE  Controlled'
<1>1. /\ pc \in [Threads -> Nat \ {0}] /\ status \in [Threads -> Places]
      /\ Len(script[t]) \in Nat
  BY PlaceInScript DEF Controlled, DriverTypeOK, Places
<1>2. n \in Nat \ {0}
  BY <1>1
<1>3. /\ pc' \in [Threads -> Nat \ {0}] /\ pc'[t] = n
      /\ \A u \in Threads : u # t => pc'[u] = pc[u]
  BY <1>1, <1>2
<1>4. /\ status' \in [Threads -> Places] /\ status'[t] = p
      /\ \A u \in Threads : u # t => status'[u] = status[u]
  BY <1>1
<1>5. DriverTypeOK'
  BY <1>3, <1>4 DEF Controlled, DriverTypeOK, epochVars, Places
<1>6. Placed'
  BY <1>1, <1>2, <1>3 DEF Controlled, Placed
<1>7. WaitsAtItem'
  <2> SUFFICES ASSUME NEW u \in Threads, status'[u].is = "Waiting"
               PROVE  /\ pc'[u] > 1
                      /\ IsRendezvous(script[u][pc'[u] - 1])
                      /\ status'[u] = Waiting(script[u][pc'[u] - 1])
    BY DEF WaitsAtItem
  <2>1. CASE u # t
    BY <2>1, <1>3, <1>4 DEF Controlled, WaitsAtItem
  <2>2. CASE u = t
    <3>1. n = pc[t] + 1 /\ n > 1 /\ n - 1 = pc[t]
      BY <2>2, <1>1, <1>4
    <3> QED BY <2>2, <3>1, <1>3, <1>4
  <2> QED BY <2>1, <2>2
<1>8. DoneAtEnd'
  BY <1>3, <1>4 DEF Controlled, DoneAtEnd
<1>9. BlocksStopped'
  <2> SUFFICES ASSUME NEW b \in Blocks, stops[b] # NotStopped
               PROVE  /\ \A u \in BlockThreads(b) : status'[u] = stops[b]
                      /\ stops[b].is = "Waiting" => stops[b].scope \in {"Cluster", "Device"}
    BY DEF BlocksStopped
  <2>1. \A u \in BlockThreads(b) : u \in Threads /\ u # t
    BY DEF BlockThreads
  <2> QED BY <2>1, <1>4 DEF Controlled, BlocksStopped
<1> QED BY <1>5, <1>6, <1>7, <1>8, <1>9 DEF Controlled

(* What is so when a thread runs.                                          *)
LEMMA RunningFacts ==
  ASSUME Controlled, NEW t \in Threads, Running(t)
  PROVE  outcome = "running" /\ stops[BlockOf(t)] = NotStopped /\ status[t] = Runnable
BY DEF Running, Advancing

(* Counting one more statement of a thread that is within the limit, or is *)
(* stopped at it.                                                          *)
LEMMA StepsType ==
  ASSUME Controlled, NEW t \in Threads, steps[t] <= StepBound, steps' = [steps EXCEPT ![t] = @ + 1]
  PROVE  steps' \in [Threads -> 0 .. StepBound + 1]
<1>1. steps \in [Threads -> 0 .. StepBound + 1] /\ StepBound \in Nat
  BY StepAssumption DEF Controlled, DriverTypeOK
<1>2. steps[t] + 1 \in 0 .. StepBound + 1
  BY <1>1
<1> QED BY <1>1, <1>2

LEMMA StepControlled ==
  ASSUME Controlled, NEW t \in Threads, Step(t)
  PROVE  Controlled'
<1>1. Len(script[t]) \in Nat /\ pc[t] \in Nat \ {0} /\ pc[t] <= Len(script[t])
  BY PlaceInScript DEF Step, AtEnd
<1>2. stops[BlockOf(t)] = NotStopped /\ status[t] = Runnable /\ outcome = "running"
  BY RunningFacts DEF Step
<1>3. /\ pc \in [Threads -> Nat \ {0}] /\ status \in [Threads -> Places]
      /\ acquired \in BOOLEAN /\ steps \in [Threads -> 0 .. StepBound + 1]
  BY DEF Controlled, DriverTypeOK, Places
<1>4. PICK n \in {pc[t], pc[t] + 1} : pc' = [pc EXCEPT ![t] = n]
  BY <1>3 DEF Step
<1>5. status' = [status EXCEPT ![t] = Runnable]
  BY <1>2, <1>3 DEF Step
<1>6. acquired' \in BOOLEAN
  BY <1>3 DEF Step
<1>7. steps[t] <= StepBound
  BY <1>3, StepAssumption DEF Step, Ticks
<1>8. steps' \in [Threads -> 0 .. StepBound + 1]
  BY <1>7, StepsType DEF Step
<1>9. n <= Len(script[t]) + 1
  BY <1>1
<1>10. /\ Runnable \in Places /\ Runnable # Done /\ Runnable.is # "Waiting"
       /\ script' = script /\ stops' = stops /\ UNCHANGED epochVars /\ outcome' = outcome
  BY Tags, PlacesDiffer, PlaceTypes DEF Step
<1> QED BY <1>2, <1>4, <1>5, <1>6, <1>8, <1>9, <1>10, OneThreadMoves

LEMMA ArriveControlled ==
  ASSUME Controlled, NEW t \in Threads, Arrive(t)
  PROVE  Controlled'
<1>1. Len(script[t]) \in Nat /\ pc[t] \in Nat \ {0} /\ pc[t] <= Len(script[t])
  BY PlaceInScript DEF Arrive, AtEnd
<1>2. stops[BlockOf(t)] = NotStopped /\ outcome = "running"
  BY RunningFacts DEF Arrive
<1>3. acquired \in BOOLEAN /\ steps \in [Threads -> 0 .. StepBound + 1]
  BY DEF Controlled, DriverTypeOK
<1>4. IsRendezvous(script[t][pc[t]]) /\ Item(t) = script[t][pc[t]]
  BY DEF Arrive, Item
<1>5. Waiting(Item(t)) \in Places
  BY <1>1, <1>4, RendezvousType, PlaceTypes DEF Controlled
<1>6. steps[t] <= StepBound
  BY <1>3, StepAssumption DEF Arrive, Ticks
<1>7. steps' \in [Threads -> 0 .. StepBound + 1]
  BY <1>6, StepsType DEF Arrive
<1>8. pc' = [pc EXCEPT ![t] = pc[t] + 1] /\ status' = [status EXCEPT ![t] = Waiting(Item(t))]
  BY DEF Arrive
<1>9. pc[t] + 1 <= Len(script[t]) + 1
  BY <1>1
<1> QED BY <1>2, <1>3, <1>4, <1>5, <1>7, <1>8, <1>9, OneThreadMoves, PlacesDiffer DEF Arrive

LEMMA FinishControlled ==
  ASSUME Controlled, NEW t \in Threads, Finish(t)
  PROVE  Controlled'
<1>1. pc[t] = Len(script[t]) + 1
  BY PlaceInScript DEF Finish, AtEnd
<1>2. stops[BlockOf(t)] = NotStopped /\ outcome = "running"
  BY RunningFacts DEF Finish
<1>3. /\ acquired \in BOOLEAN /\ steps \in [Threads -> 0 .. StepBound + 1]
      /\ pc \in [Threads -> Nat \ {0}]
  BY DEF Controlled, DriverTypeOK
<1>4. pc' = [pc EXCEPT ![t] = pc[t]]
  BY <1>3 DEF Finish
<1>5. pc[t] <= Len(script[t]) + 1
  BY PlaceInScript
<1> QED BY <1>1, <1>2, <1>3, <1>4, <1>5, OneThreadMoves, Tags, PlaceTypes DEF Finish

(* The launch ends in the middle of a phase: nobody moves.                 *)
LEMMA TrapControlled ==
  ASSUME Controlled, NEW t \in Threads, RunAway(t) \/ StatementTraps(t), steps[t] <= StepBound
  PROVE  Controlled'
<1>1. stops[BlockOf(t)] = NotStopped /\ status[t] = Runnable
  BY RunningFacts DEF RunAway, StatementTraps
<1>2. acquired \in BOOLEAN /\ pc \in [Threads -> Nat \ {0}] /\ status \in [Threads -> Places]
  BY DEF Controlled, DriverTypeOK, Places
<1>3. pc' = [pc EXCEPT ![t] = pc[t]] /\ status' = [status EXCEPT ![t] = Runnable]
  BY <1>1, <1>2 DEF RunAway, StatementTraps
<1>4. steps' \in [Threads -> 0 .. StepBound + 1]
  BY StepsType DEF RunAway, StatementTraps
<1>5. outcome' \in Traps
  BY DEF RunAway, StatementTraps, Traps
<1>6. pc[t] <= Len(script[t]) + 1
  BY PlaceInScript
<1> QED BY <1>1, <1>2, <1>3, <1>4, <1>5, <1>6, OneThreadMoves, Tags, PlacesDiffer, PlaceTypes
        DEF RunAway, StatementTraps

(* Threads that wait are let go on, or none is; blocks stop or resume.     *)
LEMMA BlocksMove ==
  ASSUME Controlled,
         script' = script, pc' = pc, steps' = steps, acquired' = acquired,
         status' \in [Threads -> Places],
         \A t \in Threads : status'[t] = status[t] \/ status'[t] = Runnable,
         stops' \in [Blocks -> Stops],
         \A b \in Blocks : stops'[b] # NotStopped =>
           /\ \A t \in BlockThreads(b) : status'[t] = stops'[b]
           /\ stops'[b].is = "Waiting" => stops'[b].scope \in {"Cluster", "Device"},
         devEpoch' \in Nat, clusterEpoch' \in [Clusters -> Nat],
         blockEpoch' \in [Blocks -> Nat], subEpoch' \in [Blocks -> [Subgroups -> Nat]],
         outcome' \in {"running", "Finished"} \cup Traps
  PROVE  Controlled'
<1>1. DriverTypeOK'
  BY DEF Controlled, DriverTypeOK, Places
<1>2. Placed'
  BY DEF Controlled, Placed
<1>3. WaitsAtItem'
  <2> SUFFICES ASSUME NEW t \in Threads, status'[t].is = "Waiting"
               PROVE  /\ pc[t] > 1
                      /\ IsRendezvous(script[t][pc[t] - 1])
                      /\ status'[t] = Waiting(script[t][pc[t] - 1])
    BY DEF WaitsAtItem
  <2>1. status'[t] = status[t]
    BY Tags
  <2> QED BY <2>1 DEF Controlled, WaitsAtItem
<1>4. DoneAtEnd'
  <2> SUFFICES ASSUME NEW t \in Threads, status'[t] = Done
               PROVE  pc[t] = Len(script[t]) + 1
    BY DEF DoneAtEnd
  <2>1. status'[t] = status[t]
    BY PlacesDiffer
  <2> QED BY <2>1 DEF Controlled, DoneAtEnd
<1>5. BlocksStopped'
  BY DEF BlocksStopped
<1> QED BY <1>1, <1>2, <1>3, <1>4, <1>5 DEF Controlled

(* The types again, in the form the steps of blocks need them.             *)
LEMMA BlockTypes ==
  ASSUME Controlled
  PROVE  /\ status \in [Threads -> Places] /\ stops \in [Blocks -> Stops]
         /\ devEpoch \in Nat /\ clusterEpoch \in [Clusters -> Nat]
         /\ blockEpoch \in [Blocks -> Nat] /\ subEpoch \in [Blocks -> [Subgroups -> Nat]]
         /\ outcome \in {"running", "Finished"} \cup Traps
         /\ \A b \in Blocks : stops[b] # NotStopped =>
              /\ \A t \in BlockThreads(b) : status[t] = stops[b]
              /\ stops[b].is = "Waiting" => stops[b].scope \in {"Cluster", "Device"}
BY DEF Controlled, DriverTypeOK, Places, BlocksStopped

(* Where a block stops all its threads are: at their end or at one barrier *)
(* of the grid (at_grid_barrier).                                          *)
LEMMA StopsTogether ==
  ASSUME Controlled, NEW b \in Blocks, StopBlock(b)
  PROVE  /\ \A t \in BlockThreads(b) : status[t] = status[<<b, 0>>]
         /\ status[<<b, 0>>] \in Stops \ {NotStopped}
         /\ status[<<b, 0>>].is = "Waiting" => status[<<b, 0>>].scope \in {"Cluster", "Device"}
<1>1. <<b, 0>> \in BlockThreads(b) /\ <<b, 0>> \in Threads
  BY ThreadsOfBlock
<1>2. CASE BlockDone(b)
  BY <1>1, <1>2, Tags, PlacesDiffer, PlaceTypes DEF BlockDone
<1>3. CASE AtGridBarrier(b)
  <2>1. status[<<b, 0>>] \in Places /\ status[<<b, 0>>].is = "Waiting"
    BY <1>1, <1>3, BlockTypes DEF AtGridBarrier
  <2>2. status[<<b, 0>>] \in Stops \ {NotStopped}
    BY <2>1, Tags DEF Places
  <2> QED BY <1>3, <2>2 DEF AtGridBarrier
<1> QED BY <1>2, <1>3 DEF StopBlock

LEMMA StopBlockControlled ==
  ASSUME Controlled, NEW b \in Blocks, StopBlock(b)
  PROVE  Controlled'
<1> DEFINE p == status[<<b, 0>>]
<1>1. /\ \A t \in BlockThreads(b) : status[t] = p
      /\ p \in Stops
      /\ p.is = "Waiting" => p.scope \in {"Cluster", "Device"}
  BY StopsTogether
<1>2. stops' = [stops EXCEPT ![b] = p] /\ UNCHANGED <<script, pc, steps, status, acquired, epochVars, outcome>>
  BY DEF StopBlock, threadVars
<1> HIDE DEF p
<1>3. stops' \in [Blocks -> Stops] /\ stops'[b] = p /\ \A c \in Blocks : c # b => stops'[c] = stops[c]
  BY <1>1, <1>2, BlockTypes
<1>4. \A c \in Blocks : stops'[c] # NotStopped =>
        /\ \A t \in BlockThreads(c) : status'[t] = stops'[c]
        /\ stops'[c].is = "Waiting" => stops'[c].scope \in {"Cluster", "Device"}
  BY <1>1, <1>2, <1>3, BlockTypes
<1> QED BY <1>2, <1>3, <1>4, BlocksMove, BlockTypes DEF epochVars

(* The groups that are ready are of the block's own threads.               *)
LEMMA ReadyGroups ==
  ASSUME NEW b \in Blocks, NEW g \in Ready(b)
  PROVE  \E w \in BlockThreads(b) : /\ status[w].is = "Waiting"
                                    /\ g = GroupOf(w)
                                    /\ g \subseteq BlockThreads(b)
                                    /\ \A v \in g : status[v] = status[w]
<1>1. PICK w \in Waiters(b) : g = GroupOf(w) /\ \A v \in GroupOf(w) : status[v] = status[w]
  BY DEF Ready
<1>2. w \in BlockThreads(b) /\ status[w].is = "Waiting"
  BY <1>1 DEF Waiters
<1>3. BlockOf(w) = b
  BY <1>2 DEF BlockThreads
<1>4. GroupOf(w) \subseteq BlockThreads(b)
  BY <1>3 DEF GroupOf, SubgroupThreads, BlockThreads
<1> QED BY <1>1, <1>2, <1>4

LEMMA ReleaseControlled ==
  ASSUME Controlled, NEW b \in Blocks, Release(b)
  PROVE  Controlled'
<1> DEFINE going == UNION Ready(b)
           counts(c) == [s \in Subgroups |->
                           IF SubgroupThreads(c, s) \in Counted(Ready(c), "Subgroup")
                             THEN subEpoch[c][s] + 1 ELSE subEpoch[c][s]]
<1>1. /\ UNCHANGED <<script, pc, steps, stops, acquired, devEpoch, clusterEpoch, outcome>>
      /\ status' = [t \in Threads |-> IF t \in going THEN Runnable ELSE status[t]]
      /\ subEpoch' = [subEpoch EXCEPT ![b] = counts(b)]
      /\ blockEpoch' = blockEpoch \/ blockEpoch' = [blockEpoch EXCEPT ![b] = @ + 1]
  BY DEF Release
<1>2. stops[b] = NotStopped
  BY DEF Release, PhaseOver, Advancing
<1>3. going \subseteq BlockThreads(b)
  BY ReadyGroups
<1>4. counts(b) \in [Subgroups -> Nat]
  BY BlockTypes
<1> HIDE DEF going, counts
<1>5. subEpoch' \in [Blocks -> [Subgroups -> Nat]] /\ blockEpoch' \in [Blocks -> Nat]
  BY <1>1, <1>4, BlockTypes
<1>6. status' \in [Threads -> Places] /\ \A t \in Threads : status'[t] = status[t] \/ status'[t] = Runnable
  BY <1>1, BlockTypes, PlaceTypes
<1>7. \A c \in Blocks : stops[c] # NotStopped => \A t \in BlockThreads(c) : status'[t] = status[t]
  <2> SUFFICES ASSUME NEW c \in Blocks, stops[c] # NotStopped, NEW t \in BlockThreads(c)
               PROVE  status'[t] = status[t]
    OBVIOUS
  <2>1. c # b /\ t \in Threads /\ BlockOf(t) = c
    BY <1>2 DEF BlockThreads
  <2>2. t \notin going
    BY <1>3, <2>1 DEF BlockThreads
  <2> QED BY <1>1, <2>1, <2>2
<1> QED BY <1>1, <1>5, <1>6, <1>7, BlocksMove, BlockTypes

(* The driver stops, finished or with a mismatch.                          *)
LEMMA EndControlled ==
  ASSUME Controlled, UNCHANGED <<script, threadVars, stops, acquired, epochVars>>,
         outcome' \in {"running", "Finished"} \cup Traps
  PROVE  Controlled'
BY BlocksMove, BlockTypes DEF threadVars, epochVars

LEMMA ResumeControlled ==
  ASSUME Controlled, NEW bs \in SUBSET Blocks, Resume(bs),
         devEpoch' \in Nat, clusterEpoch' \in [Clusters -> Nat]
  PROVE  Controlled'
<1>1. /\ stops' = [b \in Blocks |-> IF b \in bs THEN NotStopped ELSE stops[b]]
      /\ status' = [t \in Threads |-> IF BlockOf(t) \in bs THEN Runnable ELSE status[t]]
      /\ UNCHANGED <<script, pc, steps, acquired, blockEpoch, subEpoch, outcome>>
  BY DEF Resume
<1>2. stops' \in [Blocks -> Stops]
  BY <1>1, BlockTypes, PlaceTypes
<1>3. status' \in [Threads -> Places] /\ \A t \in Threads : status'[t] = status[t] \/ status'[t] = Runnable
  BY <1>1, BlockTypes, PlaceTypes
<1>4. ASSUME NEW b \in Blocks, stops'[b] # NotStopped
      PROVE  stops'[b] = stops[b] /\ \A t \in BlockThreads(b) : status'[t] = status[t]
  BY <1>1, <1>4 DEF BlockThreads
<1> QED BY <1>1, <1>2, <1>3, <1>4, BlocksMove, BlockTypes

LEMMA ControlledStep ==
  ASSUME Controlled, \A t \in Threads : outcome = "running" => steps[t] <= StepBound, [DriverNext]_driverVars
  PROVE  Controlled'
<1>1. ASSUME NEW t \in Threads, Step(t) \/ Arrive(t) \/ Finish(t) \/ RunAway(t) \/ StatementTraps(t)
      PROVE  Controlled'
  <2>1. RunAway(t) \/ StatementTraps(t) => outcome = "running"
    BY RunningFacts DEF RunAway, StatementTraps
  <2> QED BY <1>1, <2>1, StepControlled, ArriveControlled, FinishControlled, TrapControlled
<1>2. ASSUME NEW b \in Blocks, StopBlock(b) \/ Release(b) \/ DeliveryTraps(b) \/ Mismatch(b)
      PROVE  Controlled'
  <2>1. DeliveryTraps(b) \/ Mismatch(b) => Controlled'
    BY EndControlled DEF DeliveryTraps, Mismatch, Traps
  <2> QED BY <1>2, <2>1, StopBlockControlled, ReleaseControlled
<1>3. GridFinished \/ GridMismatch => Controlled'
  BY EndControlled DEF GridFinished, GridMismatch, Traps
<1>4. ReleaseGrid => Controlled'
  BY ResumeControlled, BlockTypes DEF ReleaseGrid
<1>5. ReleaseClusters => Controlled'
  <2>1. ASSUME ReleaseClusters
        PROVE  clusterEpoch' \in [Clusters -> Nat]
    BY <2>1, BlockTypes DEF ReleaseClusters
  <2> QED BY <2>1, ResumeControlled, BlockTypes DEF ReleaseClusters
<1>6. ASSUME UNCHANGED driverVars
      PROVE  Controlled'
  <2>1. UNCHANGED <<script, threadVars, stops, acquired, epochVars, outcome>>
    BY <1>6 DEF driverVars
  <2> QED BY <2>1, EndControlled, BlockTypes
<1> QED BY <1>1, <1>2, <1>3, <1>4, <1>5, <1>6 DEF DriverNext

-----------------------------------------------------------------------------
(* The step limit.                                                         *)

(* Every step is of a launch still running.                                *)
LEMMA StepsRun ==
  ASSUME DriverNext
  PROVE  outcome = "running"
BY DEF DriverNext, Step, Arrive, Finish, RunAway, StatementTraps, Running, StopBlock, Release, DeliveryTraps,
       Mismatch, PhaseOver, Advancing, GridFinished, ReleaseGrid, ReleaseClusters, GridMismatch, AllStopped

(* A thread goes past a statement that does not loop, and counts it.       *)
LEMMA PassingCounts ==
  ASSUME Controlled, StepsCount, NEW t \in Threads, outcome = "running",
         pc[t] <= Len(script[t]), script[t][pc[t]].op # "Spin", steps[t] < StepBound,
         pc' = [pc EXCEPT ![t] = @ + 1], steps' = [steps EXCEPT ![t] = @ + 1],
         UNCHANGED <<script, outcome>>
  PROVE  StepsCount'
<1>1. /\ pc \in [Threads -> Nat \ {0}] /\ steps \in [Threads -> 0 .. StepBound + 1]
      /\ StepBound \in Nat
  BY StepAssumption DEF Controlled, DriverTypeOK
<1> SUFFICES ASSUME NEW u \in Threads
             PROVE  /\ \A i \in 1 .. pc'[u] - 1 : script[u][i].op # "Spin"
                    /\ pc'[u] - 1 <= steps'[u]
                    /\ steps'[u] <= StepBound
                    /\ steps'[u] # pc'[u] - 1 => pc'[u] <= Len(script[u]) /\ script[u][pc'[u]].op = "Spin"
  BY DEF StepsCount
<1>2. CASE u # t
  BY <1>1, <1>2 DEF StepsCount
<1>3. CASE u = t
  <2>1. pc'[t] = pc[t] + 1 /\ steps'[t] = steps[t] + 1
    BY <1>1
  <2>2. steps[t] = pc[t] - 1
    BY DEF StepsCount
  <2>3. \A i \in 1 .. pc[t] : i = pc[t] \/ i \in 1 .. pc[t] - 1
    BY <1>1
  <2>4. \A i \in 1 .. pc[t] : script[t][i].op # "Spin"
    BY <2>3 DEF StepsCount
  <2>5. pc'[t] - 1 = pc[t] /\ steps'[t] = pc[t] /\ steps[t] \in Nat /\ pc[t] \in Nat
    BY <1>1, <2>1, <2>2
  <2> QED BY <1>1, <1>3, <2>1, <2>4, <2>5
<1> QED BY <1>2, <1>3

LEMMA StepsCountStep ==
  ASSUME Controlled, StepsCount, [DriverNext]_driverVars
  PROVE  StepsCount'
<1>1. /\ pc \in [Threads -> Nat \ {0}] /\ steps \in [Threads -> 0 .. StepBound + 1]
      /\ StepBound \in Nat
  BY StepAssumption DEF Controlled, DriverTypeOK
<1>2. ASSUME UNCHANGED <<script, pc, steps>>, outcome = "running" \/ outcome' = outcome
      PROVE  StepsCount'
  BY <1>2 DEF StepsCount
<1>3. ASSUME NEW t \in Threads, Step(t)
      PROVE  StepsCount'
  <2>1. /\ pc[t] <= Len(script[t]) /\ steps[t] < StepBound /\ outcome = "running"
        /\ steps' = [steps EXCEPT ![t] = @ + 1] /\ UNCHANGED <<script, outcome>>
        /\ Item(t) = script[t][pc[t]]
    BY <1>3, PlaceInScript, RunningFacts DEF Step, AtEnd, Ticks, Item
  <2>2. CASE Item(t).op # "Spin"
    BY <1>3, <2>1, <2>2, PassingCounts DEF Step
  <2>3. CASE Item(t).op = "Spin"
    <3>1. pc' = pc
      BY <1>3, <2>3 DEF Step
    <3>2. steps'[t] = steps[t] + 1 /\ \A u \in Threads : u # t => steps'[u] = steps[u]
      BY <1>1, <2>1
    <3>3. steps[t] \in Nat /\ pc[t] \in Nat /\ pc[t] - 1 <= steps[t]
      BY <1>1, <2>1 DEF StepsCount
    <3>4. pc[t] - 1 <= steps'[t] /\ steps'[t] <= StepBound
      BY <1>1, <2>1, <3>2, <3>3
    <3> QED BY <2>1, <2>3, <3>1, <3>2, <3>4 DEF StepsCount
  <2> QED BY <2>2, <2>3
<1>4. ASSUME NEW t \in Threads, Arrive(t)
      PROVE  StepsCount'
  <2>1. /\ pc[t] <= Len(script[t]) /\ steps[t] < StepBound /\ outcome = "running"
        /\ script[t][pc[t]].op # "Spin"
    BY <1>4, PlaceInScript, RunningFacts DEF Arrive, AtEnd, Ticks, Item, IsRendezvous
  <2> QED BY <1>4, <2>1, PassingCounts DEF Arrive
<1>5. ASSUME NEW t \in Threads, RunAway(t) \/ StatementTraps(t)
      PROVE  StepsCount'
  <2>1. outcome' \notin {"running", "Finished"} /\ UNCHANGED <<script, pc>>
    BY <1>5 DEF RunAway, StatementTraps
  <2> QED BY <2>1 DEF StepsCount
<1>6. ASSUME NEW t \in Threads, Finish(t)
      PROVE  StepsCount'
  BY <1>2, <1>6 DEF Finish
<1>7. ASSUME NEW b \in Blocks, StopBlock(b) \/ Release(b) \/ DeliveryTraps(b) \/ Mismatch(b)
      PROVE  StepsCount'
  <2>1. UNCHANGED <<script, pc, steps>> /\ outcome = "running"
    BY <1>7 DEF StopBlock, Release, DeliveryTraps, Mismatch, threadVars, PhaseOver, Advancing
  <2> QED BY <1>2, <2>1
<1>8. ASSUME GridFinished \/ ReleaseGrid \/ ReleaseClusters \/ GridMismatch
      PROVE  StepsCount'
  <2>1. UNCHANGED <<script, pc, steps>> /\ outcome = "running"
    BY <1>8 DEF GridFinished, ReleaseGrid, ReleaseClusters, GridMismatch, Resume, threadVars, AllStopped
  <2> QED BY <1>2, <2>1
<1>9. UNCHANGED driverVars => StepsCount'
  BY <1>2 DEF driverVars, threadVars
<1> QED BY <1>3, <1>4, <1>5, <1>6, <1>7, <1>8, <1>9 DEF DriverNext

(* A thread at the limit with statements left is too long.                 *)
LEMMA RunawayIsLong ==
  ASSUME Controlled, StepsCount, NEW t \in Threads, RunAway(t)
  PROVE  TooLong(t)
<1>1. /\ pc[t] \in Nat \ {0} /\ Len(script[t]) \in Nat /\ pc[t] <= Len(script[t])
      /\ outcome = "running" /\ ~(steps[t] < StepBound)
  BY PlaceInScript, RunningFacts DEF RunAway, AtEnd, Ticks
<1>2. steps[t] \in Nat /\ StepBound \in Nat
  BY StepAssumption DEF Controlled, DriverTypeOK
<1>3. CASE steps[t] = pc[t] - 1
  BY <1>1, <1>2, <1>3 DEF TooLong
<1>4. CASE steps[t] # pc[t] - 1
  BY <1>1, <1>4 DEF StepsCount, TooLong
<1> QED BY <1>3, <1>4

LEMMA OutcomeIsRealStep ==
  ASSUME Controlled, StepsCount, OutcomeIsReal, [DriverNext]_driverVars
  PROVE  OutcomeIsReal'
<1>1. ASSUME NEW t \in Threads, RunAway(t)
      PROVE  OutcomeIsReal'
  <2>1. outcome' # "Finished" /\ script' = script
    BY <1>1 DEF RunAway
  <2>2. TooLong(t)'
    BY <1>1, <2>1, RunawayIsLong DEF TooLong
  <2> QED BY <2>1, <2>2 DEF OutcomeIsReal
<1>2. ASSUME GridFinished
      PROVE  OutcomeIsReal'
  <2>1. outcome' = "Finished" /\ status' = status /\ \A b \in Blocks : stops[b] = Done
    BY <1>2 DEF GridFinished, threadVars
  <2>2. ASSUME NEW t \in Threads
        PROVE  status[t] = Done
    BY <2>1, BlockTypes, ThreadsOfBlock, PlacesDiffer
  <2> QED BY <2>1, <2>2 DEF OutcomeIsReal
<1>3. ASSUME NEW t \in Threads, Step(t) \/ Arrive(t) \/ Finish(t) \/ StatementTraps(t)
      PROVE  outcome' \in {"running", "StatementTrap"}
  BY <1>3, RunningFacts DEF Step, Arrive, Finish, StatementTraps
<1>4. ASSUME NEW b \in Blocks, StopBlock(b) \/ Release(b) \/ DeliveryTraps(b) \/ Mismatch(b)
      PROVE  outcome' \in {"running", "StatementTrap", "BarrierMismatch"}
  BY <1>4 DEF StopBlock, Release, DeliveryTraps, Mismatch, PhaseOver, Advancing
<1>5. ASSUME ReleaseGrid \/ ReleaseClusters \/ GridMismatch
      PROVE  outcome' \in {"running", "BarrierMismatch"}
  BY <1>5 DEF ReleaseGrid, ReleaseClusters, GridMismatch, Resume, AllStopped
<1>6. outcome' \in {"running", "StatementTrap", "BarrierMismatch"} => OutcomeIsReal'
  BY DEF OutcomeIsReal
<1>7. UNCHANGED driverVars => OutcomeIsReal'
  BY DEF driverVars, threadVars, OutcomeIsReal, TooLong
<1> QED BY <1>1, <1>2, <1>3, <1>4, <1>5, <1>6, <1>7 DEF DriverNext

(* What the launch owes to the limit follows.                              *)
LEMMA LimitFollows ==
  ASSUME Controlled, StepsCount, OutcomeIsReal
  PROVE  LimitIsExact
<1> SUFFICES ASSUME outcome = "Finished", NEW t \in Threads
             PROVE  ~TooLong(t)
  BY DEF OutcomeIsReal, LimitIsExact
<1>1. pc[t] = Len(script[t]) + 1
  BY DEF OutcomeIsReal, Controlled, DoneAtEnd
<1>2. Len(script[t]) \in Nat /\ steps[t] \in Nat /\ StepBound \in Nat
  BY PlaceInScript, StepAssumption DEF Controlled, DriverTypeOK
<1>3. pc[t] - 1 = Len(script[t])
  BY <1>1, <1>2
<1>4. Len(script[t]) <= StepBound /\ \A i \in 1 .. Len(script[t]) : script[t][i].op # "Spin"
  BY <1>2, <1>3 DEF StepsCount
<1> QED BY <1>2, <1>4 DEF TooLong

-----------------------------------------------------------------------------
(* The barrier counts.                                                     *)

(* The barriers of a scope among the first statements of a script.         *)
BarriersUpTo(s, n, scope) == {i \in 1 .. n : s[i].op = "Barrier" /\ s[i].scope = scope}

LEMMA OneMoreStatement ==
  ASSUME NEW s, NEW n \in Nat, NEW scope
  PROVE  Cardinality(BarriersUpTo(s, n + 1, scope)) =
           IF s[n + 1].op = "Barrier" /\ s[n + 1].scope = scope
             THEN Cardinality(BarriersUpTo(s, n, scope)) + 1
             ELSE Cardinality(BarriersUpTo(s, n, scope))
<1>1. IsFiniteSet(BarriersUpTo(s, n, scope)) /\ n + 1 \notin BarriersUpTo(s, n, scope)
  <2>1. IsFiniteSet(1 .. n)
    BY FS_Interval
  <2>2. BarriersUpTo(s, n, scope) \in SUBSET (1 .. n)
    BY DEF BarriersUpTo
  <2>3. n + 1 \notin 1 .. n
    OBVIOUS
  <2> QED BY <2>1, <2>2, <2>3, FS_Subset
<1>2. CASE s[n + 1].op = "Barrier" /\ s[n + 1].scope = scope
  <2>1. BarriersUpTo(s, n + 1, scope) = BarriersUpTo(s, n, scope) \cup {n + 1}
    BY <1>2 DEF BarriersUpTo
  <2> QED BY <1>1, <1>2, <2>1, FS_AddElement
<1>3. CASE ~(s[n + 1].op = "Barrier" /\ s[n + 1].scope = scope)
  <2>1. BarriersUpTo(s, n + 1, scope) = BarriersUpTo(s, n, scope)
    BY <1>3 DEF BarriersUpTo
  <2> QED BY <1>3, <2>1
<1> QED BY <1>2, <1>3

(* What a thread has passed is what is before its place, the rendezvous it *)
(* waits at excepted.                                                      *)
LEMMA PassedUpTo ==
  ASSUME Controlled, NEW t \in Threads, NEW scope
  PROVE  /\ status[t].is # "Waiting" =>
              Passed(t, scope) = Cardinality(BarriersUpTo(script[t], pc[t] - 1, scope))
         /\ status[t].is = "Waiting" =>
              /\ pc[t] - 2 \in Nat
              /\ Passed(t, scope) = Cardinality(BarriersUpTo(script[t], pc[t] - 2, scope))
              /\ BarriersUpTo(script[t], pc[t] - 1, scope) = BarriersUpTo(script[t], (pc[t] - 2) + 1, scope)
<1>1. pc[t] \in Nat \ {0}
  BY PlaceInScript
<1>2. status[t].is = "Waiting" => pc[t] > 1
  BY DEF Controlled, WaitsAtItem
<1>3. pc[t] - 1 = (pc[t] - 2) + 1
  BY <1>1
<1>4. /\ status[t].is # "Waiting" => Behind(t) = 1 .. pc[t] - 1
      /\ status[t].is = "Waiting" => Behind(t) = 1 .. pc[t] - 2
  BY DEF Behind
<1>5. status[t].is # "Waiting" => Passed(t, scope) = Cardinality(BarriersUpTo(script[t], pc[t] - 1, scope))
  BY <1>4 DEF Passed, BarriersUpTo
<1>6. status[t].is = "Waiting" => Passed(t, scope) = Cardinality(BarriersUpTo(script[t], pc[t] - 2, scope))
  BY <1>4 DEF Passed, BarriersUpTo
<1>7. BarriersUpTo(script[t], pc[t] - 1, scope) = BarriersUpTo(script[t], (pc[t] - 2) + 1, scope)
  BY <1>3
<1>8. status[t].is = "Waiting" => pc[t] - 2 \in Nat
  BY <1>1, <1>2
<1> QED BY <1>5, <1>6, <1>7, <1>8

(* A thread let go on has passed the barrier it waited at, if it was one.  *)
LEMMA ReleasedPasses ==
  ASSUME Controlled, Controlled', NEW t \in Threads, status[t].is = "Waiting",
         status'[t] = Runnable, script' = script, pc' = pc, NEW scope
  PROVE  Passed(t, scope)' = IF AtBarrier(t) /\ status[t].scope = scope
                               THEN Passed(t, scope) + 1 ELSE Passed(t, scope)
<1>1. /\ pc[t] - 2 \in Nat
      /\ Passed(t, scope) = Cardinality(BarriersUpTo(script[t], pc[t] - 2, scope))
      /\ BarriersUpTo(script[t], pc[t] - 1, scope) = BarriersUpTo(script[t], (pc[t] - 2) + 1, scope)
  BY PassedUpTo
<1>2. Passed(t, scope)' = Cardinality(BarriersUpTo(script[t], pc[t] - 1, scope))
  <2>1. status'[t].is # "Waiting"
    BY Tags
  <2> QED BY <2>1 DEF Passed, Behind, BarriersUpTo
<1>3. script[t][(pc[t] - 2) + 1] = script[t][pc[t] - 1]
  <2>1. (pc[t] - 2) + 1 = pc[t] - 1
    BY PlaceInScript
  <2> QED BY <2>1
<1>4. status[t].scope = script[t][pc[t] - 1].scope
  BY WaitedItem
<1> QED BY <1>1, <1>2, <1>3, <1>4, OneMoreStatement DEF AtBarrier

(* A thread that does not move has passed what it had.                     *)
LEMMA StillPasses ==
  ASSUME NEW t \in Threads, status'[t] = status[t], script' = script, pc'[t] = pc[t], NEW scope
  PROVE  Passed(t, scope)' = Passed(t, scope)
BY DEF Passed, Behind

(* Nor does one that runs on pass a barrier.                               *)
LEMMA RunningPasses ==
  ASSUME Controlled, NEW t \in Threads, Step(t) \/ Arrive(t) \/ Finish(t),
         NEW u \in Threads, NEW scope
  PROVE  Passed(u, scope)' = Passed(u, scope)
<1>1. /\ pc \in [Threads -> Nat \ {0}] /\ status \in [Threads -> Places]
      /\ status[t] = Runnable /\ script' = script
  BY RunningFacts DEF Controlled, DriverTypeOK, Places, Step, Arrive, Finish
<1>2. CASE u # t
  <2>1. pc'[u] = pc[u] /\ status'[u] = status[u]
    BY <1>1, <1>2 DEF Step, Arrive, Finish
  <2> QED BY <1>1, <2>1, StillPasses
<1>3. CASE u = t
  <2>1. status[t].is # "Waiting" /\ Done.is # "Waiting"
    BY <1>1, Tags
  <2>2. CASE Step(t) /\ pc' = [pc EXCEPT ![t] = @ + 1]
    <3>1. status'[t].is # "Waiting" /\ pc'[t] - 1 = (pc[t] - 1) + 1 /\ pc[t] - 1 \in Nat
      BY <1>1, <2>1, <2>2 DEF Step
    <3>2. script[t][(pc[t] - 1) + 1].op # "Barrier"
      <4>1. (pc[t] - 1) + 1 = pc[t]
        BY <1>1
      <4> QED BY <2>2, <4>1 DEF Step, IsRendezvous, Item
    <3>3. Passed(t, scope)' = Cardinality(BarriersUpTo(script[t], (pc[t] - 1) + 1, scope))
      BY <1>1, <3>1 DEF Passed, Behind, BarriersUpTo
    <3>4. Passed(t, scope) = Cardinality(BarriersUpTo(script[t], pc[t] - 1, scope))
      BY <2>1, PassedUpTo
    <3> QED BY <1>3, <3>1, <3>2, <3>3, <3>4, OneMoreStatement
  <2>3. CASE Step(t) /\ pc' = pc
    BY <1>1, <1>3, <2>3, StillPasses DEF Step
  <2>4. CASE Arrive(t)
    <3>1. status'[t] = Waiting(Item(t)) /\ pc'[t] = pc[t] + 1
      BY <1>1, <2>4 DEF Arrive
    <3>2. status'[t].is = "Waiting" /\ pc'[t] - 2 = pc[t] - 1
      BY <1>1, <3>1, Tags
    <3> QED BY <1>1, <1>3, <2>1, <3>2 DEF Passed, Behind
  <2>5. CASE Finish(t)
    <3>1. status'[t] = Done /\ pc' = pc
      BY <1>1, <2>5 DEF Finish
    <3> QED BY <1>1, <1>3, <2>1, <3>1 DEF Passed, Behind
  <2> QED BY <2>2, <2>3, <2>4, <2>5 DEF Step
<1> QED BY <1>2, <1>3

(* A thread of a ready group: the group is its own, and all of it waits    *)
(* where it waits.                                                         *)
LEMMA ReadyMember ==
  ASSUME Controlled, NEW b \in Blocks, NEW g \in Ready(b), NEW t \in g
  PROVE  /\ t \in Threads /\ BlockOf(t) = b /\ status[t].is = "Waiting"
         /\ g = GroupOf(t)
         /\ \A v \in g : v \in Threads /\ status[v] = status[t] /\ (AtBarrier(v) <=> AtBarrier(t))
<1>1. PICK w \in BlockThreads(b) : /\ status[w].is = "Waiting" /\ g = GroupOf(w) /\ g \subseteq BlockThreads(b)
                                   /\ \A v \in g : status[v] = status[w]
  BY ReadyGroups
<1>2. /\ w \in Threads /\ BlockOf(w) = b
      /\ \A v \in g : v \in Threads /\ BlockOf(v) = b
  BY <1>1 DEF BlockThreads
<1>3. status[t] = status[w] /\ \A v \in g : status[v] = status[t]
  BY <1>1
<1>4. \A v \in g : AtBarrier(v) <=> AtBarrier(t)
  BY <1>1, <1>2, <1>3, WaitAlike
<1>5. status[t].scope = "Subgroup" => SubOf(t) = SubOf(w)
  BY <1>1, <1>3 DEF GroupOf, SubgroupThreads
<1>6. g = GroupOf(t)
  BY <1>1, <1>2, <1>3, <1>5 DEF GroupOf
<1> QED BY <1>1, <1>2, <1>3, <1>4, <1>6

(* Within a block only the scopes it holds are released.                   *)
LEMMA ReleasedScopes ==
  ASSUME Controlled, NEW b \in Blocks, Release(b), NEW g \in Ready(b), NEW t \in g
  PROVE  \/ status[t].scope = "Subgroup" /\ g = SubgroupThreads(b, SubOf(t))
         \/ status[t].scope = "Block" /\ g = BlockThreads(b)
<1>1. /\ t \in Threads /\ BlockOf(t) = b /\ status[t].is = "Waiting" /\ g = GroupOf(t)
      /\ \A v \in g : status[v] = status[t]
  BY ReadyMember
<1>2. status[t].scope \in {"Subgroup", "Block", "Cluster", "Device"}
  <2>1. /\ pc[t] - 1 \in 1 .. Len(script[t]) /\ IsRendezvous(script[t][pc[t] - 1])
        /\ status[t].scope = script[t][pc[t] - 1].scope
    BY <1>1, WaitedItem
  <2> QED BY <1>1, <2>1, RendezvousType DEF Controlled
<1>3. ASSUME status[t].scope \in {"Cluster", "Device"}
      PROVE  FALSE
  <2>1. g = BlockThreads(b)
    BY <1>1, <1>3 DEF GroupOf
  <2>2. status[<<b, 0>>] = status[t]
    BY <1>1, <2>1, ThreadsOfBlock
  <2>3. AtGridBarrier(b)
    BY <1>1, <1>3, <2>1, <2>2 DEF AtGridBarrier
  <2> QED BY <2>3 DEF Release
<1> QED BY <1>1, <1>2, <1>3 DEF GroupOf

(* The count of a subgroup goes up when its threads pass its barrier.      *)
LEMMA SubgroupCounted ==
  ASSUME Controlled, NEW b \in Blocks, Release(b), NEW t \in Threads, BlockOf(t) = b
  PROVE  SubgroupThreads(b, SubOf(t)) \in Counted(Ready(b), "Subgroup") <=>
           t \in UNION Ready(b) /\ AtBarrier(t) /\ status[t].scope = "Subgroup"
<1>1. ASSUME SubgroupThreads(b, SubOf(t)) \in Counted(Ready(b), "Subgroup")
      PROVE  t \in UNION Ready(b) /\ AtBarrier(t) /\ status[t].scope = "Subgroup"
  <2> DEFINE g == SubgroupThreads(b, SubOf(t))
  <2>1. PICK u \in g : AtBarrier(u) /\ status[u].scope = "Subgroup"
    BY <1>1 DEF Counted
  <2>2. g \in Ready(b) /\ t \in g
    BY <1>1 DEF Counted, SubgroupThreads
  <2> HIDE DEF g
  <2> QED BY <2>1, <2>2, ReadyMember
<1>2. ASSUME t \in UNION Ready(b), AtBarrier(t), status[t].scope = "Subgroup"
      PROVE  SubgroupThreads(b, SubOf(t)) \in Counted(Ready(b), "Subgroup")
  <2>1. PICK g \in Ready(b) : t \in g
    BY <1>2
  <2>2. g = SubgroupThreads(b, SubOf(t))
    BY <1>2, <2>1, ReleasedScopes
  <2> QED BY <1>2, <2>1, <2>2 DEF Counted
<1> QED BY <1>1, <1>2

(* That of a block goes up when every thread of it passes its barrier.     *)
LEMMA BlockCounted ==
  ASSUME Controlled, NEW b \in Blocks, Release(b), NEW t \in Threads, BlockOf(t) = b
  PROVE  Counted(Ready(b), "Block") # {} <=>
           t \in UNION Ready(b) /\ AtBarrier(t) /\ status[t].scope = "Block"
<1>1. ASSUME Counted(Ready(b), "Block") # {}
      PROVE  t \in UNION Ready(b) /\ AtBarrier(t) /\ status[t].scope = "Block"
  <2>1. PICK g \in Ready(b) : \E u \in g : AtBarrier(u) /\ status[u].scope # "Subgroup"
    BY <1>1 DEF Counted
  <2>2. PICK u \in g : AtBarrier(u) /\ status[u].scope # "Subgroup"
    BY <2>1
  <2>3. g = BlockThreads(b) /\ status[u].scope = "Block"
    BY <2>2, ReleasedScopes
  <2>4. t \in g
    BY <2>3 DEF BlockThreads
  <2> QED BY <2>2, <2>3, <2>4, ReadyMember
<1>2. ASSUME t \in UNION Ready(b), AtBarrier(t), status[t].scope = "Block"
      PROVE  Counted(Ready(b), "Block") # {}
  BY <1>2 DEF Counted
<1> QED BY <1>1, <1>2

LEMMA ReleaseCounts ==
  ASSUME Controlled, Controlled', EpochsCountPasses, NEW b \in Blocks, Release(b)
  PROVE  EpochsCountPasses'
<1>1. /\ UNCHANGED <<script, pc, devEpoch, clusterEpoch>>
      /\ status' = [u \in Threads |-> IF u \in UNION Ready(b) THEN Runnable ELSE status[u]]
      /\ blockEpoch' = IF Counted(Ready(b), "Block") # {}
                         THEN [blockEpoch EXCEPT ![b] = @ + 1] ELSE blockEpoch
      /\ subEpoch' = [subEpoch EXCEPT ![b] =
           [s \in Subgroups |->
              IF SubgroupThreads(b, s) \in Counted(Ready(b), "Subgroup") THEN @[s] + 1 ELSE @[s]]]
  BY DEF Release
<1> SUFFICES ASSUME NEW t \in Threads
             PROVE  /\ subEpoch'[BlockOf(t)][SubOf(t)] = Passed(t, "Subgroup")'
                    /\ blockEpoch'[BlockOf(t)] = Passed(t, "Block")'
                    /\ clusterEpoch'[ClusterOf(t)] = Passed(t, "Cluster")'
                    /\ devEpoch' = Passed(t, "Device")'
  BY DEF EpochsCountPasses
<1>2. /\ subEpoch[BlockOf(t)][SubOf(t)] = Passed(t, "Subgroup")
      /\ blockEpoch[BlockOf(t)] = Passed(t, "Block")
      /\ clusterEpoch[ClusterOf(t)] = Passed(t, "Cluster")
      /\ devEpoch = Passed(t, "Device")
  BY DEF EpochsCountPasses
<1>3. BlockOf(t) \in Blocks /\ SubOf(t) \in Subgroups
  BY ThreadsOfBlock
<1> DEFINE passes(scope) == t \in UNION Ready(b) /\ AtBarrier(t) /\ status[t].scope = scope
<1>4. \A scope : Passed(t, scope)' = IF passes(scope) THEN Passed(t, scope) + 1 ELSE Passed(t, scope)
  <2> TAKE scope
  <2>1. CASE t \in UNION Ready(b)
    <3>1. status[t].is = "Waiting"
      BY <2>1, ReadyMember
    <3>2. status'[t] = Runnable
      BY <1>1, <2>1
    <3> QED BY <1>1, <2>1, <3>1, <3>2, ReleasedPasses
  <2>2. CASE t \notin UNION Ready(b)
    <3>1. status'[t] = status[t]
      BY <1>1, <2>2
    <3> QED BY <1>1, <2>2, <3>1, StillPasses
  <2> QED BY <2>1, <2>2
<1>5. CASE BlockOf(t) # b
  <2>1. t \notin UNION Ready(b)
    BY <1>5, ReadyMember
  <2>2. subEpoch'[BlockOf(t)] = subEpoch[BlockOf(t)] /\ blockEpoch'[BlockOf(t)] = blockEpoch[BlockOf(t)]
    BY <1>1, <1>3, <1>5, BlockTypes
  <2> QED BY <1>1, <1>2, <1>4, <2>1, <2>2
<1>6. CASE BlockOf(t) = b
  <2>1. subEpoch'[b][SubOf(t)] = IF SubgroupThreads(b, SubOf(t)) \in Counted(Ready(b), "Subgroup")
                                   THEN subEpoch[b][SubOf(t)] + 1 ELSE subEpoch[b][SubOf(t)]
    BY <1>1, <1>3, BlockTypes
  <2>2. blockEpoch'[b] = IF Counted(Ready(b), "Block") # {} THEN blockEpoch[b] + 1 ELSE blockEpoch[b]
    BY <1>1, BlockTypes
  <2>3. SubgroupThreads(b, SubOf(t)) \in Counted(Ready(b), "Subgroup") <=> passes("Subgroup")
    BY <1>6, SubgroupCounted
  <2>4. Counted(Ready(b), "Block") # {} <=> passes("Block")
    BY <1>6, BlockCounted
  <2>5. ~passes("Cluster") /\ ~passes("Device")
    <3> SUFFICES ASSUME t \in UNION Ready(b)
                 PROVE  status[t].scope \in {"Subgroup", "Block"}
      OBVIOUS
    <3> QED BY ReleasedScopes
  <2> HIDE DEF passes
  <2>6. Passed(t, "Subgroup")' = subEpoch'[b][SubOf(t)]
    BY <1>2, <1>4, <1>6, <2>1, <2>3
  <2>7. Passed(t, "Block")' = blockEpoch'[b]
    BY <1>2, <1>4, <1>6, <2>2, <2>4
  <2>8. Passed(t, "Cluster")' = clusterEpoch[ClusterOf(t)] /\ Passed(t, "Device")' = devEpoch
    BY <1>2, <1>4, <2>5
  <2> QED BY <1>1, <1>6, <2>6, <2>7, <2>8
<1> QED BY <1>5, <1>6

(* A thread of a block stopped at a barrier waits at that barrier.         *)
LEMMA StoppedWaits ==
  ASSUME Controlled, NEW t \in Threads, stops[BlockOf(t)] # NotStopped, stops[BlockOf(t)] # Done
  PROVE  /\ status[t] = stops[BlockOf(t)] /\ status[t].is = "Waiting"
         /\ status[t].scope \in {"Cluster", "Device"} /\ AtBarrier(t)
<1>1. /\ BlockOf(t) \in Blocks /\ t \in BlockThreads(BlockOf(t))
      /\ stops[BlockOf(t)] \in Stops
  BY ThreadsOfBlock, BlockTypes
<1>2. status[t] = stops[BlockOf(t)] /\ status[t].is = "Waiting" /\ status[t].scope \in {"Cluster", "Device"}
  BY <1>1, BlockTypes, PlaceTypes
<1>3. /\ pc[t] - 1 \in 1 .. Len(script[t]) /\ IsRendezvous(script[t][pc[t] - 1])
      /\ status[t].scope = script[t][pc[t] - 1].scope
  BY <1>2, WaitedItem
<1>4. script[t][pc[t] - 1].op = "Barrier"
  BY <1>2, <1>3, RendezvousType DEF Controlled
<1> QED BY <1>2, <1>4 DEF AtBarrier

(* The blocks that resume have passed the barrier they stopped at.         *)
LEMMA ResumeCounts ==
  ASSUME Controlled, Controlled', EpochsCountPasses, NEW bs \in SUBSET Blocks, Resume(bs),
         NEW scope \in {"Cluster", "Device"},
         \A b \in bs : stops[b].is = "Waiting" /\ stops[b].scope = scope,
         \A t \in Threads :
           /\ clusterEpoch'[ClusterOf(t)] = IF BlockOf(t) \in bs /\ scope = "Cluster"
                                              THEN clusterEpoch[ClusterOf(t)] + 1
                                              ELSE clusterEpoch[ClusterOf(t)]
           /\ devEpoch' = IF BlockOf(t) \in bs /\ scope = "Device" THEN devEpoch + 1 ELSE devEpoch
  PROVE  EpochsCountPasses'
<1>1. /\ status' = [t \in Threads |-> IF BlockOf(t) \in bs THEN Runnable ELSE status[t]]
      /\ UNCHANGED <<script, pc, blockEpoch, subEpoch>>
  BY DEF Resume
<1> SUFFICES ASSUME NEW t \in Threads
             PROVE  /\ subEpoch'[BlockOf(t)][SubOf(t)] = Passed(t, "Subgroup")'
                    /\ blockEpoch'[BlockOf(t)] = Passed(t, "Block")'
                    /\ clusterEpoch'[ClusterOf(t)] = Passed(t, "Cluster")'
                    /\ devEpoch' = Passed(t, "Device")'
  BY DEF EpochsCountPasses
<1>2. /\ subEpoch[BlockOf(t)][SubOf(t)] = Passed(t, "Subgroup")
      /\ blockEpoch[BlockOf(t)] = Passed(t, "Block")
      /\ clusterEpoch[ClusterOf(t)] = Passed(t, "Cluster")
      /\ devEpoch = Passed(t, "Device")
  BY DEF EpochsCountPasses
<1>3. CASE BlockOf(t) \in bs
  <2>1. stops[BlockOf(t)] # NotStopped /\ stops[BlockOf(t)] # Done
    BY <1>3, Tags
  <2>2. status[t].is = "Waiting" /\ status[t].scope = scope /\ AtBarrier(t)
    BY <1>3, <2>1, StoppedWaits
  <2>3. \A sc : Passed(t, sc)' = IF sc = scope THEN Passed(t, sc) + 1 ELSE Passed(t, sc)
    <3> TAKE sc
    <3>1. status'[t] = Runnable
      BY <1>1, <1>3
    <3> QED BY <1>1, <2>2, <3>1, ReleasedPasses
  <2> QED BY <1>1, <1>2, <1>3, <2>3
<1>4. CASE BlockOf(t) \notin bs
  <2>1. \A sc : Passed(t, sc)' = Passed(t, sc)
    <3> TAKE sc
    <3>1. status'[t] = status[t]
      BY <1>1, <1>4
    <3> QED BY <1>1, <3>1, StillPasses
  <2> QED BY <1>1, <1>2, <1>4, <2>1
<1> QED BY <1>3, <1>4

LEMMA GridCounts ==
  ASSUME Controlled, Controlled', EpochsCountPasses, ReleaseGrid
  PROVE  EpochsCountPasses'
<1>1. PICK b \in Blocks : stops[b].is = "Waiting" /\ stops[b].scope = "Device"
  BY DEF ReleaseGrid, OnDevice
<1>2. \A c \in Blocks : stops[c].is = "Waiting" /\ stops[c].scope = "Device"
  BY <1>1 DEF ReleaseGrid, Agree
<1>3. devEpoch' = devEpoch + 1 /\ clusterEpoch' = clusterEpoch /\ Resume(Blocks)
  BY DEF ReleaseGrid
<1>4. \A t \in Threads : BlockOf(t) \in Blocks
  BY ThreadsOfBlock
<1> QED BY <1>2, <1>3, <1>4, ResumeCounts

LEMMA ClusterCounts ==
  ASSUME Controlled, Controlled', EpochsCountPasses, ReleaseClusters
  PROVE  EpochsCountPasses'
<1> DEFINE bs == {b \in Blocks : ClusterOfBlock(b) \in Going}
<1>1. /\ clusterEpoch' = [c \in Clusters |-> IF c \in Going THEN clusterEpoch[c] + 1 ELSE clusterEpoch[c]]
      /\ devEpoch' = devEpoch /\ Resume(bs)
  BY DEF ReleaseClusters
<1>2. ASSUME NEW b \in bs
      PROVE  stops[b].is = "Waiting" /\ stops[b].scope = "Cluster"
  <2>1. b \in Blocks /\ ClusterOfBlock(b) \in Clusters
    BY DEF Going
  <2>2. PICK a \in ClusterBlocks(ClusterOfBlock(b)) : stops[a] # Done
    BY DEF Going
  <2>3. b \in ClusterBlocks(ClusterOfBlock(b))
    BY <2>1 DEF ClusterBlocks
  <2>4. stops[b] # Done /\ stops[b] # NotStopped
    BY <2>1, <2>2, <2>3 DEF ReleaseClusters, Agree, AllStopped
  <2>5. stops[b].is = "Waiting" /\ stops[b].scope \in {"Cluster", "Device"}
    BY <2>1, <2>4, BlockTypes, PlaceTypes
  <2> QED BY <2>1, <2>5 DEF ReleaseClusters, OnDevice
<1>3. \A t \in Threads : ClusterOf(t) \in Clusters /\ (BlockOf(t) \in bs <=> ClusterOf(t) \in Going)
  BY ThreadsOfBlock
<1> HIDE DEF bs
<1>4. \A t \in Threads : clusterEpoch'[ClusterOf(t)] = IF BlockOf(t) \in bs THEN clusterEpoch[ClusterOf(t)] + 1
                                                         ELSE clusterEpoch[ClusterOf(t)]
  BY <1>1, <1>3
<1>5. bs \in SUBSET Blocks
  BY DEF bs
<1> QED BY <1>1, <1>2, <1>4, <1>5, ResumeCounts

LEMMA EpochsStep ==
  ASSUME Controlled, Controlled', EpochsCountPasses, [DriverNext]_driverVars
  PROVE  EpochsCountPasses'
<1>1. ASSUME UNCHANGED <<script, pc, status, epochVars>>
      PROVE  EpochsCountPasses'
  <2>1. \A t \in Threads : \A scope : Passed(t, scope)' = Passed(t, scope)
    BY <1>1, StillPasses
  <2> QED BY <1>1, <2>1 DEF EpochsCountPasses, epochVars
<1>2. ASSUME NEW t \in Threads, Step(t) \/ Arrive(t) \/ Finish(t)
      PROVE  EpochsCountPasses'
  <2>1. UNCHANGED epochVars
    BY <1>2 DEF Step, Arrive, Finish
  <2>2. \A u \in Threads : \A scope : Passed(u, scope)' = Passed(u, scope)
    BY <1>2, RunningPasses
  <2> QED BY <2>1, <2>2 DEF EpochsCountPasses, epochVars
<1>3. ASSUME NEW t \in Threads, RunAway(t) \/ StatementTraps(t)
      PROVE  UNCHANGED <<script, pc, status, epochVars>>
  BY <1>3 DEF RunAway, StatementTraps
<1>4. ASSUME NEW b \in Blocks, StopBlock(b) \/ DeliveryTraps(b) \/ Mismatch(b)
      PROVE  UNCHANGED <<script, pc, status, epochVars>>
  BY <1>4 DEF StopBlock, DeliveryTraps, Mismatch, threadVars
<1>5. GridFinished \/ GridMismatch => UNCHANGED <<script, pc, status, epochVars>>
  BY DEF GridFinished, GridMismatch, threadVars
<1>6. UNCHANGED driverVars => UNCHANGED <<script, pc, status, epochVars>>
  BY DEF driverVars, threadVars
<1> QED BY <1>1, <1>2, <1>3, <1>4, <1>5, <1>6, ReleaseCounts, GridCounts, ClusterCounts DEF DriverNext

-----------------------------------------------------------------------------
(* The inductive invariant and what follows from it.                       *)

LEMMA DriverInvInit ==
  ASSUME DriverInit
  PROVE  DriverInv
<1>1. Controlled
  BY ControlledInit
<1>2. StepsCount
  <2>1. \A t \in Threads : pc[t] = 1 /\ steps[t] = 0
    BY DEF DriverInit
  <2>2. 1 .. 1 - 1 = {} /\ 1 - 1 <= 0 /\ 0 <= StepBound
    BY StepAssumption
  <2> QED BY <2>1, <2>2 DEF StepsCount
<1>3. OutcomeIsReal
  BY DEF DriverInit, OutcomeIsReal
<1>4. EpochsCountPasses
  <2>1. \A t \in Threads : \A scope : Passed(t, scope) = 0
    <3> TAKE t \in Threads
    <3> TAKE scope
    <3>1. Behind(t) = {}
      <4>1. pc[t] = 1 /\ status[t].is # "Waiting"
        BY Tags DEF DriverInit
      <4>2. Behind(t) = 1 .. pc[t] - 1
        BY <4>1 DEF Behind
      <4> QED BY <4>1, <4>2
    <3>2. {i \in Behind(t) : script[t][i].op = "Barrier" /\ script[t][i].scope = scope} = {}
      BY <3>1
    <3> QED BY <3>2, FS_EmptySet DEF Passed
  <2>2. \A t \in Threads : BlockOf(t) \in Blocks /\ ClusterOf(t) \in Clusters /\ SubOf(t) \in Subgroups
    BY ThreadsOfBlock
  <2> QED BY <2>1, <2>2 DEF DriverInit, EpochsCountPasses
<1> QED BY <1>1, <1>2, <1>3, <1>4 DEF DriverInv

LEMMA DriverInvStep ==
  ASSUME DriverInv, [DriverNext]_driverVars
  PROVE  DriverInv'
<1>1. \A t \in Threads : outcome = "running" => steps[t] <= StepBound
  BY DEF DriverInv, StepsCount
<1>2. Controlled'
  BY <1>1, ControlledStep DEF DriverInv
<1>3. StepsCount' /\ OutcomeIsReal'
  BY StepsCountStep, OutcomeIsRealStep DEF DriverInv
<1>4. EpochsCountPasses'
  BY <1>2, EpochsStep DEF DriverInv
<1> QED BY <1>2, <1>3, <1>4 DEF DriverInv

(* The invariant holds throughout every launch.                            *)
THEOREM DriverInvariant == DriverSpec => []DriverInv
<1>1. DriverInit => DriverInv
  BY DriverInvInit
<1>2. DriverInv /\ [DriverNext]_driverVars => DriverInv'
  BY DriverInvStep
<1> QED BY <1>1, <1>2, PTL DEF DriverSpec

(* Every thread's place, count and status, every block's stop, the epochs  *)
(* and the outcome keep their types: no step is counted past StepBound + 1 *)
(* and no thread waits at a scope that does not exist.                     *)
THEOREM DriverTypeCorrect == DriverSpec => []DriverTypeOK
<1>1. DriverInv => DriverTypeOK
  BY DEF DriverInv, Controlled
<1> QED BY <1>1, DriverInvariant, PTL

(* The counts a stamp reads are, in every state of the driver and for      *)
(* every thread, the barriers of each scope that thread has passed         *)
(* (release, grid_release and the rendezvous of collectives and MMAs).     *)
THEOREM EpochsExact == DriverSpec => []EpochsCountPasses
<1>1. DriverInv => EpochsCountPasses
  BY DEF DriverInv
<1> QED BY <1>1, DriverInvariant, PTL

(* StepLimit and CrossBlockWait are reported only of a launch one of whose *)
(* threads is longer than the limit or never ends, and a launch with such  *)
(* a thread never finishes (tick, launch_checked).                         *)
THEOREM LimitExact == DriverSpec => []LimitIsExact
<1>1. DriverInv => LimitIsExact
  BY LimitFollows DEF DriverInv
<1> QED BY <1>1, DriverInvariant, PTL

-----------------------------------------------------------------------------
(* What a thread has met at so far.                                        *)

(* How many statements are behind a thread (Behind).                       *)
Far(t) == pc[t] - (IF status[t].is = "Waiting" THEN 2 ELSE 1)

(* How often it has met the others of a scope, and at what.                *)
Times(t, scope) == Cardinality(Wide(t, scope, Far(t)))
Met(t, scope) == MeetsUpTo(t, scope, Far(t))

(* The strengthening: the threads of a scope have met each other equally   *)
(* often and at the same statements in the same order, wherever each of    *)
(* them is now.                                                            *)
Together ==
  \A t, u \in Threads : \A s \in MeetingScopes :
    Contains(s, t, u) => Times(t, s) = Times(u, s) /\ Met(t, s) = Met(u, s)

(* A reported mismatch is one.                                             *)
AlignedInv == DriverInv /\ Together /\ MismatchIsReal

-----------------------------------------------------------------------------
(* Positions in a script.                                                  *)

(* Whether a statement is a rendezvous of a scope at least this wide.      *)
WideAt(t, scope, i) == IsRendezvous(script[t][i]) /\ Width(script[t][i].scope) >= Width(scope)

LEMMA Widths ==
  /\ Width("Subgroup") = 1 /\ Width("Block") = 2 /\ Width("Cluster") = 3 /\ Width("Device") = 4
  /\ \A s \in MeetingScopes : Width(s) \in 1 .. 4
BY DEF Width, MeetingScopes

LEMMA WideFinite ==
  ASSUME NEW t, NEW scope, NEW n \in Nat
  PROVE  /\ IsFiniteSet(Wide(t, scope, n)) /\ Cardinality(Wide(t, scope, n)) \in Nat
         /\ n + 1 \notin Wide(t, scope, n)
<1>1. IsFiniteSet(1 .. n) /\ n + 1 \notin 1 .. n
  BY FS_Interval
<1>2. Wide(t, scope, n) \in SUBSET (1 .. n)
  BY DEF Wide
<1>3. IsFiniteSet(Wide(t, scope, n))
  BY <1>1, <1>2, FS_Subset
<1> QED BY <1>1, <1>2, <1>3, FS_CardinalityType

(* One statement more, a rendezvous of the scope or not.                   *)
LEMMA WideOneMore ==
  ASSUME NEW t, NEW scope, NEW n \in Nat
  PROVE  /\ WideAt(t, scope, n + 1) =>
              /\ Wide(t, scope, n + 1) = Wide(t, scope, n) \cup {n + 1}
              /\ Cardinality(Wide(t, scope, n + 1)) = Cardinality(Wide(t, scope, n)) + 1
         /\ ~WideAt(t, scope, n + 1) => Wide(t, scope, n + 1) = Wide(t, scope, n)
<1>1. 1 .. n + 1 = (1 .. n) \cup {n + 1}
  OBVIOUS
<1>2. ~WideAt(t, scope, n + 1) => Wide(t, scope, n + 1) = Wide(t, scope, n)
  BY <1>1 DEF Wide, WideAt
<1>3. WideAt(t, scope, n + 1) => Wide(t, scope, n + 1) = Wide(t, scope, n) \cup {n + 1}
  BY <1>1 DEF Wide, WideAt
<1> QED BY <1>2, <1>3, WideFinite, FS_AddElement

LEMMA MeetsOneMore ==
  ASSUME NEW t, NEW scope, NEW n \in Nat
  PROVE  /\ WideAt(t, scope, n + 1) =>
              MeetsUpTo(t, scope, n + 1) =
                MeetsUpTo(t, scope, n) \cup {<<Cardinality(Wide(t, scope, n)) + 1, script[t][n + 1]>>}
         /\ ~WideAt(t, scope, n + 1) => MeetsUpTo(t, scope, n + 1) = MeetsUpTo(t, scope, n)
<1>1. ~WideAt(t, scope, n + 1) => MeetsUpTo(t, scope, n + 1) = MeetsUpTo(t, scope, n)
  BY WideOneMore DEF MeetsUpTo
<1>2. ASSUME WideAt(t, scope, n + 1)
      PROVE  MeetsUpTo(t, scope, n + 1) =
               MeetsUpTo(t, scope, n) \cup {<<Cardinality(Wide(t, scope, n)) + 1, script[t][n + 1]>>}
  <2>1. /\ Wide(t, scope, n + 1) = Wide(t, scope, n) \cup {n + 1}
        /\ Cardinality(Wide(t, scope, n + 1)) = Cardinality(Wide(t, scope, n)) + 1
    BY <1>2, WideOneMore
  <2> QED BY <2>1 DEF MeetsUpTo
<1> QED BY <1>1, <1>2

(* The rank of a rendezvous grows with its position.                       *)
LEMMA RanksGrow ==
  ASSUME NEW t, NEW scope, NEW i \in Nat, NEW j \in Nat, i <= j
  PROVE  /\ Cardinality(Wide(t, scope, i)) <= Cardinality(Wide(t, scope, j))
         /\ i < j /\ j \in Wide(t, scope, j) =>
              Cardinality(Wide(t, scope, i)) < Cardinality(Wide(t, scope, j))
<1>1. Wide(t, scope, i) \in SUBSET Wide(t, scope, j)
  BY DEF Wide
<1>2. Cardinality(Wide(t, scope, i)) <= Cardinality(Wide(t, scope, j))
  BY <1>1, WideFinite, FS_Subset
<1>3. ASSUME i < j, j \in Wide(t, scope, j)
      PROVE  Cardinality(Wide(t, scope, i)) < Cardinality(Wide(t, scope, j))
  <2>1. j \notin Wide(t, scope, i)
    BY <1>3 DEF Wide
  <2>2. Wide(t, scope, i) # Wide(t, scope, j)
    BY <1>3, <2>1
  <2> QED BY <1>1, <2>2, WideFinite, FS_Subset
<1> QED BY <1>2, <1>3

(* So a position is known by its rank.                                     *)
LEMMA RanksTellApart ==
  ASSUME NEW t, NEW scope, NEW n, NEW m,
         NEW i \in Wide(t, scope, n), NEW j \in Wide(t, scope, m),
         Cardinality(Wide(t, scope, i)) = Cardinality(Wide(t, scope, j)), n \in Nat, m \in Nat
  PROVE  i = j
<1>1. i \in Nat /\ j \in Nat /\ i \in Wide(t, scope, i) /\ j \in Wide(t, scope, j)
  BY DEF Wide
<1>2. Cardinality(Wide(t, scope, i)) \in Nat /\ Cardinality(Wide(t, scope, j)) \in Nat
  BY <1>1, WideFinite
<1>3. ~(i < j) /\ ~(j < i)
  BY <1>1, <1>2, RanksGrow
<1> QED BY <1>1, <1>3

(* Threads that wait alike wait at the same statement.                     *)
LEMMA WaitSame ==
  ASSUME Controlled, NEW t \in Threads, NEW u \in Threads,
         status[t].is = "Waiting", status[u].is = "Waiting", status[t].at = status[u].at
  PROVE  script[t][pc[t] - 1] = script[u][pc[u] - 1]
<1> DEFINE x == script[t][pc[t] - 1]
           y == script[u][pc[u] - 1]
<1>1. /\ pc[t] - 1 \in 1 .. Len(script[t]) /\ IsRendezvous(x) /\ status[t].at = x.at
      /\ pc[u] - 1 \in 1 .. Len(script[u]) /\ IsRendezvous(y) /\ status[u].at = y.at
  BY WaitedItem
<1>2. x \in RendezvousOf(script) /\ y \in RendezvousOf(script)
  BY <1>1 DEF RendezvousOf
<1>3. script \in Scripts /\ x.at = y.at
  BY <1>1 DEF Controlled
<1> QED BY <1>2, <1>3, ScriptsAssumption

-----------------------------------------------------------------------------
(* How the driver's steps change what a thread has met.                    *)

LEMMA FarType ==
  ASSUME Controlled, NEW t \in Threads
  PROVE  /\ Far(t) \in Nat /\ pc[t] \in Nat
         /\ status[t].is # "Waiting" => Far(t) = pc[t] - 1
         /\ status[t].is = "Waiting" => Far(t) = pc[t] - 2 /\ Far(t) + 1 = pc[t] - 1
<1>1. pc[t] \in Nat \ {0}
  BY PlaceInScript
<1>2. status[t].is = "Waiting" => pc[t] > 1
  BY DEF Controlled, WaitsAtItem
<1> QED BY <1>1, <1>2 DEF Far

LEMMA StillMet ==
  ASSUME NEW t \in Threads, Far(t)' = Far(t), script' = script, NEW scope
  PROVE  Times(t, scope)' = Times(t, scope) /\ Met(t, scope)' = Met(t, scope)
BY DEF Times, Met, MeetsUpTo, Wide

LEMMA FarStays ==
  ASSUME NEW t \in Threads, status'[t] = status[t], pc'[t] = pc[t]
  PROVE  Far(t)' = Far(t)
BY DEF Far

(* A thread let go on has met the others once more, at what it waited at,  *)
(* if that was of a scope wide enough.                                     *)
LEMMA ReleasedMeets ==
  ASSUME Controlled, NEW t \in Threads, status[t].is = "Waiting",
         status'[t] = Runnable, script' = script, pc' = pc, NEW scope
  PROVE  /\ Width(status[t].scope) >= Width(scope) =>
              /\ Times(t, scope)' = Times(t, scope) + 1
              /\ Met(t, scope)' = Met(t, scope) \cup {<<Times(t, scope) + 1, script[t][pc[t] - 1]>>}
         /\ ~(Width(status[t].scope) >= Width(scope)) =>
              Times(t, scope)' = Times(t, scope) /\ Met(t, scope)' = Met(t, scope)
<1>1. Far(t) \in Nat /\ Far(t) + 1 = pc[t] - 1
  BY FarType
<1>2. Far(t)' = Far(t) + 1
  <2>1. status'[t].is # "Waiting"
    BY Tags
  <2> QED BY <1>1, <2>1 DEF Far
<1>3. /\ Times(t, scope)' = Cardinality(Wide(t, scope, Far(t) + 1))
      /\ Met(t, scope)' = MeetsUpTo(t, scope, Far(t) + 1)
  BY <1>2 DEF Times, Met, MeetsUpTo, Wide
<1>4. WideAt(t, scope, Far(t) + 1) <=> Width(status[t].scope) >= Width(scope)
  BY <1>1, WaitedItem DEF WideAt
<1>5. WideAt(t, scope, Far(t) + 1) =>
        /\ Times(t, scope)' = Times(t, scope) + 1
        /\ Met(t, scope)' = Met(t, scope) \cup {<<Times(t, scope) + 1, script[t][Far(t) + 1]>>}
  BY <1>1, <1>3, WideOneMore, MeetsOneMore DEF Times, Met
<1>6. ~WideAt(t, scope, Far(t) + 1) => Times(t, scope)' = Times(t, scope) /\ Met(t, scope)' = Met(t, scope)
  BY <1>1, <1>3, WideOneMore, MeetsOneMore DEF Times, Met
<1> QED BY <1>1, <1>4, <1>5, <1>6

(* A thread that runs on, up to a rendezvous or its end, meets nobody.     *)
LEMMA RunningMeets ==
  ASSUME Controlled, NEW t \in Threads, Step(t) \/ Arrive(t) \/ Finish(t),
         NEW u \in Threads, NEW scope
  PROVE  Times(u, scope)' = Times(u, scope) /\ Met(u, scope)' = Met(u, scope)
<1>1. /\ pc \in [Threads -> Nat \ {0}] /\ status \in [Threads -> Places]
      /\ status[t] = Runnable /\ script' = script
  BY RunningFacts DEF Controlled, DriverTypeOK, Places, Step, Arrive, Finish
<1>2. CASE u # t
  <2>1. pc'[u] = pc[u] /\ status'[u] = status[u]
    BY <1>1, <1>2 DEF Step, Arrive, Finish
  <2> QED BY <1>1, <2>1, FarStays, StillMet
<1>3. CASE u = t
  <2>1. status[t].is # "Waiting" /\ Done.is # "Waiting" /\ Far(t) = pc[t] - 1 /\ Far(t) \in Nat
    BY <1>1, Tags, FarType
  <2>2. CASE Step(t) /\ pc' = [pc EXCEPT ![t] = @ + 1]
    <3>1. Far(t)' = Far(t) + 1
      <4>1. status'[t] = status[t] /\ pc'[t] = pc[t] + 1
        BY <1>1, <2>2 DEF Step
      <4> QED BY <1>1, <2>1, <4>1 DEF Far
    <3>2. ~WideAt(t, scope, Far(t) + 1)
      <4>1. Far(t) + 1 = pc[t]
        BY <1>1, <2>1
      <4> QED BY <2>2, <4>1 DEF Step, Item, WideAt
    <3>3. /\ Times(t, scope)' = Cardinality(Wide(t, scope, Far(t) + 1))
          /\ Met(t, scope)' = MeetsUpTo(t, scope, Far(t) + 1)
      BY <1>1, <3>1 DEF Times, Met, MeetsUpTo, Wide
    <3> QED BY <1>3, <2>1, <3>2, <3>3, WideOneMore, MeetsOneMore DEF Times, Met
  <2>3. CASE Step(t) /\ pc' = pc
    BY <1>1, <1>3, <2>3, FarStays, StillMet DEF Step
  <2>4. CASE Arrive(t)
    <3>1. status'[t] = Waiting(Item(t)) /\ pc'[t] = pc[t] + 1
      BY <1>1, <2>4 DEF Arrive
    <3>2. Far(t)' = Far(t)
      BY <1>1, <2>1, <3>1, Tags DEF Far
    <3> QED BY <1>1, <1>3, <3>2, StillMet
  <2>5. CASE Finish(t)
    <3>1. status'[t] = Done /\ pc' = pc
      BY <1>1, <2>5 DEF Finish
    <3>2. Far(t)' = Far(t)
      BY <2>1, <3>1 DEF Far
    <3> QED BY <1>1, <1>3, <3>2, StillMet
  <2> QED BY <2>2, <2>3, <2>4, <2>5 DEF Step
<1> QED BY <1>2, <1>3

(* A release lets go, of the threads of a scope, all or none of those that *)
(* wait at a statement that wide, and they wait at the same one.           *)
LEMMA ReleaseKeepsTogether ==
  ASSUME Controlled, Together, script' = script, pc' = pc,
         \A t \in Threads : status'[t] = status[t] \/ (status[t].is = "Waiting" /\ status'[t] = Runnable),
         \A t, u \in Threads : \A s \in MeetingScopes :
           Contains(s, t, u) /\ status'[t] # status[t] /\ Width(status[t].scope) >= Width(s)
             => status'[u] # status[u] /\ status[u] = status[t]
  PROVE  Together'
<1> SUFFICES ASSUME NEW t \in Threads, NEW u \in Threads, NEW s \in MeetingScopes, Contains(s, t, u)
             PROVE  Times(t, s)' = Times(u, s)' /\ Met(t, s)' = Met(u, s)'
  BY DEF Together, Contains, BlockOf, SubOf, ClusterOf, ClusterOfBlock, Threads, Blocks
<1>1. Times(t, s) = Times(u, s) /\ Met(t, s) = Met(u, s) /\ Contains(s, u, t)
  BY DEF Together, Contains
<1> DEFINE moves(v) == status'[v] # status[v] /\ Width(status[v].scope) >= Width(s)
<1>2. ASSUME NEW v \in Threads, ~moves(v)
      PROVE  Times(v, s)' = Times(v, s) /\ Met(v, s)' = Met(v, s)
  <2>1. CASE status'[v] = status[v]
    BY <2>1, FarStays, StillMet
  <2>2. CASE status'[v] # status[v]
    BY <1>2, <2>2, ReleasedMeets
  <2> QED BY <2>1, <2>2
<1>3. ASSUME NEW v \in Threads, moves(v)
      PROVE  /\ Times(v, s)' = Times(v, s) + 1
             /\ Met(v, s)' = Met(v, s) \cup {<<Times(v, s) + 1, script[v][pc[v] - 1]>>}
             /\ status[v].is = "Waiting"
  BY <1>3, ReleasedMeets
<1>4. moves(t) <=> moves(u)
  BY <1>1
<1>5. CASE ~moves(t)
  BY <1>1, <1>2, <1>4, <1>5
<1>6. CASE moves(t)
  <2>1. status[u] = status[t] /\ moves(u) /\ status[t].is = "Waiting" /\ status[u].is = "Waiting"
    BY <1>3, <1>4, <1>6
  <2>2. script[t][pc[t] - 1] = script[u][pc[u] - 1]
    BY <2>1, WaitSame
  <2> QED BY <1>1, <1>3, <1>6, <2>1, <2>2
<1> QED BY <1>5, <1>6

-----------------------------------------------------------------------------
(* Every step keeps the threads together.                                  *)

(* A scope no wider than the rendezvous of a released group is inside it.  *)
LEMMA GroupHolds ==
  ASSUME NEW t \in Threads, NEW u \in Threads, NEW s \in MeetingScopes, Contains(s, t, u),
         NEW sc \in {"Subgroup", "Block"}, Width(sc) >= Width(s)
  PROVE  BlockOf(u) = BlockOf(t) /\ (sc = "Subgroup" => SubOf(u) = SubOf(t))
<1>1. s \in {"Subgroup", "Block"} /\ (sc = "Subgroup" => s = "Subgroup")
  BY Widths DEF MeetingScopes
<1> QED BY <1>1 DEF Contains

LEMMA ReleaseTogether ==
  ASSUME Controlled, Together, NEW b \in Blocks, Release(b)
  PROVE  Together'
<1>1. /\ script' = script /\ pc' = pc
      /\ status' = [t \in Threads |-> IF t \in UNION Ready(b) THEN Runnable ELSE status[t]]
  BY DEF Release
<1>2. \A t \in Threads : status'[t] = status[t] \/ (status[t].is = "Waiting" /\ status'[t] = Runnable)
  BY <1>1, ReadyMember
<1>3. ASSUME NEW t \in Threads, NEW u \in Threads, NEW s \in MeetingScopes, Contains(s, t, u),
             status'[t] # status[t], Width(status[t].scope) >= Width(s)
      PROVE  status'[u] # status[u] /\ status[u] = status[t]
  <2>1. PICK g \in Ready(b) : t \in g
    BY <1>1, <1>3
  <2>2. /\ BlockOf(t) = b /\ status[t].is = "Waiting"
        /\ \A v \in g : status[v] = status[t]
    BY <2>1, ReadyMember
  <2>3. \/ status[t].scope = "Subgroup" /\ g = SubgroupThreads(b, SubOf(t))
        \/ status[t].scope = "Block" /\ g = BlockThreads(b)
    BY <2>1, ReleasedScopes
  <2>4. BlockOf(u) = BlockOf(t) /\ (status[t].scope = "Subgroup" => SubOf(u) = SubOf(t))
    BY <1>3, <2>3, GroupHolds
  <2>5. u \in g
    BY <2>2, <2>3, <2>4 DEF SubgroupThreads, BlockThreads
  <2>6. status'[u] = Runnable /\ status[u] = status[t]
    BY <1>1, <2>1, <2>2, <2>5
  <2> QED BY <2>2, <2>6, Tags
<1> QED BY <1>1, <1>2, <1>3, ReleaseKeepsTogether

(* Blocks resume: those that hold a thread hold the others of its scope.   *)
LEMMA ResumeTogether ==
  ASSUME Controlled, Together, NEW bs \in SUBSET Blocks, Resume(bs),
         NEW scope \in {"Cluster", "Device"},
         \A b \in bs : stops[b].is = "Waiting" /\ stops[b].scope = scope,
         \A t, u \in Threads :
           BlockOf(t) \in bs /\ Contains(scope, t, u)
             => BlockOf(u) \in bs /\ stops[BlockOf(u)] = stops[BlockOf(t)]
  PROVE  Together'
<1>1. /\ status' = [t \in Threads |-> IF BlockOf(t) \in bs THEN Runnable ELSE status[t]]
      /\ script' = script /\ pc' = pc
  BY DEF Resume
<1>2. ASSUME NEW t \in Threads, BlockOf(t) \in bs
      PROVE  /\ status[t] = stops[BlockOf(t)] /\ status[t].is = "Waiting" /\ status[t].scope = scope
             /\ status'[t] = Runnable /\ status'[t] # status[t]
  <2>1. stops[BlockOf(t)] # NotStopped /\ stops[BlockOf(t)] # Done
    BY <1>2, Tags
  <2>2. status[t] = stops[BlockOf(t)] /\ status[t].is = "Waiting"
    BY <2>1, StoppedWaits
  <2> QED BY <1>1, <1>2, <2>2, Tags
<1>3. \A t \in Threads : BlockOf(t) \notin bs => status'[t] = status[t]
  BY <1>1
<1>4. ASSUME NEW t \in Threads, NEW u \in Threads, NEW s \in MeetingScopes, Contains(s, t, u),
             status'[t] # status[t], Width(status[t].scope) >= Width(s)
      PROVE  status'[u] # status[u] /\ status[u] = status[t]
  <2>1. BlockOf(t) \in bs /\ Width(scope) >= Width(s)
    BY <1>2, <1>3, <1>4
  <2>2. Contains(scope, t, u)
    <3>1. scope = "Cluster" => s # "Device"
      BY <2>1, Widths
    <3>2. s \in {"Subgroup", "Block", "Cluster"} => ClusterOf(t) = ClusterOf(u)
      BY <1>4 DEF Contains, BlockOf, ClusterOf
    <3> QED BY <3>1, <3>2 DEF Contains, MeetingScopes
  <2> QED BY <1>2, <2>1, <2>2
<1> QED BY <1>1, <1>2, <1>3, <1>4, ReleaseKeepsTogether

LEMMA GridTogether ==
  ASSUME Controlled, Together, ReleaseGrid
  PROVE  Together'
<1>1. PICK b \in Blocks : stops[b].is = "Waiting" /\ stops[b].scope = "Device"
  BY DEF ReleaseGrid, OnDevice
<1>2. \A c \in Blocks : stops[c] = stops[b] /\ stops[c].is = "Waiting" /\ stops[c].scope = "Device"
  BY <1>1 DEF ReleaseGrid, Agree
<1>3. Resume(Blocks) /\ \A t \in Threads : BlockOf(t) \in Blocks
  BY ThreadsOfBlock DEF ReleaseGrid
<1> QED BY <1>2, <1>3, ResumeTogether

LEMMA ClustersTogether ==
  ASSUME Controlled, Together, ReleaseClusters
  PROVE  Together'
<1> DEFINE bs == {b \in Blocks : ClusterOfBlock(b) \in Going}
<1>1. Resume(bs)
  BY DEF ReleaseClusters
<1>2. ASSUME NEW b \in bs
      PROVE  stops[b].is = "Waiting" /\ stops[b].scope = "Cluster"
  <2>1. b \in Blocks /\ b \in ClusterBlocks(ClusterOfBlock(b)) /\ ClusterOfBlock(b) \in Clusters
    BY DEF Going, ClusterBlocks
  <2>2. PICK a \in ClusterBlocks(ClusterOfBlock(b)) : stops[a] # Done
    BY DEF Going
  <2>3. stops[b] # Done /\ stops[b] # NotStopped
    BY <2>1, <2>2 DEF ReleaseClusters, Agree, AllStopped
  <2>4. stops[b].is = "Waiting" /\ stops[b].scope \in {"Cluster", "Device"}
    BY <2>1, <2>3, BlockTypes, PlaceTypes
  <2> QED BY <2>1, <2>4 DEF ReleaseClusters, OnDevice
<1>3. ASSUME NEW t \in Threads, NEW u \in Threads, BlockOf(t) \in bs, Contains("Cluster", t, u)
      PROVE  BlockOf(u) \in bs /\ stops[BlockOf(u)] = stops[BlockOf(t)]
  <2>1. /\ BlockOf(t) \in Blocks /\ BlockOf(u) \in Blocks
        /\ ClusterOfBlock(BlockOf(t)) = ClusterOfBlock(BlockOf(u))
        /\ ClusterOfBlock(BlockOf(t)) \in Clusters
    BY <1>3, ThreadsOfBlock DEF Contains
  <2>2. BlockOf(u) \in bs
    BY <1>3, <2>1
  <2> QED BY <2>1, <2>2 DEF ReleaseClusters, Agree, ClusterBlocks
<1> HIDE DEF bs
<1>4. bs \in SUBSET Blocks
  BY DEF bs
<1> QED BY <1>1, <1>2, <1>3, <1>4, ResumeTogether

LEMMA TogetherStep ==
  ASSUME Controlled, Together, [DriverNext]_driverVars
  PROVE  Together'
<1>1. ASSUME \A t \in Threads : \A s \in MeetingScopes : Times(t, s)' = Times(t, s) /\ Met(t, s)' = Met(t, s)
      PROVE  Together'
  BY <1>1 DEF Together, Contains, BlockOf, SubOf, ClusterOf, ClusterOfBlock, Threads, Blocks
<1>2. ASSUME UNCHANGED <<script, pc, status>>
      PROVE  Together'
  <2>1. \A t \in Threads : Far(t)' = Far(t)
    BY <1>2, FarStays
  <2> QED BY <1>1, <1>2, <2>1, StillMet
<1>3. ASSUME NEW t \in Threads, Step(t) \/ Arrive(t) \/ Finish(t)
      PROVE  Together'
  BY <1>1, <1>3, RunningMeets
<1>4. ASSUME NEW t \in Threads, RunAway(t) \/ StatementTraps(t)
      PROVE  UNCHANGED <<script, pc, status>>
  BY <1>4 DEF RunAway, StatementTraps
<1>5. ASSUME NEW b \in Blocks, StopBlock(b) \/ DeliveryTraps(b) \/ Mismatch(b)
      PROVE  UNCHANGED <<script, pc, status>>
  BY <1>5 DEF StopBlock, DeliveryTraps, Mismatch, threadVars
<1>6. GridFinished \/ GridMismatch => UNCHANGED <<script, pc, status>>
  BY DEF GridFinished, GridMismatch, threadVars
<1>7. UNCHANGED driverVars => UNCHANGED <<script, pc, status>>
  BY DEF driverVars, threadVars
<1> QED BY <1>2, <1>3, <1>4, <1>5, <1>6, <1>7, ReleaseTogether, GridTogether, ClustersTogether DEF DriverNext

-----------------------------------------------------------------------------
(* What a mismatch says of the scripts.                                    *)

(* In a launch whose scripts align, nobody waits for a thread that has     *)
(* ended, and two that wait for each other wait at the same statement.     *)
LEMMA AlignedMeet ==
  ASSUME Controlled, Together, Aligned, NEW s \in MeetingScopes,
         NEW t \in Threads, NEW u \in Threads, Contains(s, t, u),
         status[t].is = "Waiting", Width(status[t].scope) >= Width(s)
  PROVE  /\ status[u] # Done
         /\ status[u].is = "Waiting" /\ Width(status[u].scope) >= Width(s) => status[u] = status[t]
<1> DEFINE x == script[t][pc[t] - 1]
           n == Times(u, s)
<1>1. /\ Len(script[u]) \in Nat /\ Far(u) \in Nat /\ Far(t) \in Nat /\ Far(t) + 1 = pc[t] - 1
      /\ pc[t] - 1 \in 1 .. Len(script[t]) /\ status[t].scope = x.scope /\ IsRendezvous(x)
      /\ n \in Nat
  BY PlaceInScript, FarType, WaitedItem, WideFinite DEF Times
<1>2. pc[t] - 1 \in Wide(t, s, Len(script[t])) /\ WideAt(t, s, Far(t) + 1)
  BY <1>1 DEF Wide, WideAt
<1>3. Cardinality(Wide(t, s, pc[t] - 1)) = n + 1
  BY <1>1, <1>2, WideOneMore DEF Times, Together
<1>4. <<n + 1, x>> \in Meets(u, s)
  <2>1. Meets(t, s) = Meets(u, s)
    BY DEF Aligned
  <2>2. <<Cardinality(Wide(t, s, pc[t] - 1)), x>> \in Meets(t, s)
    BY <1>2 DEF Meets, MeetsUpTo
  <2> QED BY <1>3, <2>1, <2>2, Zenon
<1>5. PICK i \in Wide(u, s, Len(script[u])) : Cardinality(Wide(u, s, i)) = n + 1 /\ script[u][i] = x
  BY <1>4 DEF Meets, MeetsUpTo
<1>6. i \in Nat /\ i <= Len(script[u])
  BY <1>1, <1>5 DEF Wide
<1>7. ASSUME status[u] = Done
      PROVE  FALSE
  <2>1. pc[u] = Len(script[u]) + 1 /\ Far(u) = Len(script[u])
    BY <1>1, <1>7, FarType, Tags DEF Controlled, DoneAtEnd
  <2>2. Cardinality(Wide(u, s, i)) <= n
    BY <1>1, <1>6, <2>1, RanksGrow DEF Times
  <2> QED BY <1>1, <1>5, <2>2
<1>8. ASSUME status[u].is = "Waiting", Width(status[u].scope) >= Width(s)
      PROVE  status[u] = status[t]
  <2> DEFINE j == pc[u] - 1
  <2>1. /\ j \in 1 .. Len(script[u]) /\ Far(u) + 1 = j /\ IsRendezvous(script[u][j])
        /\ status[u].scope = script[u][j].scope
    BY <1>8, WaitedItem, FarType
  <2>2. j \in Wide(u, s, Len(script[u])) /\ WideAt(u, s, Far(u) + 1)
    BY <1>8, <2>1 DEF Wide, WideAt
  <2>3. Cardinality(Wide(u, s, j)) = n + 1
    BY <1>1, <2>1, <2>2, WideOneMore DEF Times
  <2>4. i = j
    BY <1>1, <1>5, <2>2, <2>3, RanksTellApart
  <2>5. status[t] = Waiting(x) /\ status[u] = Waiting(script[u][j])
    BY <1>8 DEF Controlled, WaitsAtItem
  <2> QED BY <1>5, <2>4, <2>5
<1> QED BY <1>7, <1>8

(* What threads of a block wait at, once it runs no more.                  *)
LEMMA WaitScopes ==
  ASSUME Controlled, NEW t \in Threads, status[t].is = "Waiting"
  PROVE  /\ status[t].scope \in MeetingScopes
         /\ Width(status[t].scope) >= Width("Subgroup")
         /\ status[t].scope # "Subgroup" => Width(status[t].scope) >= Width("Block")
<1>1. status[t].scope \in {"Subgroup", "Block", "Cluster", "Device"}
  BY WaitedItem, RendezvousType DEF Controlled
<1> QED BY <1>1, Widths DEF MeetingScopes

(* The block reports a mismatch (release).                                 *)
LEMMA MismatchInBlock ==
  ASSUME Controlled, Together, NEW b \in Blocks, Mismatch(b)
  PROVE  ~Aligned
<1> SUFFICES ASSUME Aligned PROVE FALSE
  OBVIOUS
<1>1. \A t \in BlockThreads(b) : t \in Threads /\ BlockOf(t) = b /\ (status[t].is = "Waiting" \/ status[t] = Done)
  BY BlockTypes, PlaceTypes DEF Mismatch, PhaseOver, BlockThreads
<1>2. "Subgroup" \in MeetingScopes /\ "Block" \in MeetingScopes
  BY DEF MeetingScopes
<1>3. ASSUME NEW w \in BlockThreads(b), status[w].is = "Waiting", NEW u \in GroupOf(w)
      PROVE  /\ u \in BlockThreads(b) /\ status[u] # Done /\ status[u].is = "Waiting"
             /\ status[w].scope = "Subgroup" => status[u] = status[w]
  <2>1. CASE status[w].scope = "Subgroup"
    <3>1. u \in BlockThreads(b) /\ u \in Threads /\ Contains("Subgroup", w, u)
      BY <1>1, <1>3, <2>1 DEF GroupOf, SubgroupThreads, BlockThreads, Contains
    <3>2. status[u] # Done /\ status[u].is = "Waiting"
      BY <1>1, <1>2, <1>3, <3>1, WaitScopes, AlignedMeet
    <3> QED BY <1>1, <1>2, <1>3, <3>1, <3>2, WaitScopes, AlignedMeet
  <2>2. CASE status[w].scope # "Subgroup"
    <3>1. u \in BlockThreads(b) /\ u \in Threads /\ Contains("Block", w, u)
      BY <1>1, <1>3, <2>2 DEF GroupOf, BlockThreads, Contains
    <3>2. status[u] # Done
      BY <1>1, <1>2, <1>3, <2>2, <3>1, WaitScopes, AlignedMeet
    <3> QED BY <1>1, <2>2, <3>1, <3>2
  <2> QED BY <2>1, <2>2
<1>4. ~Stranded(b)
  BY <1>3 DEF Stranded, Waiters
<1>5. PICK w \in BlockThreads(b) : status[w].is = "Waiting"
  BY <1>1 DEF Mismatch, BlockDone
<1>6. ASSUME NEW v \in BlockThreads(b), status[v].is = "Waiting", \A u \in GroupOf(v) : status[u] = status[v]
      PROVE  FALSE
  BY <1>4, <1>6 DEF Mismatch, Ready, Waiters
<1>7. \A v \in BlockThreads(b) : status[v].is = "Waiting" => status[v].scope # "Subgroup"
  BY <1>3, <1>6
<1>8. ASSUME NEW u \in GroupOf(w)
      PROVE  status[u] = status[w]
  <2>1. u \in BlockThreads(b) /\ status[u].is = "Waiting" /\ Contains("Block", w, u)
    BY <1>1, <1>3, <1>5 DEF Contains
  <2> QED BY <1>1, <1>2, <1>5, <1>7, <2>1, WaitScopes, AlignedMeet
<1> QED BY <1>5, <1>6, <1>8

(* The grid does (grid_release).                                           *)
LEMMA MismatchOfGrid ==
  ASSUME Controlled, Together, GridMismatch
  PROVE  ~Aligned \/ MixesGridScopes
<1> SUFFICES ASSUME Aligned PROVE MixesGridScopes
  OBVIOUS
<1> DEFINE first(b) == <<b, 0>>
<1>1. ASSUME NEW b \in Blocks
      PROVE  /\ first(b) \in Threads /\ BlockOf(first(b)) = b /\ ClusterOf(first(b)) = ClusterOfBlock(b)
             /\ status[first(b)] = stops[b] /\ (stops[b] = Done \/ stops[b].is = "Waiting")
             /\ stops[b].is = "Waiting" => stops[b].scope \in {"Cluster", "Device"}
  <2>1. first(b) \in BlockThreads(b) /\ stops[b] # NotStopped /\ stops[b] \in Stops
    BY ThreadsOfBlock, BlockTypes DEF GridMismatch, AllStopped
  <2>2. first(b) \in Threads /\ BlockOf(first(b)) = b
    BY <2>1 DEF BlockThreads
  <2>3. ClusterOf(first(b)) = ClusterOfBlock(b)
    BY <2>2, ThreadsOfBlock
  <2> QED BY <2>1, <2>2, <2>3, BlockTypes, PlaceTypes
<1> HIDE DEF first
<1>2. "Cluster" \in MeetingScopes /\ "Device" \in MeetingScopes
  BY DEF MeetingScopes
<1>3. ASSUME NEW b \in Blocks, NEW sc \in {"Cluster", "Device"}, stops[b].is = "Waiting", stops[b].scope = sc
      PROVE  \E t \in Threads : \E i \in 1 .. Len(script[t]) :
               script[t][i].op = "Barrier" /\ script[t][i].scope = sc
  <2> DEFINE t == first(b)
             i == pc[t] - 1
  <2>1. /\ t \in Threads /\ i \in 1 .. Len(script[t]) /\ IsRendezvous(script[t][i])
        /\ script[t][i].scope = sc
    BY <1>1, <1>3, WaitedItem
  <2>2. script[t][i].op = "Barrier"
    BY <2>1, RendezvousType DEF Controlled
  <2> QED BY <2>1, <2>2
<1>4. ASSUME NEW a \in Blocks, NEW b \in Blocks, NEW s \in {"Cluster", "Device"},
             s = "Cluster" => ClusterOfBlock(a) = ClusterOfBlock(b),
             stops[a].is = "Waiting", Width(stops[a].scope) >= Width(s),
             stops[b].is = "Waiting" => Width(stops[b].scope) >= Width(s)
      PROVE  stops[a] = stops[b]
  <2>1. Contains(s, first(a), first(b))
    BY <1>1, <1>4 DEF Contains
  <2> QED BY <1>1, <1>2, <1>4, <2>1, AlignedMeet
<1>5. CASE OnDevice
  <2>1. PICK b \in Blocks : stops[b].is = "Waiting" /\ stops[b].scope = "Device"
    BY <1>5 DEF OnDevice
  <2>2. PICK a \in Blocks : stops[a] # stops[b]
    BY <1>5, <2>1 DEF GridMismatch, Agree
  <2>3. ~(stops[a].is = "Waiting" => Width(stops[a].scope) >= Width("Device"))
    BY <1>4, <2>1, <2>2, Widths
  <2>4. stops[a].is = "Waiting" /\ stops[a].scope = "Cluster"
    BY <1>1, <2>3, Widths
  <2> QED BY <1>3, <2>1, <2>4 DEF MixesGridScopes
<1>6. CASE ~OnDevice
  <2>1. \A b \in Blocks : stops[b].is = "Waiting" => stops[b].scope = "Cluster"
    BY <1>1, <1>6 DEF OnDevice
  <2>2. PICK c \in Clusters : \E a, b \in ClusterBlocks(c) : stops[a] # stops[b]
    BY <1>6 DEF GridMismatch, Agree
  <2>3. PICK a \in ClusterBlocks(c), b \in ClusterBlocks(c) : stops[a] # stops[b]
    BY <2>2
  <2>4. /\ a \in Blocks /\ b \in Blocks /\ ClusterOfBlock(a) = ClusterOfBlock(b)
        /\ Width("Cluster") >= Width("Cluster")
    BY <2>3, Widths DEF ClusterBlocks
  <2>5. stops[a].is = "Waiting" \/ stops[b].is = "Waiting"
    BY <1>1, <2>3, <2>4
  <2>6. CASE stops[a].is = "Waiting"
    BY <1>4, <2>1, <2>3, <2>4, <2>6
  <2>7. CASE stops[b].is = "Waiting"
    BY <1>4, <2>1, <2>3, <2>4, <2>7
  <2> QED BY <2>5, <2>6, <2>7
<1> QED BY <1>5, <1>6

-----------------------------------------------------------------------------
(* The inductive invariant and what follows from it.                       *)

LEMMA TogetherInit ==
  ASSUME DriverInit
  PROVE  Together
<1>1. ASSUME NEW t \in Threads, NEW s
      PROVE  Times(t, s) = 0 /\ Met(t, s) = {}
  <2>1. pc[t] = 1 /\ status[t].is # "Waiting"
    BY Tags DEF DriverInit
  <2>2. Far(t) = 0
    BY <2>1 DEF Far
  <2>3. Wide(t, s, 0) = {}
    BY DEF Wide
  <2> QED BY <2>2, <2>3, FS_EmptySet DEF Times, Met, MeetsUpTo
<1> QED BY <1>1 DEF Together

LEMMA MismatchIsRealStep ==
  ASSUME Controlled, Together, MismatchIsReal, [DriverNext]_driverVars
  PROVE  MismatchIsReal'
<1>1. script' = script => (Aligned' <=> Aligned) /\ (MixesGridScopes' <=> MixesGridScopes)
  BY DEF Aligned, Meets, MeetsUpTo, Wide, MixesGridScopes
<1>2. ASSUME NEW t \in Threads, Step(t) \/ Arrive(t) \/ Finish(t) \/ RunAway(t) \/ StatementTraps(t)
      PROVE  outcome' # "BarrierMismatch"
  BY <1>2, RunningFacts DEF Step, Arrive, Finish, RunAway, StatementTraps
<1>3. ASSUME NEW b \in Blocks, StopBlock(b) \/ Release(b) \/ DeliveryTraps(b)
      PROVE  outcome' # "BarrierMismatch"
  BY <1>3 DEF StopBlock, Release, DeliveryTraps, PhaseOver, Advancing
<1>4. ASSUME GridFinished \/ ReleaseGrid \/ ReleaseClusters
      PROVE  outcome' # "BarrierMismatch"
  BY <1>4 DEF GridFinished, ReleaseGrid, ReleaseClusters, Resume, AllStopped
<1>5. ASSUME NEW b \in Blocks, Mismatch(b)
      PROVE  MismatchIsReal'
  BY <1>1, <1>5, MismatchInBlock DEF MismatchIsReal, Mismatch
<1>6. GridMismatch => MismatchIsReal'
  BY <1>1, MismatchOfGrid DEF MismatchIsReal, GridMismatch
<1>7. UNCHANGED driverVars => MismatchIsReal'
  BY <1>1 DEF MismatchIsReal, driverVars
<1>8. outcome' # "BarrierMismatch" => MismatchIsReal'
  BY DEF MismatchIsReal
<1> QED BY <1>2, <1>3, <1>4, <1>5, <1>6, <1>7, <1>8 DEF DriverNext

LEMMA FinishFollows ==
  ASSUME AlignedInv
  PROVE  FinishedIsAligned
<1> SUFFICES ASSUME outcome = "Finished"
             PROVE  Aligned
  BY DEF FinishedIsAligned
<1>1. ASSUME NEW t \in Threads
      PROVE  Far(t) = Len(script[t])
  <2>1. status[t] = Done /\ pc[t] = Len(script[t]) + 1
    BY DEF AlignedInv, DriverInv, OutcomeIsReal, Controlled, DoneAtEnd
  <2>2. Len(script[t]) \in Nat
    BY PlaceInScript DEF AlignedInv, DriverInv
  <2> QED BY <2>1, <2>2, Tags DEF Far
<1>2. \A t \in Threads : \A s : Meets(t, s) = Met(t, s)
  BY <1>1 DEF Meets, Met
<1> QED BY <1>2 DEF Aligned, AlignedInv, Together

LEMMA AlignedInvInit ==
  ASSUME DriverInit
  PROVE  AlignedInv
<1>1. MismatchIsReal
  BY DEF DriverInit, MismatchIsReal
<1> QED BY <1>1, DriverInvInit, TogetherInit DEF AlignedInv

LEMMA AlignedInvStep ==
  ASSUME AlignedInv, [DriverNext]_driverVars
  PROVE  AlignedInv'
BY DriverInvStep, TogetherStep, MismatchIsRealStep DEF AlignedInv, DriverInv

THEOREM AlignedInvariant == DriverSpec => []AlignedInv
<1>1. DriverInit => AlignedInv
  BY AlignedInvInit
<1>2. AlignedInv /\ [DriverNext]_driverVars => AlignedInv'
  BY AlignedInvStep
<1> QED BY <1>1, <1>2, PTL DEF DriverSpec

(* Whatever the launch, the scripts and the limit: if it finishes, all the *)
(* threads of a scope met at the same barriers, collectives and MMAs in    *)
(* the same order (release, grid_release): no rendezvous was let through   *)
(* that a thread of its scope did not reach.                               *)
THEOREM FinishedAligned == DriverSpec => []FinishedIsAligned
<1>1. AlignedInv => FinishedIsAligned
  BY FinishFollows
<1> QED BY <1>1, AlignedInvariant, PTL

(* And BarrierMismatch is no false alarm: it is reported only of threads   *)
(* that do not all meet at the same statements, or of a kernel that has    *)
(* barriers of clusters and of the grid both.                              *)
THEOREM MismatchReal == DriverSpec => []MismatchIsReal
<1>1. AlignedInv => MismatchIsReal
  BY DEF AlignedInv
<1> QED BY <1>1, AlignedInvariant, PTL

=============================================================================
