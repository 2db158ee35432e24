---------------------------- MODULE LaunchProofs ----------------------------
(***************************************************************************)
(* Proofs about whole launches: the order in which the driver runs the     *)
(* threads' statements and releases their barriers is one the detector's   *)
(* specification allows, so what is proved of it holds of every launch.    *)
(***************************************************************************)
EXTENDS Launch, RaceSoundnessProofs

(* What is proved of the driver alone.                                     *)
P == INSTANCE LaunchDriverProofs

(* The driver speaks of the same hierarchy.                                *)
LEMMA DriverHierarchy ==
  /\ D!Threads = Threads
  /\ D!Blocks = Blocks
  /\ D!Subgroups = Subgroups
  /\ D!Clusters = Clusters
  /\ \A b : D!ClusterOfBlock(b) = ClusterOfBlock(b)
BY DEF D!Threads, Threads, D!Blocks, Blocks, D!Subgroups, Subgroups, D!SubOf, SubOf,
       D!Clusters, Clusters, D!ClusterOfBlock, ClusterOfBlock

(* What the next statement of a thread is read from (ThreadRun).           *)
Located ==
  /\ script \in Scripts
  /\ pc \in [Threads -> Nat \ {0}]

(* Moving one thread on by a statement keeps it located.                   *)
LEMMA AdvancedIsLocated ==
  ASSUME Located, NEW t \in Threads, script' = script,
         pc' = pc \/ pc' = [pc EXCEPT ![t] = @ + 1]
  PROVE  Located'
BY DEF Located

(* The driver's steps keep every thread located.                           *)
LEMMA LocatedStep ==
  ASSUME Located, [LaunchNext]_launchVars
  PROVE  Located'
<1>1. ASSUME NEW t \in Threads, D!Step(t) \/ D!Arrive(t)
      PROVE  Located'
  <2>1. script' = script /\ (pc' = pc \/ pc' = [pc EXCEPT ![t] = @ + 1])
    BY <1>1 DEF D!Step, D!Arrive
  <2> QED BY <2>1, AdvancedIsLocated
<1>2. ASSUME NEW t \in Threads, D!Finish(t) \/ D!RunAway(t) \/ D!StatementTraps(t)
      PROVE  UNCHANGED <<script, pc>>
  BY <1>2 DEF D!Finish, D!RunAway, D!StatementTraps
<1>3. ASSUME NEW b \in Blocks, D!StopBlock(b) \/ D!Release(b) \/ D!DeliveryTraps(b) \/ D!Mismatch(b)
      PROVE  UNCHANGED <<script, pc>>
  BY <1>3 DEF D!StopBlock, D!Release, D!DeliveryTraps, D!Mismatch, D!threadVars
<1>4. ASSUME D!GridFinished \/ D!GridMismatch \/ D!ReleaseGrid \/ D!ReleaseClusters
      PROVE  UNCHANGED <<script, pc>>
  BY <1>4 DEF D!GridFinished, D!GridMismatch, D!ReleaseGrid, D!ReleaseClusters, D!Resume, D!threadVars
<1>5. UNCHANGED launchVars => UNCHANGED <<script, pc>>
  BY DEF launchVars, controlVars
<1>6. UNCHANGED <<script, pc>> => Located'
  BY DEF Located
<1> QED BY <1>1, <1>2, <1>3, <1>4, <1>5, <1>6
     DEF LaunchNext, ExecAccess, ExecRace, ExecFence, Control, ReleaseBlockGroups, ReleaseGridGroups

(* The statement a thread is at is one of its script.                      *)
LEMMA ItemIsOfScript ==
  ASSUME Located, NEW t \in Threads, ~D!AtEnd(t)
  PROVE  /\ IsAccess(D!Item(t)) => SiteOf(D!Item(t)) \in AccessSites
         /\ D!Item(t).op = "Fence" => FenceOf(D!Item(t)) \in FenceSites
<1>1. Len(script[t]) \in Nat
  BY SitesOfScripts DEF Located
<1>2. pc[t] \in 1 .. Len(script[t])
  BY <1>1 DEF Located, D!AtEnd
<1> QED BY <1>2, SitesOfScripts DEF Located, D!Item

(* A cluster is let go only if a block of it waits.                        *)
LEMMA SomeClusterGoes ==
  ASSUME D!ReleaseClusters
  PROVE  D!Going \in (SUBSET Clusters) \ {{}}
<1>1. PICK b \in Blocks : stops[b] # D!Done
  BY DriverHierarchy DEF D!ReleaseClusters
<1>2. b \in D!ClusterBlocks(ClusterOfBlock(b))
  BY DriverHierarchy DEF D!ClusterBlocks
<1>3. ClusterOfBlock(b) \in Clusters
  BY DEF Clusters
<1>4. ClusterOfBlock(b) \in D!Going
  BY <1>1, <1>2, <1>3, DriverHierarchy DEF D!Going
<1>5. D!Going \subseteq Clusters
  BY DriverHierarchy DEF D!Going
<1> QED BY <1>4, <1>5

(* A step of a launch is one of the detector, or leaves it alone.          *)
LEMMA LaunchStepRefines ==
  ASSUME Located, [LaunchNext]_launchVars
  PROVE  [Next]_vars
<1>1. ASSUME NEW t \in Threads, ExecAccess(t) \/ ExecRace(t)
      PROVE  Next
  <2>1. ~D!AtEnd(t) /\ IsAccess(D!Item(t))
    BY <1>1 DEF ExecAccess, ExecRace, D!Step, D!StatementTraps
  <2>2. SiteOf(D!Item(t)) \in AccessSites
    BY <2>1, ItemIsOfScript
  <2>3. Access(t, SiteOf(D!Item(t))) \/ RefuseAccess(t, SiteOf(D!Item(t)))
    BY <1>1 DEF ExecAccess, ExecRace
  <2> QED BY <2>2, <2>3 DEF Next
<1>2. ASSUME NEW t \in Threads, ExecFence(t)
      PROVE  Next
  <2>1. FenceOf(D!Item(t)) \in FenceSites
    BY <1>2, ItemIsOfScript DEF ExecFence, D!Step
  <2>2. Fence(t, FenceOf(D!Item(t)))
    BY <1>2 DEF ExecFence
  <2> QED BY <2>1, <2>2 DEF Next
<1>3. Control => UNCHANGED vars
  BY DEF Control
<1>4. ASSUME NEW b \in Blocks, ReleaseBlockGroups(b)
      PROVE  [Next]_vars
  <2> DEFINE subs == {s \in Subgroups : D!SubgroupThreads(b, s) \in D!Counted(D!Ready(b), "Subgroup")}
  <2>1. BlockRelease(b) \/ (subs # {} /\ SubgroupRelease(b, subs)) \/ UNCHANGED vars
    BY <1>4, Zenon DEF ReleaseBlockGroups
  <2>2. subs \subseteq Subgroups
    OBVIOUS
  <2> HIDE DEF subs
  <2> QED BY <2>1, <2>2 DEF Next
<1>5. ReleaseGridGroups => Next
  <2>1. ASSUME D!ReleaseClusters /\ ClusterRelease(D!Going)
        PROVE  Next
    BY <2>1, SomeClusterGoes DEF Next
  <2> QED BY <2>1 DEF ReleaseGridGroups, Next
<1>6. UNCHANGED launchVars => UNCHANGED vars
  BY DEF launchVars
<1> QED BY <1>1, <1>2, <1>3, <1>4, <1>5, <1>6 DEF LaunchNext

(* By construction a launch is a run of the race detector, as far as its   *)
(* statements are the detector's.                                          *)
LEMMA LaunchRunsDetector == LaunchSpec => Spec
<1>1. LaunchInit => Init /\ Located
  <2>1. LaunchInit => Init
    BY DEF LaunchInit
  <2>2. LaunchInit => Located
    BY DriverHierarchy DEF LaunchInit, D!DriverInit, Located
  <2> QED BY <2>1, <2>2
<1>2. Located /\ [LaunchNext]_launchVars => Located'
  BY LocatedStep
<1>3. Located /\ [LaunchNext]_launchVars => [Next]_vars
  BY LaunchStepRefines
<1> QED BY <1>1, <1>2, <1>3, PTL DEF LaunchSpec, Spec

(* So no launch the interpreter lets through has a race.                   *)
THEOREM LaunchRaceFreedom == LaunchSpec => []RaceFree
BY LaunchRunsDetector, RaceFreedom, PTL

-----------------------------------------------------------------------------
(* Nor has one that finishes let a rendezvous through.                     *)

(* The driver moves with every statement and every release.                *)
LEMMA LaunchMovesDriver ==
  ASSUME [LaunchNext]_launchVars
  PROVE  [D!DriverNext]_(D!driverVars)
<1>1. ASSUME NEW t \in Threads, ExecAccess(t) \/ ExecRace(t) \/ ExecFence(t)
      PROVE  D!DriverNext
  BY <1>1, DriverHierarchy DEF ExecAccess, ExecRace, ExecFence, D!DriverNext
<1>2. ASSUME Control
      PROVE  D!DriverNext
  BY <1>2, DriverHierarchy DEF Control, D!DriverNext
<1>3. ASSUME NEW b \in Blocks, ReleaseBlockGroups(b)
      PROVE  D!DriverNext
  BY <1>3, DriverHierarchy DEF ReleaseBlockGroups, D!DriverNext
<1>4. ReleaseGridGroups => D!DriverNext
  BY DEF ReleaseGridGroups, D!DriverNext
<1>5. UNCHANGED launchVars => UNCHANGED D!driverVars
  BY DEF launchVars, controlVars, vars, detectorVars, historyVars, edgeVars,
         epochVars, D!driverVars, D!threadVars, D!epochVars
<1> QED BY <1>1, <1>2, <1>3, <1>4, <1>5 DEF LaunchNext

(* The driver of a launch and the one proved about are the same.           *)
LEMMA SameDriver ==
  /\ D!DriverInit <=> P!DriverInit
  /\ [D!DriverNext]_(D!driverVars) <=> [P!DriverNext]_(P!driverVars)
  /\ P!Aligned <=> D!Aligned
<1>1. D!DriverInit <=> P!DriverInit
  BY DEF D!DriverInit, P!DriverInit, D!Threads, P!Threads, D!Blocks, P!Blocks,
         D!Runnable, P!Runnable, D!NotStopped, P!NotStopped, D!Clusters, P!Clusters, D!Subgroups, P!Subgroups,
         D!ClusterOfBlock, P!ClusterOfBlock, D!SubOf, P!SubOf
<1>3. [D!DriverNext]_(D!driverVars) <=> [P!DriverNext]_(P!driverVars)
  BY Zenon DEF D!DriverNext, P!DriverNext, D!driverVars, P!driverVars, D!threadVars, P!threadVars,
         D!epochVars, P!epochVars, D!Runnable, P!Runnable, D!Done, P!Done, D!Waiting, P!Waiting,
         D!NotStopped, P!NotStopped, D!IsRendezvous, P!IsRendezvous, D!AcquireClass, P!AcquireClass,
         D!BlockThreads, P!BlockThreads, D!SubgroupThreads, P!SubgroupThreads, D!Advancing, P!Advancing,
         D!Running, P!Running, D!AtEnd, P!AtEnd, D!Item, P!Item, D!Ticks, P!Ticks, D!Step, P!Step,
         D!Arrive, P!Arrive, D!Finish, P!Finish, D!RunAway, P!RunAway, D!StatementTraps,
         P!StatementTraps, D!PhaseOver, P!PhaseOver, D!BlockDone, P!BlockDone, D!AtGridBarrier,
         P!AtGridBarrier, D!StopBlock, P!StopBlock, D!GroupOf, P!GroupOf, D!Waiters, P!Waiters,
         D!Stranded, P!Stranded, D!Ready, P!Ready, D!AtBarrier, P!AtBarrier, D!Counted, P!Counted,
         D!Release, P!Release, D!DeliveryTraps, P!DeliveryTraps, D!Mismatch, P!Mismatch, D!AllStopped, P!AllStopped, D!OnDevice,
         P!OnDevice, D!ClusterBlocks, P!ClusterBlocks, D!Agree, P!Agree, D!Going, P!Going, D!Resume,
         P!Resume, D!GridFinished, P!GridFinished, D!ReleaseGrid, P!ReleaseGrid, D!ReleaseClusters,
         P!ReleaseClusters, D!GridMismatch, P!GridMismatch, D!Blocks, P!Blocks, D!Threads, P!Threads,
         D!BlockOf, P!BlockOf, D!SubOf, P!SubOf, D!ClusterOfBlock, P!ClusterOfBlock, D!ClusterOf,
         P!ClusterOf, D!Subgroups, P!Subgroups, D!Clusters, P!Clusters, D!Acquires, P!Acquires
<1>4. P!Aligned <=> D!Aligned
  BY Zenon DEF P!Aligned, D!Aligned, P!Threads, D!Threads, P!Blocks, D!Blocks, P!MeetingScopes, D!MeetingScopes,
         P!Contains, D!Contains, P!BlockOf, D!BlockOf, P!SubOf, D!SubOf, P!ClusterOf, D!ClusterOf,
         P!ClusterOfBlock, D!ClusterOfBlock, P!Meets, D!Meets, P!MeetsUpTo, D!MeetsUpTo, P!Wide, D!Wide,
         P!IsRendezvous, D!IsRendezvous, P!Width, D!Width, P!Cardinality, D!Cardinality
<1> QED BY <1>1, <1>3, <1>4

(* What the proofs about the driver assume holds of a launch.              *)
LEMMA DriverAssumed ==
  P!StepAssumption /\ P!ScriptsAssumption /\ P!LaunchAssumption
<1>1. D!ScriptsAssumption <=> P!ScriptsAssumption
  BY Zenon DEF D!RendezvousOf, P!RendezvousOf, D!IsRendezvous, P!IsRendezvous,
               D!Threads, P!Threads, D!Blocks, P!Blocks
<1> QED BY <1>1, DriverAssumption, LaunchAssumption

LEMMA LaunchKeepsAligned ==
  ASSUME P!AlignedInv, [LaunchNext]_launchVars
  PROVE  P!AlignedInv'
<1>1. [P!DriverNext]_(P!driverVars)
  BY LaunchMovesDriver, SameDriver
<1> QED BY <1>1, DriverAssumed, P!AlignedInvStep

LEMMA LaunchStartsAligned ==
  ASSUME LaunchInit
  PROVE  P!AlignedInv
<1>1. P!DriverInit
  BY SameDriver DEF LaunchInit
<1> QED BY <1>1, DriverAssumed, P!AlignedInvInit

(* A launch that the interpreter lets run to its end (launch_checked,      *)
(* grid_release: Finished, no trap) has no race and its threads met at     *)
(* every rendezvous, whatever its shape, its scripts and its limit.        *)
THEOREM LaunchFinishesCorrectly == LaunchSpec => []FinishedIsCorrect
<1>1. LaunchSpec => []P!AlignedInv
  <2>1. P!AlignedInv /\ [LaunchNext]_launchVars => P!AlignedInv'
    BY LaunchKeepsAligned
  <2> QED BY <2>1, LaunchStartsAligned, PTL DEF LaunchSpec
<1>2. RaceFree /\ P!AlignedInv => FinishedIsCorrect
  <2> SUFFICES ASSUME P!AlignedInv, outcome = "Finished"
               PROVE  D!Aligned
    BY DEF FinishedIsCorrect
  <2>1. P!FinishedIsAligned
    BY DriverAssumed, P!FinishFollows
  <2> QED BY <2>1, SameDriver DEF P!FinishedIsAligned
<1> QED BY <1>1, <1>2, LaunchRaceFreedom, PTL
=============================================================================
