------------------------------- MODULE Launch -------------------------------
(***************************************************************************)
(* A launch as the interpreter runs it: the driver (LaunchDriver) executes *)
(* the threads' statements in its order, and each one that touches memory  *)
(* or orders it goes through the race detector (RaceDetector), with the    *)
(* history of RaceSoundness beside it.  The two share the barrier counts   *)
(* and Edges.acquired.                                                     *)
(***************************************************************************)
EXTENDS RaceSoundness, Sequences

CONSTANTS Scripts, StepBound

VARIABLES script, pc, steps, status, stops, outcome

D == INSTANCE LaunchDriver

controlVars == <<script, pc, steps, status, stops, outcome>>
launchVars == <<vars, controlVars>>

LaunchInit == Init /\ D!DriverInit

-----------------------------------------------------------------------------
IsAccess(item) == item.op \in Kind

SiteOf(item) == [key |-> item.key, kind |-> item.op, order |-> item.order, scope |-> item.scope]

FenceOf(item) == [order |-> item.order, scope |-> item.scope]

(* The threads run the accesses and fences the detector is asked about.    *)
ASSUME SitesOfScripts ==
  \A s \in Scripts : \A t \in Threads :
    /\ Len(s[t]) \in Nat
    /\ \A i \in 1 .. Len(s[t]) :
         /\ IsAccess(s[t][i]) => SiteOf(s[t][i]) \in AccessSites
         /\ s[t][i].op = "Fence" => FenceOf(s[t][i]) \in FenceSites

(* What the driver assumes of them, it assumes here.                       *)
ASSUME DriverAssumption == D!StepAssumption /\ D!ScriptsAssumption

(* exec_simple on a statement that accesses memory.                        *)
ExecAccess(t) ==
  /\ D!Step(t)
  /\ IsAccess(D!Item(t))
  /\ Access(t, SiteOf(D!Item(t)))

(* The same, refused: the launch ends with DataRace.                       *)
ExecRace(t) ==
  /\ D!StatementTraps(t)
  /\ IsAccess(D!Item(t))
  /\ RefuseAccess(t, SiteOf(D!Item(t)))

ExecFence(t) ==
  /\ D!Step(t)
  /\ D!Item(t).op = "Fence"
  /\ Fence(t, FenceOf(D!Item(t)))

(* The driver's own steps, and statements that trap for another reason,    *)
(* leave the detector alone ...                                            *)
Control ==
  /\ \/ \E t \in Threads : D!Arrive(t) \/ D!Finish(t) \/ D!RunAway(t) \/ D!StatementTraps(t)
     \/ \E t \in Threads : D!Step(t) /\ D!Item(t).op = "Spin"
     \/ \E b \in Blocks : D!StopBlock(b) \/ D!DeliveryTraps(b) \/ D!Mismatch(b)
     \/ D!GridFinished \/ D!GridMismatch
  /\ UNCHANGED vars

(* ... except that a release counts, for the detector, the barriers it     *)
(* lets go and nothing for a collective.                                   *)
ReleaseBlockGroups(b) ==
  LET ready == D!Ready(b)
      subs == {s \in Subgroups : D!SubgroupThreads(b, s) \in D!Counted(ready, "Subgroup")}
  IN
  /\ D!Release(b)
  /\ IF D!Counted(ready, "Block") # {} THEN BlockRelease(b)
     ELSE IF subs # {} THEN SubgroupRelease(b, subs)
     ELSE UNCHANGED vars

ReleaseGridGroups ==
  \/ D!ReleaseGrid /\ DeviceRelease
  \/ D!ReleaseClusters /\ ClusterRelease(D!Going)

LaunchNext ==
  \/ \E t \in Threads : ExecAccess(t) \/ ExecRace(t) \/ ExecFence(t)
  \/ Control
  \/ \E b \in Blocks : ReleaseBlockGroups(b)
  \/ ReleaseGridGroups

LaunchSpec == LaunchInit /\ [][LaunchNext]_launchVars

-----------------------------------------------------------------------------
(* A launch that ends without a trap is free of races and its threads met  *)
(* at every rendezvous.                                                    *)
FinishedIsCorrect == outcome = "Finished" => RaceFree /\ D!Aligned

(* A launch the detector refuses has a race (or atomics that share no      *)
(* scope): docs/question-u4-memory-model.md:37, "it admits every program   *)
(* that is correctly synchronized and rejects those that are not".         *)
RefusedIsRacy == Precise

(* kernel_sync.rs:170: "a later release by one thread knows at least what  *)
(* its earlier one did, so it replaces it".                                *)
ReplacementKnowsMore ==
  [][\A k \in Keys : \A old \in records[k] : \A new \in records'[k] :
       new.from = old.from => \A u \in Threads : new.clock[u] >= old.clock[u]]_launchVars

(* kernel_sync.rs:15: two atomics on one element whose narrower scope does *)
(* not contain both threads are a DataRace.                                *)
ScopesShared ==
  \A e, f \in hist :
    e.key = f.key /\ e.kind = "Atomic" /\ f.kind = "Atomic"
      => Contains(Narrower(e.scope, f.scope), e.thread, f.thread)

=============================================================================
