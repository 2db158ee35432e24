--------------------------- MODULE MCRaceSoundness ---------------------------
(***************************************************************************)
(* Small instances of RaceSoundness for TLC.                               *)
(***************************************************************************)
EXTENDS RaceSoundness

PlainOn(keys) ==
  {[key |-> k, kind |-> kind, order |-> "Relaxed", scope |-> "Device"] :
     k \in keys, kind \in {"Read", "Write"}}

AtomicOn(keys, orders, scopes) ==
  {[key |-> k, kind |-> "Atomic", order |-> o, scope |-> s] :
     k \in keys, o \in orders, s \in scopes}

(* One element touched in every way a kernel without edges can.            *)
BarrierKeys == {"x"}
BarrierSites == PlainOn({"x"}) \cup AtomicOn({"x"}, {"Relaxed"}, {"Device"})

(* Data passed through a flag that is itself stored once in a while.       *)
EdgeKeys == {"x", "f"}
EdgeSites ==
  PlainOn({"x"}) \cup AtomicOn({"f"}, {"Relaxed", "Acquire", "Release"}, {"Device"})
    \cup {[key |-> "f", kind |-> "Write", order |-> "Relaxed", scope |-> "Device"]}

EdgeFences == {[order |-> "Acquire", scope |-> "Device"]}

(* Both instances are ones precision is proved for.                        *)
ASSUME PrecisionExpected ==
  AccessSites \in {BarrierSites, EdgeSites} => NothingAcquires \/ EdgesAlone

-----------------------------------------------------------------------------
(* Instances of neither class: two threads, A in the first block and B in  *)
(* the second, and kernels in which A's write of x is before B's read.     *)

A == <<0, 0>>
B == <<1, 0>>

FlagsKeys == {"x", "f", "g"}

Touch(k, kind, order, scope) == [key |-> k, kind |-> kind, order |-> order, scope |-> scope]

WriteX == Touch("x", "Write", "Relaxed", "Device")
ReadX == Touch("x", "Read", "Relaxed", "Device")

(* Only kernels whose n-th access or fence, if an access, is by and of     *)
(* what the script says.                                                   *)
Follows(script) ==
  \A e \in hist :
    /\ e.seq \in DOMAIN script
    /\ e.thread = script[e.seq][1] /\ e.key = script[e.seq][2].key /\ e.kind = script[e.seq][2].kind

(* A releases f to the device and then to its block; a third atomic of A   *)
(* on f hides from touch that the second is out of scope of B, which       *)
(* acquires f.                                                             *)
TwoScopes ==
  {WriteX, ReadX, Touch("f", "Atomic", "Release", "Device"), Touch("f", "Atomic", "Release", "Block"),
   Touch("f", "Atomic", "Acquire", "Device")}

OnF == Touch("f", "Atomic", "Relaxed", "Device")
OnG == Touch("g", "Atomic", "Relaxed", "Device")
FThreeTimes == Follows(<< <<A, WriteX>>, <<A, OnF>>, <<A, OnF>>, <<A, OnF>>, <<B, OnF>> >>)

(* A releases f, writes x and releases g; B reads g, then f, and fences.   *)
TwoFlags ==
  {WriteX, ReadX} \cup {Touch(k, "Atomic", o, "Device") : k \in {"f", "g"}, o \in {"Release", "Relaxed"}}
OneFence == {[order |-> "Acquire", scope |-> "Device"]}
GThenF == Follows(<< <<A, OnF>>, <<A, WriteX>>, <<A, OnG>>, <<B, OnG>>, <<B, OnF>> >>)

(* A releases f; B reads f and fences, first for its block only.           *)
TwoFences == OneFence \cup {[order |-> "Acquire", scope |-> "Block"]}
OneFlag == {s \in TwoFlags : s.key # "g"}
FThenFences == Follows(<< <<A, WriteX>>, <<A, OnF>>, <<B, OnF>> >>)

=============================================================================
