----------------------------- MODULE Uniformity -----------------------------
(***************************************************************************)
(* The barrier-uniformity rule (kernel_uniform.rs): which functions have a *)
(* rendezvous only where every thread of its scope comes, by a taint       *)
(* analysis of the locals iterated to a fixed point.                       *)
(*                                                                         *)
(* A walk w is [divergent, poisoned, ok]: the locals that may differ       *)
(* between threads, whether a Break or Continue under divergent control    *)
(* has been seen, and whether no rendezvous was refused.  skipped: control *)
(* may differ between the threads.                                         *)
(***************************************************************************)
EXTENDS KernelCheck

(* holds_device_barrier: looks into loops and branches, not into callees.  *)
HoldsDeviceBarrier(b) ==
  \E st \in Statements(b) : st.op = "Barrier" /\ st.scope \in {"Device", "Cluster"}

(* Walk::expr.                                                             *)
DivergentExpr(k, e, w) ==
  \E x \in Operands(e) :
    \/ x.e = "BlockIdx" /\ HoldsDeviceBarrier(k.f.body)
    \/ x.e = "ThreadIdx"
    \/ x.e = "Local" /\ x.i \in w.divergent

DivergentAny(k, st, w) == \E e \in Evaluates(st) : DivergentExpr(k, e, w)

(* Walk::load_divergent.                                                   *)
LoadDivergent(k, st, w) == st.space # "Constant" \/ DivergentExpr(k, st.value, w)

(* Walk::mark, under a condition.                                          *)
Mark(w, locals, condition) ==
  IF condition THEN [w EXCEPT !.divergent = @ \cup (locals \ {None})] ELSE w

(* A rendezvous is refused where control, or an argument, may differ.      *)
RefuseAt(w, condition) == [w EXCEPT !.ok = @ /\ ~condition]

(* Walk::defines, with call and extern_call.                               *)
Defines(k, st, skipped, w) ==
  CASE st.op = "Let" -> Mark(w, {st.local}, DivergentExpr(k, st.value, w))
    [] st.op = "Load" -> Mark(w, {st.local}, LoadDivergent(k, st, w))
    [] st.op = "Assign" -> Mark(w, {st.local}, skipped \/ DivergentExpr(k, st.value, w))
    [] st.op = "AtomicRmw" -> Mark(w, {st.local}, TRUE)
    [] st.op = "Collective" -> RefuseAt(Mark(w, {st.local}, TRUE), skipped)
    [] st.op = "Call" ->
         LET called == Mark(w, {st.result}, TRUE)
         IN  RefuseAt(called, k.sigs[st.callee].barrier /\ (skipped \/ DivergentAny(k, st, called)))
    [] st.op = "ExternCall" ->
         LET d == k.externs[st.decl]
             differs == DivergentAny(k, st, w)
         IN  RefuseAt(Mark(w, {st.result}, ~d.pure \/ differs),
                      d.sync # "none" /\ (skipped \/ differs))

RECURSIVE WalkFrom(_, _, _, _, _)

WalkBlock(k, b, skipped, w) == WalkFrom(k, b, 1, skipped, w)

(* Walk::loop_body: a body that poisons is walked again as poisoned.       *)
LoopBody(k, b, skipped, w) ==
  LET once == WalkBlock(k, b, skipped, w)
  IN  IF ~w.poisoned /\ once.poisoned THEN WalkBlock(k, b, skipped, once) ELSE once

(* Walk::control.                                                          *)
Control(k, st, skipped, w) ==
  LET inside == skipped \/ DivergentAny(k, st, w) IN
  CASE st.op = "If" -> WalkBlock(k, st.els, inside, WalkBlock(k, st.then, inside, w))
    [] st.op = "For" ->
         LoopBody(k, st.body, inside, Mark(w, {st.local}, DivergentAny(k, st, w)))
    [] st.op = "While" -> LoopBody(k, st.body, inside, w)

(* Mutant: a Continue does not poison.                                     *)
WalkStmtBreakOnly(k, st, skipped, w) ==
  CASE st.op \in {"Let", "Load", "Assign", "AtomicRmw", "Collective", "Call", "ExternCall"} ->
         Defines(k, st, skipped \/ w.poisoned, w)
    [] st.op \in {"If", "For", "While"} -> Control(k, st, skipped, w)
    [] st.op = "Break" -> [w EXCEPT !.poisoned = @ \/ skipped]
    [] st.op = "Barrier" -> RefuseAt(w, skipped \/ w.poisoned)
    [] OTHER -> w

(* Walk::stmt.                                                             *)
WalkStmt(k, st, skipped, w) ==
  CASE st.op \in {"Let", "Load", "Assign", "AtomicRmw", "Collective", "Call", "ExternCall"} ->
         Defines(k, st, skipped \/ w.poisoned, w)
    [] st.op \in {"If", "For", "While"} -> Control(k, st, skipped, w)
    [] st.op \in {"Break", "Continue"} -> [w EXCEPT !.poisoned = @ \/ skipped]
    [] st.op = "Barrier" -> RefuseAt(w, skipped \/ w.poisoned)
    [] st.op \in {"Store", "Return"} -> w

WalkFrom(k, b, n, skipped, w) ==
  IF n > Len(b) THEN w ELSE WalkFrom(k, b, n + 1, skipped, WalkStmt(k, b[n], skipped, w))

Walk(k, divergent) ==
  WalkBlock(k, k.f.body, FALSE, [divergent |-> divergent, poisoned |-> FALSE, ok |-> TRUE])

(* check_barriers: walked until no more locals are marked, then what the   *)
(* last walk refused counts.                                               *)
RECURSIVE CheckBarriers(_, _)
CheckBarriers(k, divergent) ==
  LET w == Walk(k, divergent)
  IN  IF w.divergent = divergent THEN w.ok ELSE CheckBarriers(k, w.divergent)

(* check_module.                                                           *)
Accepted(m) ==
  /\ WellFormed(m)
  /\ LET checked == CheckedAs(m) IN \A i \in 1 .. Len(m.fns) : CheckBarriers(checked[i], {})
=============================================================================
