---------------------------- MODULE KernelCheck ----------------------------
(***************************************************************************)
(* Which modules of kernels are well formed (kernel_check.rs,              *)
(* kernel_module.rs, kernel_extern.rs).  Locals have one type here, so     *)
(* what is left of the checker is scopes, loops, calls and launches; the   *)
(* first error of the code is FALSE.  The uniformity rule, which           *)
(* check_kernel_with ends with, is in module Uniformity.                   *)
(*                                                                         *)
(* k is what a function is checked in: [f, sigs, externs], sigs saying of  *)
(* every function of the module what a call of it needs.                   *)
(***************************************************************************)
EXTENDS Kernels

Launched(f) == f.launch # "none"

(* scope_ok.                                                               *)
ScopeOk(f, scope) ==
  scope \in {"Subgroup", "Block", "Device"} \/ (scope = "Cluster" /\ f.launch = "clusters")

(* check_expr: what is read is in scope, and only a launch has indices.    *)
CheckExpr(k, e, sc) ==
  /\ Reads(e) \subseteq sc.scope
  /\ Launched(k.f) \/ \A x \in Operands(e) : x.e \notin {"ThreadIdx", "BlockIdx", "BlockDim"}

CheckExprs(k, st, sc) == \A e \in Evaluates(st) : CheckExpr(k, e, sc)

(* declare: a local of the function that is not in scope comes into it.    *)
Declare(k, l, sc) ==
  [sc EXCEPT !.ok = @ /\ l \in 1 .. k.f.locals /\ l \notin sc.scope, !.scope = @ \cup {l}]

Refuse(sc) == [sc EXCEPT !.ok = FALSE]
Demand(sc, condition) == IF condition THEN sc ELSE Refuse(sc)

(* check_place: an allocation the function declares, Shared in a launch.   *)
CheckPlace(k, space) ==
  space = "Global" \/ (space \in k.f.allocs /\ (space = "Shared" => Launched(k.f)))

(* check_call; the arguments are checked with CheckExprs.                  *)
CheckCall(k, st, sc) ==
  IF st.callee \notin DOMAIN k.sigs THEN Refuse(sc)
  ELSE LET sig == k.sigs[st.callee]
           ok == Demand(sc, Len(st.args) = sig.params /\ (st.result # None => sig.result))
       IN  IF st.result = None THEN ok ELSE Declare(k, st.result, ok)

(* check_extern_call.                                                      *)
CheckExternCall(k, st, sc) ==
  IF st.decl \notin DOMAIN k.externs THEN Refuse(sc)
  ELSE LET d == k.externs[st.decl]
           ok == Demand(sc, /\ Len(st.args) = d.params
                            /\ (IF st.result = None THEN 0 ELSE 1) = d.results
                            /\ d.sync = "none" \/ ScopeOk(k.f, d.sync))
       IN  IF st.result = None THEN ok ELSE Declare(k, st.result, ok)

RECURSIVE CheckFrom(_, _, _, _), CheckStmt(_, _, _)

(* check_block: nothing follows a jump, and what the block declared goes   *)
(* out of scope with it.                                                   *)
CheckFrom(k, b, n, sc) ==
  IF n > Len(b) \/ ~sc.ok THEN sc
  ELSE CheckFrom(k, b, n + 1, CheckStmt(k, b[n], Demand(sc, n = 1 \/ b[n - 1].op \notin Jumps)))

(* Mutant: what the block declared stays in scope.                         *)
CheckBlockLeaving(k, b, sc) == CheckFrom(k, b, 1, sc)

CheckBlock(k, b, sc) == [CheckFrom(k, b, 1, sc) EXCEPT !.scope = sc.scope]

(* in_loop.                                                                *)
InLoop(k, b, sc) ==
  [CheckBlock(k, b, [sc EXCEPT !.depth = @ + 1]) EXCEPT !.depth = sc.depth]

(* check_for: the counter is in scope in the body only, which may not      *)
(* assign it.                                                              *)
CheckFor(k, st, sc) ==
  LET inside == Declare(k, st.local, sc)
      after == InLoop(k, st.body, [inside EXCEPT !.counters = @ \cup {st.local}])
  IN  [after EXCEPT !.counters = sc.counters, !.scope = sc.scope]

(* check_stmt.                                                             *)
CheckStmt(k, st, before) ==
  LET sc == Demand(before, CheckExprs(k, st, before)) IN
  CASE st.op = "Let" -> Declare(k, st.local, sc)
    [] st.op = "Load" -> Declare(k, st.local, Demand(sc, CheckPlace(k, st.space)))
    [] st.op = "Assign" ->
         Demand(sc, st.local \in sc.scope /\ st.local > k.f.params /\ st.local \notin sc.counters)
    [] st.op = "Store" -> Demand(sc, CheckPlace(k, st.space) /\ st.space # "Constant")
    [] st.op = "AtomicRmw" ->
         LET ok == Demand(sc, CheckPlace(k, st.space) /\ st.space \in {"Global", "Shared"})
         IN  IF st.local = None THEN ok ELSE Declare(k, st.local, ok)
    [] st.op = "If" -> CheckBlock(k, st.els, CheckBlock(k, st.then, sc))
    [] st.op = "While" -> InLoop(k, st.body, sc)
    [] st.op = "For" -> CheckFor(k, st, sc)
    [] st.op \in {"Break", "Continue"} -> Demand(sc, sc.depth > 0)
    [] st.op = "Return" -> sc
    [] st.op = "Barrier" -> Demand(sc, ScopeOk(k.f, st.scope) /\ Launched(k.f))
    [] st.op = "Collective" -> Declare(k, st.local, Demand(sc, Launched(k.f)))
    [] st.op = "Call" -> CheckCall(k, st, sc)
    [] st.op = "ExternCall" -> CheckExternCall(k, st, sc)

(* check_kernel_with, the uniformity rule apart.                           *)
CheckKernel(k) ==
  /\ k.f.params <= k.f.locals
  /\ CheckBlock(k, k.f.body, [scope |-> 1 .. k.f.params, counters |-> {}, depth |-> 0, ok |-> TRUE]).ok

-----------------------------------------------------------------------------
(* The statements of a block and of the blocks in it.                      *)
RECURSIVE Statements(_)
Statements(b) ==
  LET here == {b[n] : n \in 1 .. Len(b)}
  IN  here \cup UNION {Statements(c) : c \in UNION {Inner(st) : st \in here}}

(* call_edges.                                                             *)
Edges(m) == [i \in 1 .. Len(m.fns) |->
               {st.callee : st \in {s \in Statements(m.fns[i].body) : s.op = "Call"}}]

(* reachable: the functions reached from these through calls, these too.   *)
RECURSIVE Reachable(_, _)
Reachable(edges, from) ==
  LET next == from \cup UNION {edges[i] : i \in from}
  IN  IF next = from THEN from ELSE Reachable(edges, next)

(* no_cycle: no function is reached through its own calls.                 *)
NoCycle(edges) == \A i \in DOMAIN edges : i \notin Reachable(edges, edges[i])

(* plain_function.                                                         *)
PlainFunction(f) == ~Launched(f) /\ f.allocs \subseteq {"Private"}

(* holds_barrier.                                                          *)
HoldsBarrier(b, externs) ==
  \E st \in Statements(b) :
    \/ st.op \in Rendezvous
    \/ st.op = "ExternCall" /\ st.decl \in DOMAIN externs /\ externs[st.decl].sync # "none"

(* reaches_barrier.                                                        *)
ReachesBarrier(m, edges, i) ==
  \E j \in Reachable(edges, {i}) : HoldsBarrier(m.fns[j].body, m.externs)

(* signatures.                                                             *)
Signatures(m, edges) ==
  [i \in 1 .. Len(m.fns) |-> [params |-> m.fns[i].params, result |-> m.fns[i].result # None,
                              barrier |-> ReachesBarrier(m, edges, i)]]

(* check_reference: a plain function with the declared signature that      *)
(* holds no extern call itself.                                            *)
CheckReference(m, d) ==
  d.reference # None =>
    /\ d.reference \in 1 .. Len(m.fns)
    /\ LET f == m.fns[d.reference] IN
         /\ ~Launched(f) /\ f.allocs = {}
         /\ \A st \in Statements(f.body) : st.op # "ExternCall"
         /\ f.params = d.params
         /\ d.results = IF f.result = None THEN 0 ELSE 1

(* check_decl, the bodies apart; volatility does not matter here.          *)
CheckDecl(m, d) ==
  /\ d.pure => d.sync = "none" /\ d.results > 0
  /\ d.sync # "Thread"
  /\ CheckReference(m, d)

(* What each function is checked as.  A callee runs inside the entry's     *)
(* launch: it is checked with it.                                          *)
CheckedAs(m) ==
  LET edges == Edges(m)
      sigs == Signatures(m, edges)
      inside == Reachable(edges, {m.entry}) \ {m.entry}
      launch == m.fns[m.entry].launch
  IN  [i \in 1 .. Len(m.fns) |->
         [f |-> IF i \in inside /\ launch # "none" THEN [m.fns[i] EXCEPT !.launch = launch] ELSE m.fns[i],
          sigs |-> sigs, externs |-> m.externs]]

(* check_module, the uniformity rule apart.                                *)
WellFormed(m) ==
  LET edges == Edges(m)
      called == UNION {edges[i] : i \in 1 .. Len(m.fns)}
      checked == CheckedAs(m)
  IN  /\ m.entry \in 1 .. Len(m.fns)
      /\ \A i \in 1 .. Len(m.externs) : CheckDecl(m, m.externs[i])
      /\ called \subseteq 1 .. Len(m.fns)
      /\ NoCycle(edges)
      /\ \A f \in called : PlainFunction(m.fns[f])
      /\ \A i \in 1 .. Len(m.fns) : CheckKernel(checked[i])
=============================================================================
