----------------------------- MODULE Evaluator -----------------------------
(***************************************************************************)
(* The recursive evaluator (oracle/kernel_eval.rs, kernel_call.rs): what a *)
(* program without rendezvous means.  A machine is the record of the       *)
(* fields that change; a block or a statement maps it to the machine after *)
(* it, with the flow it leaves by.  "Trap" is the Err of the code: it ends *)
(* every enclosing block.                                                  *)
(***************************************************************************)
EXTENDS Kernels

(* The machine before its first statement.                                 *)
Start(m, who) ==
  LET f == m.fns[m.entry] IN
  [m |-> m, who |-> who, fnIdx |-> m.entry,
   locals |-> [i \in 1 .. f.locals |-> IF i <= f.params THEN who.arg ELSE Unset],
   steps |-> 0, trace |-> <<>>, flow |-> "Next", trap |-> ""]

Fails(s, what) == [s EXCEPT !.flow = "Trap", !.trap = what]
ValueIn(e, s) == Value(e, s.locals, s.who)

(* tick.                                                                   *)
Ticked(s) == LET t == [s EXCEPT !.steps = @ + 1]
             IN  IF t.steps > Limit THEN Fails(t, "StepLimit") ELSE t

(* exec_simple.                                                            *)
ExecSimple(st, s) ==
  IF st.op = "Store" THEN [s EXCEPT !.trace = Append(@, [stored |-> ValueIn(st.value, s)])]
  ELSE [s EXCEPT !.locals[st.local] =
          IF st.op = "Load" THEN Loaded(st, s.locals, s.who) ELSE ValueIn(st.value, s)]

RECURSIVE ExecFrom(_, _, _), ExecStmt(_, _), ExecWhile(_, _), ExecFor(_, _, _, _, _), ExecCall(_, _, _)

(* exec_block, from its n-th statement on.                                 *)
ExecFrom(b, n, s) ==
  IF n > Len(b) THEN s
  ELSE LET t == Ticked(s)
           u == IF t.flow = "Trap" THEN t ELSE ExecStmt(b[n], t)
       IN  IF u.flow = "Next" THEN ExecFrom(b, n + 1, u) ELSE u

ExecBlock(b, s) == ExecFrom(b, 1, s)

ExecStmt(st, s) ==
  CASE st.op \in {"Let", "Assign", "Load", "Store"} -> ExecSimple(st, s)
    [] st.op = "If" -> ExecBlock(IF ValueIn(st.cond, s) # 0 THEN st.then ELSE st.els, s)
    [] st.op = "While" -> ExecWhile(st, s)
    [] st.op = "For" ->
         IF ValueIn(st.bounds[3], s) = 0 THEN Fails(s, "ZeroStep")
         ELSE ExecFor(st, ValueIn(st.bounds[1], s), ValueIn(st.bounds[2], s), ValueIn(st.bounds[3], s), s)
    [] st.op = "Call" -> ExecCall(st.callee, st, s)
    [] st.op = "ExternCall" -> ExecCall(s.m.externs[st.decl].reference, st, s)
    [] st.op \in Jumps -> [s EXCEPT !.flow = st.op]
    [] OTHER -> Fails(s, "Unsupported")

(* A pass leaves its loop by Break, Return or a trap; Break ends only the  *)
(* loop.                                                                   *)
Leaves(s) == s.flow \in {"Break", "Return", "Trap"}
AfterLoop(s) == IF s.flow = "Break" THEN [s EXCEPT !.flow = "Next"] ELSE s
NextPass(s) == [s EXCEPT !.flow = "Next"]

ExecWhile(st, s) ==
  IF ValueIn(st.cond, s) = 0 THEN s
  ELSE LET t == Ticked(s)
           u == IF t.flow = "Trap" THEN t ELSE ExecBlock(st.body, t)
       IN  IF Leaves(u) THEN AfterLoop(u) ELSE ExecWhile(st, NextPass(u))

(* exec_for, with the counter at i.                                        *)
ExecFor(st, i, end, step, s) ==
  IF ~(IF step > 0 THEN i < end ELSE i > end) THEN s
  ELSE LET t == Ticked(s)
           u == IF t.flow = "Trap" THEN t
                ELSE ExecBlock(st.body, [t EXCEPT !.locals[st.local] = i])
       IN  IF Leaves(u) THEN AfterLoop(u)
           ELSE IF i + step \notin lo .. hi THEN NextPass(u)
           ELSE ExecFor(st, i + step, end, step, NextPass(u))

(* exec_call and run_frame: a frame swap for the length of the body; the   *)
(* caller's frame is restored whatever happens.                            *)
ExecCall(callee, st, s) ==
  IF callee = None THEN Fails(s, "Unsupported")
  ELSE IF s.m.fns[callee].allocs # {} THEN Fails(s, "Unsupported") ELSE
  LET f == s.m.fns[callee]
      ran == ExecBlock(f.body, [s EXCEPT !.fnIdx = callee, !.locals = Bound(f, st.args, s.locals, s.who)])
      value == IF f.result = None THEN Unset ELSE ran.locals[f.result]
      back == [ran EXCEPT !.fnIdx = s.fnIdx, !.locals = s.locals]
  IN  IF ran.flow = "Trap" THEN back
      ELSE IF f.result # None /\ value = Unset THEN Fails(back, "Unsupported")
      ELSE [NextPass(back) EXCEPT !.locals =
              IF st.result # None /\ value # Unset THEN [@ EXCEPT ![st.result] = value] ELSE @]

(* run_body.                                                               *)
RunBody(m, who) == ExecBlock(m.fns[m.entry].body, Start(m, who))
=============================================================================
