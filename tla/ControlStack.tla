---------------------------- MODULE ControlStack ----------------------------
(***************************************************************************)
(* The resumable evaluator (oracle/kernel_resume.rs, kernel_call.rs): one  *)
(* thread's program as a stack of frames instead of recursion, because a   *)
(* thread stops at a rendezvous inside loops and callees and goes on there *)
(* later.  One action per arm of resume and of step.                       *)
(*                                                                         *)
(* The top of the stack is its head.  What a thread does that others see   *)
(* is its trace: the values it stores and the rendezvous it stops at.      *)
(***************************************************************************)
EXTENDS Frames

CONSTANTS
  Modules,     \* the modules to run: [fns, externs, entry]
  Whos         \* what a thread may be and read: [tid, bid, dim, arg, data]

VARIABLES
  program,     \* the module
  who,         \* the thread
  stack,       \* Vec<Frame>
  fnIdx,       \* Machine.fn_idx
  locals,      \* Machine.locals
  steps,       \* Machine.steps
  trace,       \* what it has stored, and where it has stopped
  status       \* "running", "waiting", "Done" or the trap

machineVars == <<stack, fnIdx, locals, steps, trace, status>>
stackVars == <<program, who, machineVars>>

-----------------------------------------------------------------------------
Top == Head(stack)
Below == Tail(stack)

Entry == program.fns[program.entry]

(* initial_stack, with the launch's scalar bound to the parameters.        *)
StackInit ==
  /\ program \in Modules
  /\ who \in Whos
  /\ fnIdx = program.entry
  /\ stack = <<SeqFrame(Entry.body)>>
  /\ locals = [i \in 1 .. Entry.locals |-> IF i <= Entry.params THEN who.arg ELSE Unset]
  /\ steps = 0
  /\ trace = <<>>
  /\ status = "running"

-----------------------------------------------------------------------------
Runs == status = "running" /\ stack # <<>>
RunsTop(kind) == Runs /\ Top.is = kind

(* tick: one more statement, or pass of a loop, fits under the limit.      *)
Ticks == steps < Limit
Tick == steps' = steps + 1

Traps(what) ==
  /\ status' = what
  /\ UNCHANGED <<program, who, stack, fnIdx, locals, trace>>

AtStatement == RunsTop("Seq") /\ Top.pc <= Len(Top.stmts)
Statement == Top.stmts[Top.pc]

(* *pc += 1, done before the statement itself.                             *)
Advanced == Push([Top EXCEPT !.pc = @ + 1], Below)

(* A statement of one of these kinds is executed, if it fits the limit.    *)
Executes(ops) ==
  /\ AtStatement
  /\ Statement.op \in ops
  /\ Ticks
  /\ Tick
  /\ UNCHANGED <<program, who>>

Eval(e) == Value(e, locals, who)

-----------------------------------------------------------------------------
(* The frame of a block is done.                                           *)
Pop ==
  /\ RunsTop("Seq")
  /\ Top.pc > Len(Top.stmts)
  /\ stack' = Below
  /\ UNCHANGED <<program, who, fnIdx, locals, steps, trace, status>>

(* exec_simple.                                                            *)
SetLocal ==
  /\ Executes({"Let", "Assign", "Load"})
  /\ locals' = [locals EXCEPT ![Statement.local] =
       IF Statement.op = "Load" THEN Loaded(Statement, locals, who) ELSE Eval(Statement.value)]
  /\ stack' = Advanced
  /\ UNCHANGED <<fnIdx, trace, status>>

StoreValue ==
  /\ Executes({"Store"})
  /\ trace' = Append(trace, [stored |-> Eval(Statement.value)])
  /\ stack' = Advanced
  /\ UNCHANGED <<fnIdx, locals, status>>

EnterIf ==
  /\ Executes({"If"})
  /\ stack' = Push(SeqFrame(IF Truthy(Statement.cond, locals, who) THEN Statement.then ELSE Statement.els),
                   Advanced)
  /\ UNCHANGED <<fnIdx, locals, trace, status>>

EnterWhile ==
  /\ Executes({"While"})
  /\ stack' = Push(WhileFrame(Statement), Advanced)
  /\ UNCHANGED <<fnIdx, locals, trace, status>>

(* enter_for: the bounds are read once.                                    *)
EnterFor ==
  /\ Executes({"For"})
  /\ LET step == Eval(Statement.bounds[3]) IN
       /\ step # 0
       /\ stack' = Push(ForFrame(Statement, Eval(Statement.bounds[1]), Eval(Statement.bounds[2]), step),
                        Advanced)
  /\ UNCHANGED <<fnIdx, locals, trace, status>>

ZeroStep ==
  /\ AtStatement
  /\ Statement.op = "For"
  /\ Ticks
  /\ Tick
  /\ Eval(Statement.bounds[3]) = 0
  /\ Traps("ZeroStep")

-----------------------------------------------------------------------------
(* break_loop: the innermost loop is left, itself too.                     *)
DoBreak ==
  /\ Executes({"Break"})
  /\ LET rest == UnwindTo(Loops, Advanced) IN stack' = IF rest = <<>> THEN rest ELSE Tail(rest)
  /\ UNCHANGED <<fnIdx, locals, trace, status>>

DoContinue ==
  /\ Executes({"Continue"})
  /\ stack' = UnwindTo(Loops, Advanced)
  /\ UNCHANGED <<fnIdx, locals, trace, status>>

(* Mutant: a Return inside a callee ends the thread.                       *)
ReturnAll ==
  /\ Executes({"Return"})
  /\ stack' = <<>>
  /\ UNCHANGED <<fnIdx, locals, trace, status>>

(* unwind_to_call: the running function ends.                              *)
DoReturn ==
  /\ Executes({"Return"})
  /\ stack' = UnwindTo({"Call"}, Advanced)
  /\ UNCHANGED <<fnIdx, locals, trace, status>>

(* A rendezvous: the stack is left just past it.  A collective has handed  *)
(* over its contribution; its result comes with the release.               *)
StopAt ==
  /\ Executes(Rendezvous)
  /\ status' = "waiting"
  /\ trace' = Append(trace, [stop |-> Statement.at])
  /\ stack' = Advanced
  /\ UNCHANGED <<fnIdx, locals>>

(* The launch driver lets it go on, with the collective's result if it was *)
(* one (deliver).                                                          *)
GoOn ==
  /\ status = "waiting"
  /\ status' = "running"
  /\ LET st == Top.stmts[Top.pc - 1] IN
       locals' = IF st.op = "Collective" THEN [locals EXCEPT ![st.local] = who.data] ELSE locals
  /\ UNCHANGED <<program, who, stack, fnIdx, steps, trace>>

-----------------------------------------------------------------------------
(* The function a Call or an ExternCall runs; None for an extern that has  *)
(* no reference.                                                           *)
Target(st) == IF st.op = "Call" THEN st.callee ELSE program.externs[st.decl].reference

(* A callee that there is and that declares no allocation.                 *)
CanEnter(callee) == callee # None /\ program.fns[callee].allocs = {}

(* enter_call: the callee's fresh frame replaces the caller's.             *)
EnterCall ==
  /\ Executes({"Call", "ExternCall"})
  /\ LET callee == Target(Statement) IN
       /\ CanEnter(callee)
       /\ stack' = Push(SeqFrame(program.fns[callee].body),
                        Push(CallFrame(fnIdx, locals, Statement.result), Advanced))
       /\ locals' = Bound(program.fns[callee], Statement.args, locals, who)
       /\ fnIdx' = callee
  /\ UNCHANGED <<trace, status>>

CannotEnter ==
  /\ AtStatement
  /\ Statement.op \in {"Call", "ExternCall"}
  /\ Ticks
  /\ Tick
  /\ ~CanEnter(Target(Statement))
  /\ Traps("Unsupported")

ResultLocal == program.fns[fnIdx].result

(* leave_call: the caller's frame is back, the result handed over.         *)
LeaveCall ==
  /\ RunsTop("Call")
  /\ fnIdx' = Top.caller
  /\ stack' = Below
  /\ LET value == IF ResultLocal = None THEN Unset ELSE locals[ResultLocal] IN
       /\ locals' = IF Top.result # None /\ value # Unset
                    THEN [Top.locals EXCEPT ![Top.result] = value] ELSE Top.locals
       /\ status' = IF ResultLocal # None /\ value = Unset THEN "Unsupported" ELSE status
  /\ UNCHANGED <<program, who, steps, trace>>

-----------------------------------------------------------------------------
(* Mutant: only the statements of the body count, not the passes.          *)
WhilePassUncounted ==
  /\ RunsTop("While")
  /\ Truthy(Top.cond, locals, who)
  /\ stack' = Push(SeqFrame(Top.body), stack)
  /\ UNCHANGED <<program, who, fnIdx, locals, steps, trace, status>>

WhilePass ==
  /\ RunsTop("While")
  /\ Truthy(Top.cond, locals, who)
  /\ Ticks
  /\ Tick
  /\ stack' = Push(SeqFrame(Top.body), stack)
  /\ UNCHANGED <<program, who, fnIdx, locals, trace, status>>

WhileEnd ==
  /\ RunsTop("While")
  /\ ~Truthy(Top.cond, locals, who)
  /\ stack' = Below
  /\ UNCHANGED <<program, who, fnIdx, locals, steps, trace, status>>

(* Mutant: the counter wraps instead of ending the loop.                   *)
CounterWrapped == IF Top.started THEN Wrap(Top.i + Top.step) ELSE Top.i

(* The counter of the next pass: the first is the start itself.            *)
Counter == IF Top.started THEN Top.i + Top.step ELSE Top.i

(* advance_for: a counter that would leave its type's range ends the loop. *)
HasPass ==
  /\ Counter \in lo .. hi
  /\ IF Top.step > 0 THEN Counter < Top.end ELSE Counter > Top.end

ForPass ==
  /\ RunsTop("For")
  /\ HasPass
  /\ Ticks
  /\ Tick
  /\ locals' = [locals EXCEPT ![Top.local] = Counter]
  /\ stack' = Push(SeqFrame(Top.body), Push([Top EXCEPT !.i = Counter, !.started = TRUE], Below))
  /\ UNCHANGED <<program, who, fnIdx, trace, status>>

ForEnd ==
  /\ RunsTop("For")
  /\ ~HasPass
  /\ stack' = Below
  /\ UNCHANGED <<program, who, fnIdx, locals, steps, trace, status>>

(* The next statement or pass does not fit under the limit.                *)
RunsOut ==
  /\ ~Ticks
  /\ \/ AtStatement
     \/ RunsTop("While") /\ Truthy(Top.cond, locals, who)
     \/ RunsTop("For") /\ HasPass
  /\ Tick
  /\ Traps("StepLimit")

(* The stack is empty: the thread is done.                                 *)
Finished ==
  /\ status = "running"
  /\ stack = <<>>
  /\ status' = "Done"
  /\ UNCHANGED <<program, who, stack, fnIdx, locals, steps, trace>>

StackNext ==
  \/ Pop \/ SetLocal \/ StoreValue \/ EnterIf \/ EnterWhile \/ EnterFor \/ ZeroStep
  \/ DoBreak \/ DoContinue \/ DoReturn \/ StopAt \/ GoOn
  \/ EnterCall \/ CannotEnter \/ LeaveCall
  \/ WhilePass \/ WhileEnd \/ ForPass \/ ForEnd
  \/ RunsOut \/ Finished

(* A thread that is let go on at every rendezvous runs on.                 *)
StackSpec == StackInit /\ [][StackNext]_stackVars /\ WF_stackVars(StackNext)

-----------------------------------------------------------------------------
(* The frames of the callers, each with how many frames lie below it.      *)
CallersOf(s) == {<<Len(s) - n, s[n]>> : n \in {m \in 1 .. Len(s) : s[m].is = "Call"}}

(* A jump never leaves the function it is in, and a call comes back to     *)
(* where it was made: only a call adds a caller's frame, only leaving the  *)
(* call takes it away, and in between it stays as it was.                  *)
CallersKept ==
  [][\/ CallersOf(stack') = CallersOf(stack)
     \/ /\ EnterCall
        /\ CallersOf(stack') = CallersOf(stack) \cup {<<Len(stack), CallFrame(fnIdx, locals, Statement.result)>>}
     \/ /\ LeaveCall
        /\ CallersOf(stack') = CallersOf(stack) \ {<<Len(stack) - 1, Top>>}]_stackVars

(* What the checker's in_loop and its lookups of callees ask of a module   *)
(* (KernelCheck): of the blocks of its functions, these are outside of     *)
(* loops and those inside, a loop is left and continued inside only, and   *)
(* functions that are called exist.                                        *)
StatementsIn(blocks) == UNION {{b[n] : n \in 1 .. Len(b)} : b \in blocks}

JumpsStayInside(m, outside, inside) ==
  /\ m.entry \in DOMAIN m.fns
  /\ \A i \in DOMAIN m.fns : m.fns[i].body \in outside
  /\ \A st \in StatementsIn(outside) :
       st.op \notin {"Break", "Continue"} /\ (st.op = "If" => {st.then, st.els} \subseteq outside)
  /\ \A st \in StatementsIn(inside) : st.op = "If" => {st.then, st.els} \subseteq inside
  /\ \A st \in StatementsIn(outside \cup inside) :
       /\ st.op \in Loops => st.body \in inside
       /\ st.op = "Call" => st.callee \in DOMAIN m.fns
       /\ st.op = "ExternCall" => m.externs[st.decl].reference \in DOMAIN m.fns \cup {None}
=============================================================================
