------------------------------- MODULE Frames -------------------------------
(***************************************************************************)
(* The frames a thread's control is kept in (oracle/kernel_resume.rs): a   *)
(* sequence whose head is the innermost one, and the steps of a program    *)
(* that only its own thread sees.                                          *)
(***************************************************************************)
EXTENDS Kernels

SeqFrame(stmts) == [is |-> "Seq", stmts |-> stmts, pc |-> 1]
WhileFrame(st) == [is |-> "While", cond |-> st.cond, body |-> st.body]
ForFrame(st, start, end, step) ==
  [is |-> "For", local |-> st.local, i |-> start, end |-> end, step |-> step,
   started |-> FALSE, body |-> st.body]
CallFrame(caller, saved, result) ==
  [is |-> "Call", caller |-> caller, locals |-> saved, result |-> result]

Push(frame, s) == <<frame>> \o s

(* The frames from the first of these kinds on; none if there is none.     *)
UnwindTo(kinds, s) ==
  LET stops(n) == n = Len(s) + 1 \/ s[n].is \in kinds
      first == CHOOSE n \in 1 .. Len(s) + 1 : stops(n) /\ \A m \in 1 .. n - 1 : ~stops(m)
  IN  SubSeq(s, first, Len(s))

-----------------------------------------------------------------------------
(* The frame on top is at a statement, which the frame below starts past.  *)
IsAtStatement(s) == Head(s).is = "Seq" /\ Head(s).pc <= Len(Head(s).stmts)
StatementOf(s) == Head(s).stmts[Head(s).pc]
Past(s) == Push([Head(s) EXCEPT !.pc = @ + 1], Tail(s))

(* A program without calls has one outermost frame, which stays when it is *)
(* done.                                                                   *)
Outermost(s) == s[Len(s)]
IsDone(s) == Len(s) = 1 /\ Head(s).pc > Len(Head(s).stmts)
Returned(s) == <<[Outermost(s) EXCEPT !.pc = Len(Outermost(s).stmts) + 1]>>

LocalOps == {"Let", "Assign", "If", "For", "While", "Break", "Continue", "Return"}

HasZeroStep(s, l, who) ==
  IsAtStatement(s) /\ StatementOf(s).op = "For" /\ Value(StatementOf(s).bounds[3], l, who) = 0

(* The next step of this stack is one of its own thread's control.         *)
IsLocal(s, l, who) ==
  /\ ~IsDone(s)
  /\ IsAtStatement(s) => StatementOf(s).op \in LocalOps
  /\ ~HasZeroStep(s, l, who)

(* The stack after a statement; Held(v) is what a For keeps of a bound.    *)
Executed(st, s, l, who, Held(_)) ==
  CASE st.op \in {"Let", "Assign"} -> Past(s)
    [] st.op = "If" -> Push(SeqFrame(IF Truthy(st.cond, l, who) THEN st.then ELSE st.els), Past(s))
    [] st.op = "While" -> Push(WhileFrame(st), Past(s))
    [] st.op = "For" ->
         LET bound(i) == Held(Value(st.bounds[i], l, who))
         IN  Push(ForFrame(st, bound(1), bound(2), bound(3)), Past(s))
    [] st.op = "Break" -> Tail(UnwindTo(Loops, Past(s)))
    [] st.op = "Continue" -> UnwindTo(Loops, Past(s))
    [] st.op = "Return" -> Returned(s)

(* The stack and the locals after such a step.  A For may have its counter *)
(* in a wider type than its local's: Counter and HasPass say how it counts.*)
Moved(s, l, who, Held(_), Counter(_), HasPass(_)) ==
  LET top == Head(s) IN
  CASE IsAtStatement(s) ->
         LET st == StatementOf(s)
         IN  [stack |-> Executed(st, s, l, who, Held),
              locals |-> IF st.op \in {"Let", "Assign"}
                         THEN [l EXCEPT ![st.local] = Value(st.value, l, who)] ELSE l]
    [] top.is = "While" /\ Truthy(top.cond, l, who) -> [stack |-> Push(SeqFrame(top.body), s), locals |-> l]
    [] top.is = "For" /\ HasPass(top) ->
         LET i == Counter(top)
         IN  [stack |-> Push(SeqFrame(top.body), Push([top EXCEPT !.i = i, !.started = TRUE], Tail(s))),
              locals |-> [l EXCEPT ![top.local] = Wrap(i)]]
    [] OTHER -> [stack |-> Tail(s), locals |-> l]
=============================================================================
