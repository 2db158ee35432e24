----------------------------- MODULE KernelRuns -----------------------------
(***************************************************************************)
(* A thread running a module of kernels on the resumable evaluator, beside *)
(* what the recursive evaluator and the checkers say of that module.       *)
(***************************************************************************)
EXTENDS ControlStack, Evaluator, Uniformity

CONSTANT At3  \* the address that stands for a sync extern's rendezvous

-----------------------------------------------------------------------------
(* The recursive evaluator runs no rendezvous.  These turn one into the    *)
(* statement it would be for a thread that meets no one: a barrier is a    *)
(* store of its address, a collective a load.  With sites, only the        *)
(* rendezvous are stored, a collective's and a sync extern's too.          *)
Nop == If(Const(0), <<>>, <<>>)
Both(a, b) == If(Const(1), <<a, b>>, <<>>)

Plain(st, sites, externs) ==
  CASE st.op = "Barrier" -> Store(Const(st.at))
    [] st.op = "Collective" ->
         LET got == Load(st.local, "Global", Const(0))
         IN  IF sites THEN Both(Store(Const(st.at)), got) ELSE got
    [] st.op = "Store" /\ sites -> Nop
    [] st.op = "ExternCall" /\ sites ->
         IF externs[st.decl].sync # "none" THEN Both(Store(Const(At3)), st) ELSE st
    [] OTHER -> st

RECURSIVE PlainBlock(_, _, _)
PlainBlock(b, sites, externs) ==
  [n \in 1 .. Len(b) |->
     CASE b[n].op = "If" -> [b[n] EXCEPT !.then = PlainBlock(@, sites, externs),
                                         !.els = PlainBlock(@, sites, externs)]
       [] b[n].op \in Loops -> [b[n] EXCEPT !.body = PlainBlock(@, sites, externs)]
       [] OTHER -> Plain(b[n], sites, externs)]

PlainModule(m, sites) ==
  [m EXCEPT !.fns = [i \in DOMAIN @ |->
     [@[i] EXCEPT !.body = PlainBlock(@, sites, m.externs)]]]

-----------------------------------------------------------------------------
Ended == status \notin {"running", "waiting"}

Collected(m) == {st.at : st \in {s \in UNION {Statements(m.fns[i].body) : i \in DOMAIN m.fns} :
                                   s.op = "Collective"}}

(* This thread's trace as the recursive evaluator would have written it.   *)
AsStores(t) ==
  LET kept == SelectSeq(t, LAMBDA x : "stop" \notin DOMAIN x \/ x.stop \notin Collected(program))
  IN  [n \in 1 .. Len(kept) |->
         IF "stop" \in DOMAIN kept[n] THEN [stored |-> Wrap(kept[n].stop)] ELSE kept[n]]

(* The two evaluators agree on every program: the same effects in the same *)
(* order, the same locals, the same number of statements, the same trap    *)
(* (kernel_resume.rs:6-8; a thread stops and goes on in between).          *)
StackAgrees ==
  Ended =>
    LET ran == RunBody(PlainModule(program, FALSE), who) IN
      /\ AsStores(trace) = ran.trace
      /\ steps = ran.steps
      /\ IF status = "Done" THEN ran.flow \in {"Next", "Return"} /\ locals = ran.locals /\ fnIdx = ran.fnIdx
                            ELSE ran.trap = status

(* A statement of a checked module reads no local that is not set: what    *)
(* local_val's expect in kernel_eval.rs relies on, on every path through   *)
(* loops, jumps and calls.                                                 *)
LocalsAreSet ==
  /\ AtStatement => \A e \in Evaluates(Statement) : Readable(e, locals)
  /\ RunsTop("While") => Readable(Top.cond, locals)

(* Every thread that is let go on at each rendezvous ends, if only by the  *)
(* step limit.                                                             *)
ThreadEnds == <>Ended

-----------------------------------------------------------------------------
(* Where a thread's rendezvous are, in order; the Device ones only for two *)
(* threads of different blocks.                                            *)
Sites(t) == [n \in 1 .. Len(t) |-> t[n].stored]
DeviceSites(m) ==
  {Wrap(st.at) : st \in {s \in UNION {Statements(m.fns[i].body) : i \in DOMAIN m.fns} :
                           s.op = "Barrier" /\ s.scope \in {"Device", "Cluster"}}}

SitesOf(m, w) == RunBody(PlainModule(m, TRUE), w)

Meet(m, w, v) ==
  LET a == SitesOf(m, w)
      b == SitesOf(m, v)
      shared(t) == IF w.bid = v.bid THEN Sites(t)
                   ELSE SelectSeq(Sites(t), LAMBDA x : x \in DeviceSites(m))
  IN  a.flow # "Trap" /\ b.flow # "Trap" => shared(a.trace) = shared(b.trace)

(* Threads of one launch: other indices and memory, the same arguments.    *)
(* Stated where this thread is done, so once for each.                     *)
AcceptedMeets ==
  (status = "Done" /\ Accepted(program)) =>
    \A v \in Whos : Meet(program, who, v)

-----------------------------------------------------------------------------
(* The three shapes the rule is known to let through.  A Return in a loop  *)
(* or branch of a function that reaches a rendezvous; a Device barrier in  *)
(* a callee only; an extern whose reference looks at the launch.           *)
EarlyReturn(m) ==
  \E i \in DOMAIN m.fns :
    /\ ReachesBarrier(m, Edges(m), i)
    /\ \E st \in Statements(m.fns[i].body) : \E b \in Inner(st) : Return \in {b[n] : n \in DOMAIN b}

DeviceBelow(m) ==
  \E i \in DOMAIN m.fns :
    /\ ~HoldsDeviceBarrier(m.fns[i].body)
    /\ \E j \in Reachable(Edges(m), {i}) : HoldsDeviceBarrier(m.fns[j].body)

LaunchedReference(m) ==
  \E d \in DOMAIN m.externs :
    LET r == m.externs[d].reference
    IN  r # None /\ Reachable(Edges(m), {r}) \cap Reachable(Edges(m), {m.entry}) # {}

(* Apart from those, every thread of a scope comes to each of its          *)
(* rendezvous, in the same order, in an accepted kernel.                   *)
AcceptedMeetsOtherwise ==
  ~EarlyReturn(program) /\ ~DeviceBelow(program) /\ ~LaunchedReference(program) => AcceptedMeets

(* The call graph is acyclic, so no function is called while it runs       *)
(* (kernel_module.rs:16).                                                  *)
NoRecursion ==
  WellFormed(program) =>
    \A n \in 1 .. Len(stack) : stack[n].is = "Call" => stack[n].caller # fnIdx
=============================================================================
