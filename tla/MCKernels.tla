----------------------------- MODULE MCKernels -----------------------------
(***************************************************************************)
(* Small modules of kernels, all combinations of a few statements, for     *)
(* KernelRuns.  Function 1 is the entry; 2 is called; 3 is the reference   *)
(* of extern 1, and extern 2 is a rendezvous of the block.                 *)
(*                                                                         *)
(* The entry's locals: 1 its parameter, 2 a running value, 3 loop counter, *)
(* 4 whatever a statement declares, 5 an inner counter.                    *)
(***************************************************************************)
EXTENDS KernelRuns

Inc == Assign(2, Add(Local(2), Const(1)))
BlockBarrier == Barrier("Block", 1)
DeviceBarrier == Barrier("Device", 2)

Conds == {Eq(Local(2), Const(1)), Eq(ThreadIdx, Const(0)), BlockIdx}

Actions ==
  {Inc, Store(Local(2)), Break, Continue, Return, BlockBarrier, DeviceBarrier,
   Collective(4, -1), Call(2, <<Local(2)>>, 4), ExternCall(1, <<Local(2)>>, 4),
   ExternCall(2, <<>>, None), ExternCall(3, <<>>, None)}

Seconds == {Inc, Store(Local(2)), Break, BlockBarrier, DeviceBarrier, Collective(4, -1)}

(* Straight bodies, and bodies that do one thing under a condition first.  *)
Bodies == {<<x>> : x \in Actions} \cup {<<If(c, <<x>>, <<>>), y>> : c \in Conds, x \in Actions, y \in Seconds}

(* Bounds at both ends of the counter's range, from the data, and a step   *)
(* that is sometimes 0.                                                    *)
Fors(b) == {For(3, Const(0), Const(2), Const(1), b), For(3, Const(2), Const(3), Const(2), b),
            For(3, Const(-3), Const(-4), Const(-2), b), For(3, Const(0), Const(2), Local(2), b)}
Whiles(b) == {While(Eq(Local(2), Const(1)), b), While(Const(1), b)}
Ifs(b) == {If(Local(2), b, <<Inc>>)}

Compounds == UNION {Fors(b) \cup Whiles(b) \cup Ifs(b) : b \in Bodies}

(* A jump in an inner loop, with something after it in the outer one.      *)
Nested ==
  {While(Const(1), <<For(5, Const(0), Const(2), Const(1), <<If(c, <<j>>, <<BlockBarrier>>)>>), x, y>>) :
     c \in {Eq(Local(2), Const(1)), ThreadIdx}, j \in {Break, Continue, Return}, x \in Actions, y \in {Break, Inc}}

(* What local 2 starts as: uniform, of the thread, loaded, indexed.        *)
Starts == {Let(2, Local(1)), Let(2, ThreadIdx), Load(2, "Global", Const(0)), Load(2, "Constant", BlockIdx)}

(* Locals declared where they must not be visible later.                   *)
Leaks ==
  {<<If(ThreadIdx, <<Let(4, Const(1))>>, <<>>), Store(x)>> : x \in {Local(4), Local(1)}}
  \cup {<<For(3, Const(0), Const(2), Const(1), <<Let(4, Local(3))>>), Store(x)>> : x \in {Local(3), Local(4), Local(1)}}
  \cup {<<x>> : x \in Fors(<<>>) \cup Whiles(<<>>)}

(* The called function: it may return early, from a loop, without having   *)
(* set its result, or meet others.                                         *)
Callees ==
  {<<Let(2, Add(Local(1), Const(1)))>>,
   <<If(Local(1), <<Return>>, <<>>), Let(2, Local(1))>>,
   <<Let(2, Local(1)), While(Const(1), <<If(Local(2), <<Return>>, <<>>), Assign(2, Const(1))>>)>>,
   <<BlockBarrier, Let(2, ThreadIdx)>>,
   <<DeviceBarrier, Let(2, Local(1))>>}

Identity == Function("none", {}, 1, 1, 1, <<>>)
Nothing == Function("none", {}, 0, 0, None, <<>>)
Entry1(body) == Function("grid", {"Constant"}, 1, 5, None, body)
Callee(body) == Function("none", {}, 1, 2, 2, body)

Externs == <<Extern(1, 1, TRUE, "none", 3), Extern(0, 0, FALSE, "Block", 4), Extern(0, 0, FALSE, "none", None)>>

Module(body, callee, reference) ==
  [fns |-> <<Entry1(body), Callee(callee), reference, Nothing>>, externs |-> Externs, entry |-> 1]

Program(start, body, callee) == Module(<<start>> \o body \o <<Store(Local(2))>>, callee, Identity)

Calls(body) == \E st \in Statements(body) : st.op = "Call"
Increment == <<Let(2, Add(Local(1), Const(1)))>>

Candidates ==
  {Program(s, <<c>>, Increment) : s \in Starts, c \in Compounds \cup Nested}
  \cup {Program(s, <<c, BlockBarrier>>, f) :
           s \in Starts, f \in Callees, c \in {x \in Compounds \cup Nested : Calls(<<x>>)}}
  \cup {Program(s, l, Increment) : s \in Starts, l \in Leaks}

MCModules == {m \in Candidates : WellFormed(m)}

(* The division of its blocks that a checked module comes with.            *)
RECURSIVE WithBranches(_)
WithBranches(blocks) ==
  LET next == blocks \cup UNION {{st.then, st.els} : st \in {s \in StatementsIn(blocks) : s.op = "If"}}
  IN  IF next = blocks THEN blocks ELSE WithBranches(next)

BodiesOf(m) == {m.fns[i].body : i \in DOMAIN m.fns}
LoopBodiesOf(m) == {st.body : st \in {s \in UNION {Statements(b) : b \in BodiesOf(m)} : s.op \in Loops}}

ASSUME CheckedJumpsStayInside ==
  \A m \in MCModules : JumpsStayInside(m, WithBranches(BodiesOf(m)), WithBranches(LoopBodiesOf(m)))

MCLo == -4

(* Two threads of one block and one of another.                            *)
MCWhos ==
  {[tid |-> p[1], bid |-> p[2], dim |-> 2, arg |-> 1, data |-> (p[1] + p[2]) % 2] :
     p \in {<<0, 0>>, <<1, 0>>, <<0, 1>>}}

-----------------------------------------------------------------------------
(* An accepted program of each shape the uniformity rule lets through: a   *)
(* thread returns before the barrier the others come to; blocks part       *)
(* before a Device barrier that is in a callee; a pure extern whose        *)
(* reference, called too and so checked with the launch, has a thread's    *)
(* index for its result.                                                   *)
Returning == Module(<<If(ThreadIdx, <<Return>>, <<>>), BlockBarrier>>, Increment, Identity)
Parting == Module(<<If(BlockIdx, <<Call(2, <<Local(1)>>, None)>>, <<>>)>>,
                  <<DeviceBarrier, Let(2, Local(1))>>, Identity)
Looking == Module(<<Call(3, <<Local(1)>>, 2), ExternCall(1, <<Local(1)>>, 4),
                    If(Local(4), <<BlockBarrier>>, <<>>)>>,
                  Increment, Function("none", {}, 1, 2, 2, <<Let(2, ThreadIdx)>>))

UnalignedModules == {Returning, Parting, Looking}

ASSUME EachIsUnaligned ==
  \A m \in UnalignedModules : Accepted(m) /\ \E w, v \in MCWhos : ~Meet(m, w, v)

(* A reference that reaches its own extern through a call.                 *)
RecursiveModules ==
  {Module(<<ExternCall(1, <<Local(1)>>, 2)>>,
          <<ExternCall(1, <<Local(1)>>, 2)>>,
          Function("none", {}, 1, 2, 2, <<Call(2, <<Local(1)>>, 2)>>))}
=============================================================================
