----------------------------- MODULE MCSerialC -----------------------------
(***************************************************************************)
(* Small launched kernels for SerialC: a branch or a loop holding a        *)
(* barrier between barrier-free statements, a top-level barrier around it. *)
(*                                                                         *)
(* Locals: 1 the parameter, 2 a running value, 3 the counter, 5 an inner   *)
(* one, 4, 6 and 7 what an atomic, a collective and a load bind.           *)
(***************************************************************************)
EXTENDS SerialC

Scoped(b) == If(Const(1), b, <<>>)
Inc == Assign(2, Add(Local(2), Const(1)))

(* An atomic whose old value goes into the running value; the thread's own *)
(* Shared element, and another's; loops and jumps of the thread's own.     *)
Ticket == Scoped(<<AtomicAdd(4, "Global", Const(0), Const(1)), Assign(2, Add(Local(2), Local(4)))>>)
Give == StoreAt("Shared", ThreadIdx, Local(2))
Take == Scoped(<<Load(7, "Shared", Eq(ThreadIdx, Const(0))), Assign(2, Local(7))>>)
OwnLoop == For(5, Const(0), Const(2), Const(1), <<If(Eq(Local(5), Const(0)), <<Continue>>, <<>>), Ticket>>)
OwnWhile == While(Eq(Local(2), ThreadIdx), <<Inc, If(Local(1), <<Break>>, <<>>)>>)
Early == If(ThreadIdx, <<Return>>, <<>>)
Counted == Assign(2, Local(3))

Pieces == {Ticket, Give, Take, OwnLoop, OwnWhile, Early, Return, Break, If(Local(1), <<Continue>>, <<>>)}

Meetings ==
  {Barrier(s, 1) : s \in {"Block", "Device", "Cluster", "Subgroup"}}
  \cup {CollectiveOf(6, Local(2), 2), If(Local(1), <<Barrier("Block", 3)>>, <<Inc>>)}

(* Loops at both ends of the counter's type; a step of 0; conditions that  *)
(* are the block's, and one that is a thread's.                            *)
Around(b) ==
  {For(3, Const(0), Const(2), Local(1), b), For(3, Const(2), Const(3), Const(2), b),
   For(3, Const(-3), Const(-4), Const(-2), b), For(3, Const(1), Const(2), Const(0), b),
   If(BlockIdx, b, <<Inc>>), If(Eq(Local(1), Const(2)), b, <<Ticket>>),
   If(ThreadIdx, b, <<>>), While(Eq(Local(1), Const(2)), b)}

Compounds == UNION {Around(<<x, m, y>>) : x \in Pieces, m \in Meetings, y \in {Ticket, Take}}
             \cup UNION {Around(<<m, Counted>>) : m \in Meetings}

Starts == {Let(2, Local(1)), Let(2, ThreadIdx)}
Kernel(clusters, body) == Function(IF clusters THEN "clusters" ELSE "grid", {"Shared"}, 1, 7, None, body)

Last == StoreAt("Global", Const(1), Local(2))

MCLaunches ==
  {Kernel(TRUE, <<s, Ticket, c, w, Last>>) : s \in Starts, c \in Compounds, w \in {Ticket, Take}}
  \cup {Kernel(TRUE, <<Let(2, Local(1)), x, Barrier(s, 4), y, Barrier(r, 5), c>>) :
          x \in Pieces, y \in {Ticket, Give}, s, r \in {"Block", "Device", "Cluster"},
          c \in {OwnLoop, Take, For(3, Const(0), Const(2), Const(1), <<Ticket, Barrier("Block", 6)>>)}}
  \cup {Kernel(FALSE, <<Let(2, ThreadIdx), x, y, Last>>) : x, y \in Pieces}
  \cup {Kernel(FALSE, <<Let(2, BlockIdx), StoreAt("Global", e, Local(2)), Last>>) : e \in {BlockDim, Const(-1)}}
  \cup {Kernel(FALSE, <<Let(2, Local(1)), For(5, Const(0), Const(2), Eq(ThreadIdx, Const(0)), <<Ticket>>), Last>>)}

(* Counters on both sides of the last long long.                           *)
MCWideLaunches ==
  {Kernel(FALSE, <<Let(2, Local(1)), For(3, Const(a), Const(z), Const(1), <<Counted, Ticket>> \o b), Last>>) :
     a \in 0 .. 4, z \in 2 .. 7, b \in {<<>>, <<Barrier("Block", 1)>>}}

MCLo == -4
MCLongLo == -16
=============================================================================
