------------------------------ MODULE MCLaunch ------------------------------
(***************************************************************************)
(* Small instances of Launch for TLC: two blocks of two threads.  Roles    *)
(* rather than every script keep the statements few and the launches long. *)
(***************************************************************************)
EXTENDS Launch

S(op, key, order, scope) ==
  [op |-> op, key |-> key, order |-> order, scope |-> scope, at |-> 0]

Read(k) == S("Read", k, "Relaxed", "Device")
Write(k) == S("Write", k, "Relaxed", "Device")
Atomic(k, order, scope) == S("Atomic", k, order, scope)
FenceAt(order) == S("Fence", "none", order, "Device")

Meet(op, scope, at) ==
  [op |-> op, key |-> "none", order |-> "Relaxed", scope |-> scope, at |-> at]

SeqsUpTo(A, n) == UNION {[1 .. m -> A] : m \in 0 .. n}

LaunchKeys == {"x", "f"}

(* Thread by thread in the order they run.                                 *)
Threads4(A, B, C, E) ==
  {[t \in Threads |->
      CASE t = <<0, 0>> -> a [] t = <<0, 1>> -> b [] t = <<1, 0>> -> c [] OTHER -> e] :
     a \in A, b \in B, c \in C, e \in E}

(* Accesses on both sides of a rendezvous of each kind, or of none.        *)
Rendezvous ==
  {<<Meet("Barrier", "Subgroup", 1)>>, <<Meet("Barrier", "Block", 2)>>,
   <<Meet("Barrier", "Cluster", 3)>>, <<Meet("Barrier", "Device", 4)>>,
   <<Meet("Collective", "Block", 5)>>}

Sometimes(statements) == {<<>>} \cup {<<s>> : s \in statements}

PhaseScripts ==
  {[t \in Threads |-> before[t] \o meet \o after[t]] :
     before \in [Threads -> Sometimes({Write("x")})],
     after \in [Threads -> Sometimes({Read("x"), Write("x")})],
     meet \in Rendezvous}

(* A message from one block to the next, with every mistake on the way.    *)
Sends == {Write("x"), Atomic("f", "Release", "Device"), Atomic("f", "Relaxed", "Device"),
          FenceAt("Release")}
Receives == {Read("x"), Atomic("f", "Acquire", "Device"), Atomic("f", "Relaxed", "Device"),
             FenceAt("Acquire")}
Loop == S("Spin", "none", "Relaxed", "Device")

MessageScripts ==
  Threads4(SeqsUpTo(Sends, 3), {<<>>}, SeqsUpTo(Receives, 3) \cup {<<Loop>>}, {<<>>})

(* Threads that do not meet.                                               *)
StrayScripts ==
  Threads4({<<m>> : m \in {Meet("Barrier", "Block", 1), Meet("Barrier", "Device", 2)}},
           Sometimes({Meet("Barrier", "Block", 1), Meet("Barrier", "Device", 2)}), {<<>>}, {<<>>})

LaunchScripts == PhaseScripts \cup MessageScripts \cup StrayScripts

Touch(kind, key, order, scope) == [key |-> key, kind |-> kind, order |-> order, scope |-> scope]

LaunchSites ==
  {Touch("Read", "x", "Relaxed", "Device"), Touch("Write", "x", "Relaxed", "Device")}
    \cup {Touch("Atomic", "f", o, s) : o \in {"Relaxed", "Acquire", "Release"}, s \in {"Block", "Device"}}

LaunchFences == {[order |-> o, scope |-> "Device"] : o \in {"Acquire", "Release"}}

-----------------------------------------------------------------------------
(* A barrier, then a release by the thread that did not write: the reader  *)
(* in the other block acquires from it.                                    *)
RelayScripts ==
  Threads4({<<Write("x"), Meet("Barrier", "Block", 1)>>},
           {<<Meet("Barrier", "Block", 1), Atomic("f", "Release", "Device")>>},
           SeqsUpTo({Read("x"), Atomic("f", "Acquire", "Device")}, 2), {<<>>})

(* A release fence before data and release atomics after it.               *)
FenceScripts ==
  Threads4(SeqsUpTo(Sends, 4), {<<>>}, SeqsUpTo(Receives, 2), {<<>>})

(* Atomics of two scopes.                                                  *)
ScopeScripts ==
  LET either == {Atomic("f", "Relaxed", "Block"), Atomic("f", "Relaxed", "Device")}
  IN  Threads4(SeqsUpTo(either, 2), SeqsUpTo(either, 2), SeqsUpTo(either, 2), {<<>>})

CommentScripts == FenceScripts \cup ScopeScripts

=============================================================================
