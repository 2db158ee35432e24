------------------------------ MODULE Kernels ------------------------------
(***************************************************************************)
(* The kernel layer's programs (kernel.rs): statement trees, the functions *)
(* of a module, and the values their expressions take                      *)
(* (oracle/kernel_eval.rs).                                                *)
(*                                                                         *)
(* A statement is a record with an op; a block is a sequence of them.  All *)
(* locals here are of one integer type, whose values are lo .. hi.         *)
(* Expressions are a leaf or one operation on two leaves: a deeper one is  *)
(* spelled with more locals.  A rendezvous carries the address the         *)
(* interpreter knows it by (at).                                           *)
(***************************************************************************)
EXTENDS Integers, Sequences, FiniteSets

CONSTANTS
  lo, hi,      \* types::int_range of the type of the locals
  Limit        \* Machine.limit: statements a thread may execute

ASSUME KernelAssumption == lo \in Int /\ hi \in Int /\ lo <= 0 /\ 0 < hi /\ Limit \in Nat \ {0}

-----------------------------------------------------------------------------
(* Statements.                                                             *)
Let(l, e)       == [op |-> "Let", local |-> l, value |-> e]
Assign(l, e)    == [op |-> "Assign", local |-> l, value |-> e]
Load(l, space, e) == [op |-> "Load", local |-> l, space |-> space, value |-> e]
StoreAt(space, i, e) == [op |-> "Store", space |-> space, index |-> i, value |-> e]
AtomicAdd(l, space, i, e) == [op |-> "AtomicRmw", local |-> l, space |-> space, index |-> i, value |-> e]
If(c, t, e)     == [op |-> "If", cond |-> c, then |-> t, els |-> e]
For(l, a, z, s, b) == [op |-> "For", local |-> l, bounds |-> <<a, z, s>>, body |-> b]
While(c, b)     == [op |-> "While", cond |-> c, body |-> b]
Break           == [op |-> "Break"]
Continue        == [op |-> "Continue"]
Return          == [op |-> "Return"]
Barrier(s, a)   == [op |-> "Barrier", scope |-> s, at |-> a]
CollectiveOf(l, e, a) == [op |-> "Collective", local |-> l, value |-> e, at |-> a]
Call(f, args, l) == [op |-> "Call", callee |-> f, args |-> args, result |-> l]
ExternCall(d, args, l) == [op |-> "ExternCall", decl |-> d, args |-> args, result |-> l]

(* No result local is asked for; a function has no result; an extern has   *)
(* no reference.                                                           *)
None == 0

Loops == {"For", "While"}

Jumps == {"Break", "Continue", "Return"}
Rendezvous == {"Barrier", "Collective"}

(* A function of a module: its first params locals are its parameters.     *)
(* launch is "none", "grid", or "clusters" for one with cluster dimensions;*)
(* allocs the memory spaces it declares allocations in.                    *)
Function(launch, allocs, params, locals, result, body) ==
  [launch |-> launch, allocs |-> allocs, params |-> params, locals |-> locals,
   result |-> result, body |-> body]

(* An extern: the numbers of its parameters and results, its effects, and  *)
(* the function that says what it does.                                    *)
Extern(params, results, pure, sync, reference) ==
  [params |-> params, results |-> results, pure |-> pure, sync |-> sync, reference |-> reference]

-----------------------------------------------------------------------------
(* Expressions.                                                            *)
Const(v)  == [e |-> "Const", v |-> v]
Local(i)  == [e |-> "Local", i |-> i]
ThreadIdx == [e |-> "ThreadIdx"]
BlockIdx  == [e |-> "BlockIdx"]
BlockDim  == [e |-> "BlockDim"]
Add(a, b) == [e |-> "Add", a |-> a, b |-> b]
Eq(a, b)  == [e |-> "CmpEq", a |-> a, b |-> b]

(* Where a value is stored and what is contributed do not matter to one    *)
(* thread's control.                                                       *)
Store(e) == StoreAt("Global", Const(0), e)
Collective(l, a) == CollectiveOf(l, Const(0), a)

IsLeaf(e) == e.e \notin {"Add", "CmpEq"}
Operands(e) == IF IsLeaf(e) THEN {e} ELSE {e.a, e.b}

(* The locals an expression reads.                                         *)
Reads(e) == {x.i : x \in {y \in Operands(e) : y.e = "Local"}}

(* wrap: two's complement for a signed type, modulo for an unsigned one.   *)
Wrap(v) == ((v - lo) % (hi - lo + 1)) + lo

(* A local that no statement has set: what no value is.                    *)
Unset == hi + 1

(* What a thread reads: [tid, bid, dim, arg, data], arg being the scalar   *)
(* the launch was given and data what its loads from memory return.        *)
LeafValue(e, locals, who) ==
  CASE e.e = "Const" -> Wrap(e.v)
    [] e.e = "Local" -> locals[e.i]
    [] e.e = "ThreadIdx" -> who.tid
    [] e.e = "BlockIdx" -> who.bid
    [] e.e = "BlockDim" -> who.dim

(* eval_int; a comparison is 1 or 0.                                       *)
Value(e, locals, who) ==
  IF IsLeaf(e) THEN LeafValue(e, locals, who)
  ELSE LET x == LeafValue(e.a, locals, who)
           y == LeafValue(e.b, locals, who)
       IN  CASE e.e = "Add" -> Wrap(x + y)
             [] e.e = "CmpEq" -> IF x = y THEN 1 ELSE 0

(* truthy.                                                                 *)
Truthy(e, locals, who) == Value(e, locals, who) # 0

(* Whether every local the expression reads is set: local_val expects it   *)
(* and panics if not.                                                      *)
Readable(e, locals) == \A i \in Reads(e) : locals[i] # Unset

(* A load: memory gives any value, a Constant array one that its index     *)
(* determines.                                                             *)
Loaded(st, locals, who) ==
  IF st.space = "Constant" THEN Value(st.value, locals, who) ELSE who.data

-----------------------------------------------------------------------------
(* bind_call: the arguments evaluated in the caller's frame; the callee's  *)
(* other locals are fresh.                                                 *)
Bound(f, args, locals, who) ==
  [i \in 1 .. f.locals |-> IF i <= f.params THEN Value(args[i], locals, who) ELSE Unset]

(* What a statement evaluates before it has any effect.                    *)
Evaluates(st) ==
  CASE st.op \in {"Let", "Assign", "Load", "Collective"} -> {st.value}
    [] st.op \in {"Store", "AtomicRmw"} -> {st.index, st.value}
    [] st.op \in {"If", "While"} -> {st.cond}
    [] st.op = "For" -> {st.bounds[i] : i \in 1 .. 3}
    [] st.op \in {"Call", "ExternCall"} -> {st.args[i] : i \in 1 .. Len(st.args)}
    [] OTHER -> {}

(* The blocks inside a statement.                                          *)
Inner(st) ==
  CASE st.op = "If" -> {st.then, st.els}
    [] st.op \in Loops -> {st.body}
    [] OTHER -> {}
=============================================================================
