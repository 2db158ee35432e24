---------------------------- MODULE MCOptimizer ----------------------------
(***************************************************************************)
(* Small expressions for the optimizer, over one input and constants that  *)
(* make every rule apply.                                                  *)
(***************************************************************************)
EXTENDS Optimizer

Constants == {Const(Zero), Const(NegZero), Const(One), Const(<<0, 6>>), Const(<<0, 3>>),
              Const(<<0, InfMagnitude>>), Const(<<1, NaNMagnitude>>)}
Leaves == {Input} \cup Constants

UnaryOf(ops, S) == {Unary(op, e) : op \in ops, e \in S}
BinaryOf(ops, S, T) == {Binary(op, a, b) : op \in ops, a \in S, b \in T}

Infix == {"Add", "Sub", "Mul", "Div"}
Unaries == {"Neg", "Abs", "Relu", "Sqr"}

Depth1 == UnaryOf(Unaries, Leaves) \cup BinaryOf(Infix \cup {"Max"}, Leaves, Leaves)

(* Chains of up to four, and a leaf beside a node.                         *)
Chains ==
  UnaryOf(Unaries, UnaryOf(Unaries, Depth1 \cup UnaryOf(Unaries, UnaryOf(Unaries, {Input, Const(NegZero)}))))
Nested == UnaryOf(Unaries, Depth1) \cup BinaryOf(Infix \cup {"Max"}, Depth1, {Input, Const(<<0, 6>>)})

(* The same value known in several ways, in both operands.                 *)
Ways == {Binary("Mul", Const(One), Input), Binary("Sub", Input, Const(Zero)), Unary("Sqr", Input),
         Binary("Div", Input, Const(<<0, 8>>)), Unary("Abs", Const(<<0, 8>>)), Const(<<0, 8>>)}
Joint == BinaryOf({"Max", "Mul"}, Ways, Ways)
  \cup {Node("Select", NoVal, <<w, Input, Unary("Neg", Input)>>) : w \in Ways}

Every == Leaves \cup Depth1 \cup Chains \cup Nested \cup Joint

(* Two constants that are one after folding.                               *)
Twice == BinaryOf({"Max"}, Ways, Ways)

(* One addition more than there are passes: each pass may come to all of   *)
(* them but one before the one below is folded.                            *)
Sums == {FoldLeft(LAMBDA sum, c : Binary("Add", sum, c), Const(One), [i \in 1 .. MaxPasses + 1 |-> Const(One)])}
=============================================================================
