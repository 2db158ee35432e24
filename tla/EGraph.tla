------------------------------- MODULE EGraph -------------------------------
(***************************************************************************)
(* The e-graph of optimize.rs: a union-find over e-classes, the e-nodes of *)
(* each class, and a hashcons.  Path halving is left out: root holds the   *)
(* representative find() would return.  A class's nodes are a sequence, as *)
(* the first constant, or the first negation, is the one taken.  Below it, *)
(* the rewrite rules for one node, and what a node computes.               *)
(***************************************************************************)
EXTENDS Floats, Sequences, FiniteSets, Functions

(* An e-node: its children are e-classes.  An expression is the same       *)
(* record with expressions for children.  val is used by Const only.       *)
Node(op, val, kids) == [op |-> op, val |-> val, kids |-> kids]
NoVal == <<0, 0>>

(* merged: whether a union has joined two classes since it was cleared.    *)
EmptyGraph == [root |-> <<>>, nodes |-> <<>>, memo |-> <<>>, merged |-> FALSE]

Find(g, id) == g.root[id]
ClassIds(g) == {id \in DOMAIN g.root : g.root[id] = id}

Canon(g, n) == [n EXCEPT !.kids = [i \in DOMAIN n.kids |-> Find(g, n.kids[i])]]

(* Interning returns the graph and the class.                              *)
Added(g, id) == [g |-> g, id |-> id]

AddNode(g, n) ==
  LET c == Canon(g, n)
      new == Len(g.root) + 1
  IN  IF c \in DOMAIN g.memo
        THEN Added(g, Find(g, g.memo[c]))
        ELSE Added([g EXCEPT !.root = Append(@, new),
                             !.nodes = Append(@, <<c>>),
                             !.memo = [m \in DOMAIN @ \cup {c} |-> IF m = c THEN new ELSE @[m]]], new)

(* The second class joins the first, which stays the representative.       *)
Union(g, a, b) ==
  LET ra == Find(g, a)
      rb == Find(g, b)
  IN  IF ra = rb
        THEN g
        ELSE [g EXCEPT !.root = [id \in DOMAIN @ |-> IF @[id] = rb THEN ra ELSE @[id]],
                       !.nodes = [g.nodes EXCEPT ![ra] = @ \o g.nodes[rb], ![rb] = <<>>],
                       !.merged = TRUE]

ClassNodes(g, id) == g.nodes[Find(g, id)]

(* The first node of a class with such an operator, as a sequence of at    *)
(* most one.                                                               *)
Having(g, id, ops) ==
  LET nodes == ClassNodes(g, id)
      found == {i \in DOMAIN nodes : nodes[i].op \in ops}
  IN  IF found = {} THEN <<>> ELSE <<nodes[CHOOSE i \in found : \A j \in found : i <= j]>>

(* class_const, likewise.                                                  *)
ClassConst(g, id) ==
  LET consts == Having(g, id, {"Const"})
  IN  IF consts = <<>> THEN <<>> ELSE <<consts[1].val>>

(* The same sequence without the later copies of an element.               *)
Distinct(s) ==
  LET firsts == {i \in DOMAIN s : \A j \in DOMAIN s : j < i => s[j] # s[i]}
      rank(i) == Cardinality({j \in firsts : j <= i})
  IN  [k \in 1 .. Cardinality(firsts) |-> s[CHOOSE i \in firsts : rank(i) = k]]

(* rebuild_index: nodes become canonical, equal ones of a class are kept   *)
(* once, and the hashcons is made anew.  A node two classes hold is left   *)
(* there, and the hashcons has the class that came last: the order is a    *)
(* HashMap's.  (No classes are merged because their nodes are equal.)      *)
RebuiltNodes(g) ==
  [id \in DOMAIN g.nodes |-> Distinct([i \in DOMAIN g.nodes[id] |-> Canon(g, g.nodes[id][i])])]

Holders(nodes, n) == {id \in DOMAIN nodes : n \in Range(nodes[id])}

(* The graphs rebuilding may leave: last puts the classes that share nodes *)
(* in an order, and a shared node goes to the highest.                     *)
Rebuilt(g) ==
  LET nodes == RebuiltNodes(g)
      all == UNION {Range(nodes[id]) : id \in DOMAIN nodes}
      shared == UNION {ids \in {Holders(nodes, n) : n \in all} : Cardinality(ids) > 1}
      winner(n, last) ==
        LET ids == Holders(nodes, n)
        IN  CHOOSE a \in ids : \A b \in ids : a = b \/ last[b] <= last[a]
  IN  {[g EXCEPT !.nodes = nodes, !.memo = [n \in all |-> winner(n, last)], !.merged = FALSE] :
         last \in Injection(shared, 1 .. Cardinality(shared))}
-----------------------------------------------------------------------------
Input == Node("Input", NoVal, <<>>)
Const(v) == Node("Const", v, <<>>)
Unary(op, x) == Node(op, NoVal, <<x>>)
Binary(op, x, y) == Node(op, NoVal, <<x, y>>)

(* The rules for one node, nid being the class it interns to now.          *)

(* Mutant: folds stay at the host's precision.                             *)
FoldAtHost(p, q) == AtHost(p, q)

FoldAt(p, q) == AtDevice(p, q)

(* The value of an operator on constants, if it is folded: as a sequence.  *)
Folded(op, vs) ==
  IF \E i \in DOMAIN vs : IsNaN(vs[i]) THEN <<>> ELSE
  CASE op = "Add" -> <<AddAt(vs[1], vs[2], FoldAt)>>
    [] op = "Sub" -> <<SubAt(vs[1], vs[2], FoldAt)>>
    [] op = "Mul" -> <<MulAt(vs[1], vs[2], FoldAt)>>
    [] op = "Div" -> IF IsZero(vs[2]) THEN <<>> ELSE <<DivAt(vs[1], vs[2], FoldAt)>>
    [] op = "Neg" -> <<NegF(vs[1])>>
    [] op = "Abs" -> <<AbsF(vs[1])>>
    [] op = "Relu" -> <<ReluF(vs[1])>>
    [] op = "Sqr" -> <<SqrAt(vs[1], FoldAt)>>
    [] op = "Max" -> <<HostMax(vs[1], vs[2])>>
    [] OTHER -> <<>>

Joined(added, nid) == Union(added.g, nid, added.id)

(* Whether the operands' classes are known constants, and those constants. *)
Foldable(eg, n) == n.kids # <<>> /\ \A i \in DOMAIN n.kids : ClassConst(eg, n.kids[i]) # <<>>
Operands(eg, n) == [i \in DOMAIN n.kids |-> ClassConst(eg, n.kids[i])[1]]

FoldRule(eg, nid, n) ==
  LET result == IF Foldable(eg, n) THEN Folded(n.op, Operands(eg, n)) ELSE <<>>
  IN  IF result = <<>> THEN eg ELSE Joined(AddNode(eg, Const(result[1])), nid)

(* The class is known to be this value, to the bit.                        *)
IsBits(eg, id, v) == ClassConst(eg, id) = <<v>>

(* x op e = x: nid joins the class of the other operand.                   *)
Neutral(eg, nid, keep, other, v) == IF IsBits(eg, other, v) THEN Union(eg, nid, keep) ELSE eg

(* exact_pow2_recip: powers of two whose reciprocal is one the device has. *)
Reciprocal(v) ==
  IF v[2] \in {2 ^ k : k \in 1 .. 8} /\ v[2] <= MaxFinite /\ 16 % v[2] = 0 /\ 16 \div v[2] \in 2 .. MaxFinite
    THEN <<<<v[1], 16 \div v[2]>>>>
    ELSE <<>>

ReciprocalRule(eg, nid, n) ==
  LET by == ClassConst(eg, n.kids[2])
      r == IF by = <<>> THEN <<>> ELSE Reciprocal(by[1])
  IN  IF r = <<>> THEN eg
      ELSE LET c == AddNode(eg, Const(r[1]))
           IN  Joined(AddNode(c.g, Binary("Mul", n.kids[1], c.id)), nid)

(* neg(neg(y)) = y.                                                        *)
InvolutionRule(eg, nid, n) ==
  LET inner == Having(eg, n.kids[1], {"Neg"})
  IN  IF inner = <<>> THEN eg ELSE Union(eg, nid, inner[1].kids[1])

(* The operators that make no difference below this one.                   *)
AbsorbedBy(op) == IF op = "Abs" THEN {"Abs", "Neg"} ELSE {op}

(* abs(abs(y)) = abs(neg(y)) = abs(y), relu(relu(y)) = relu(y).            *)
AbsorbRule(eg, nid, n) ==
  LET inner == Having(eg, n.kids[1], AbsorbedBy(n.op))
  IN  IF inner = <<>> THEN eg ELSE Joined(AddNode(eg, Unary(n.op, inner[1].kids[1])), nid)

(* max(x, x) = x.                                                          *)
IdempotentRule(eg, nid, n) ==
  IF Find(eg, n.kids[1]) = Find(eg, n.kids[2]) THEN Union(eg, nid, n.kids[1]) ELSE eg

IdentityRules(eg, nid, n) ==
  LET a == n.kids[1]
      b == n.kids[2]
  IN CASE n.op = "Add" -> Neutral(Neutral(eg, nid, a, b, NegZero), nid, b, a, NegZero)
       [] n.op = "Sub" -> Neutral(eg, nid, a, b, Zero)
       [] n.op = "Mul" -> Neutral(Neutral(eg, nid, a, b, One), nid, b, a, One)
       [] n.op = "Div" -> ReciprocalRule(Neutral(eg, nid, a, b, One), nid, n)
       [] n.op = "Max" -> IdempotentRule(eg, nid, n)
       [] n.op = "Neg" -> InvolutionRule(eg, nid, n)
       [] n.op \in {"Abs", "Relu"} -> AbsorbRule(eg, nid, n)
       [] OTHER -> eg

(* The node is interned afresh, the graph having changed since the pass    *)
(* began: it may get a class of its own, next to the one it came from.     *)
Rewritten(eg, n) ==
  LET added == AddNode(eg, n)
  IN  FoldRule(IdentityRules(added.g, added.id, n), added.id, n)

-----------------------------------------------------------------------------
(* What a node computes on the device, of what its children do, for the    *)
(* input x.                                                                *)
Computed(op, val, v, x) ==
  CASE op = "Input" -> x
    [] op = "Const" -> IF IsNaN(val) THEN LiteralNaN ELSE Rounded(val)
    [] op = "Add" -> AddAt(v[1], v[2], AtDevice)
    [] op = "Sub" -> SubAt(v[1], v[2], AtDevice)
    [] op = "Mul" -> MulAt(v[1], v[2], AtDevice)
    [] op = "Div" -> DivAt(v[1], v[2], AtDevice)
    [] op = "Neg" -> NegF(v[1])
    [] op = "Abs" -> AbsF(v[1])
    [] op = "Relu" -> ReluF(v[1])
    [] op = "Sqr" -> SqrAt(v[1], AtDevice)
    [] op = "Max" -> MaxF(v[1], v[2])
    [] op = "Select" -> SelectF(v[1], v[2], v[3])

(* An operation on constants whose result the host and the device may give *)
(* different bits: a NaN that no operand is, a tie of two zeros.           *)
Unclear(op, v) ==
  \/ IsNaN(Computed(op, NoVal, v, Zero)) /\ \A i \in DOMAIN v : ~IsNaN(v[i])
  \/ op = "Max" /\ IsZero(v[1]) /\ IsZero(v[2]) /\ v[1] # v[2]
=============================================================================
