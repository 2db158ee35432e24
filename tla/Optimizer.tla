----------------------------- MODULE Optimizer -----------------------------
(***************************************************************************)
(* optimize (optimize.rs): an expression is interned in an e-graph, the    *)
(* rewrite rules are applied to every node pass after pass until a pass    *)
(* joins nothing or the passes run out, and the cheapest form is           *)
(* extracted.  The classes are visited in the order of a HashMap, that is, *)
(* in any; within a class the nodes keep their order.                      *)
(*                                                                         *)
(* Of the operators one of each kind of rule is kept: the four infix ones, *)
(* Neg, Abs, Relu, Sqr, Max (Min is its mirror) and Select, which has no   *)
(* rule.  A result of a fold is rounded once, as for one operation f64     *)
(* carries enough bits for that to be the device's result (optimize.rs     *)
(* says why).                                                              *)
(***************************************************************************)
EXTENDS EGraph, SequencesExt

CONSTANTS
  Expressions,   \* what is optimized
  Times,         \* how often: the result is optimized again
  MaxPasses      \* max_iters of saturate: 32

ASSUME MaxPassesAssumption == MaxPasses \in Nat \ {0}

VARIABLES
  source,   \* the expression given
  outs,     \* the results so far
  g, top,   \* the e-graph, and the class the expression was interned to
  todo,     \* the snapshot's classes not visited yet, as sequences of nodes
  visiting, \* the nodes of the class being visited
  passes    \* the passes begun

optVars == <<source, outs, g, top, todo, visiting, passes>>

-----------------------------------------------------------------------------
(* A constant is rounded to what the device can hold.                      *)
Ingested(v) == Rounded(v)

(* add_expr: children first, then the node.                                *)
RECURSIVE AddExpr(_, _)
AddExpr(eg, e) ==
  CASE e.op = "Const" -> AddNode(eg, Const(Ingested(e.val)))
    [] OTHER ->
         LET below == FoldLeft(LAMBDA got, kid :
                                 LET r == AddExpr(got.g, kid) IN [g |-> r.g, ids |-> Append(got.ids, r.id)],
                               [g |-> eg, ids |-> <<>>], e.kids)
         IN  AddNode(below.g, [e EXCEPT !.kids = below.ids])

(* A snapshot of the classes: one sequence of nodes each.                  *)
Snapshot(eg) == {[id |-> id, nodes |-> eg.nodes[id]] : id \in ClassIds(eg)}

Start(e) == AddExpr(EmptyGraph, e)

OptInit ==
  /\ source \in Expressions
  /\ outs = <<>>
  /\ g = Start(source).g
  /\ top = Start(source).id
  /\ todo = Snapshot(g)
  /\ visiting = <<>>
  /\ passes = 1

-----------------------------------------------------------------------------
Visit(c) ==
  /\ visiting = <<>>
  /\ todo' = todo \ {c}
  /\ visiting' = c.nodes
  /\ UNCHANGED <<source, outs, g, top, passes>>

Rewrite ==
  /\ visiting # <<>>
  /\ g' = Rewritten(g, Head(visiting))
  /\ visiting' = Tail(visiting)
  /\ UNCHANGED <<source, outs, top, todo, passes>>

PassOver == todo = {} /\ visiting = <<>> /\ Len(outs) < Times

(* A pass that joined classes is followed by another, up to the cap.       *)
NextPass ==
  /\ PassOver
  /\ g.merged
  /\ passes < MaxPasses
  /\ g' \in Rebuilt(g)
  /\ todo' = Snapshot(g')
  /\ passes' = passes + 1
  /\ UNCHANGED <<source, outs, top, visiting>>

-----------------------------------------------------------------------------
(* weight: what an operator costs.                                         *)
Weight(op) ==
  CASE op \in {"Input", "Const", "Neg", "Abs", "Relu"} -> 1
    [] op = "Div" -> 8
    [] OTHER -> 2

Unknown == 1000

NodeCost(eg, best, n) == FoldLeft(LAMBDA sum, kid : sum + best[Find(eg, kid)], Weight(n.op), n.kids)

Least(S) == CHOOSE k \in S : \A m \in S : k <= m

(* extract: the cost of each class, relaxed until nothing changes.         *)
RECURSIVE Relaxed(_, _)
Relaxed(eg, best) ==
  LET better == [id \in DOMAIN best |->
                   Least({best[id]} \cup {NodeCost(eg, best, n) : n \in Range(eg.nodes[id])})]
  IN  IF better = best THEN best ELSE Relaxed(eg, better)

Costs(eg) == Relaxed(eg, [id \in ClassIds(eg) |-> Unknown])

(* The nodes at a class's cost: which is kept depends on the order.        *)
Cheapest(eg, best, id) == {n \in Range(eg.nodes[id]) : NodeCost(eg, best, n) = best[id]}

RECURSIVE Build(_, _, _)
Build(eg, kept, id) ==
  LET n == kept[Find(eg, id)]
  IN  [n EXCEPT !.kids = [i \in DOMAIN n.kids |-> Build(eg, kept, n.kids[i])]]

(* The classes a form of these may be made of.                             *)
RECURSIVE Below(_, _, _)
Below(eg, best, ids) ==
  LET more == ids \cup {Find(eg, kid) : kid \in UNION {Range(n.kids) : n \in UNION {Cheapest(eg, best, id) : id \in ids}}}
  IN  IF more = ids THEN ids ELSE Below(eg, best, more)

(* One node for each class, in every way there is.                         *)
KeptNodes(eg) ==
  LET best == Costs(eg)
  IN  FoldLeft(LAMBDA ways, id : {(id :> n) @@ kept : kept \in ways, n \in Cheapest(eg, best, id)},
               {<<>>}, SetToSeq(Below(eg, best, {Find(eg, top)})))

(* The forms that may be extracted after a pass.                           *)
Forms ==
  LET eg == [g EXCEPT !.nodes = RebuiltNodes(g)]
  IN  {Build(eg, kept, top) : kept \in KeptNodes(eg)}

(* The loop ends and the result is extracted; it may be optimized again.   *)
Extract ==
  /\ PassOver
  /\ ~g.merged \/ passes = MaxPasses
  /\ \E form \in Forms : outs' = Append(outs, form)
  /\ LET next == IF Len(outs') < Times THEN Start(outs'[Len(outs')]) ELSE Added(EmptyGraph, 0)
     IN  /\ g' = next.g
         /\ top' = next.id
  /\ todo' = Snapshot(g')
  /\ passes' = 1
  /\ UNCHANGED <<source, visiting>>

OptNext ==
  \/ \E c \in todo : Visit(c)
  \/ Rewrite
  \/ NextPass
  \/ Extract

OptSpec == OptInit /\ [][OptNext]_optVars

-----------------------------------------------------------------------------
(* What the emitted expression computes on the device, given its input.    *)
RECURSIVE Value(_, _)
Value(e, x) == Computed(e.op, e.val, [i \in DOMAIN e.kids |-> Value(e.kids[i], x)], x)

(* Some operation on constants in it is unclear.                           *)
RECURSIVE Closed(_)
Closed(e) == e.op # "Input" /\ \A i \in DOMAIN e.kids : Closed(e.kids[i])

RECURSIVE Unsettled(_)
Unsettled(e) ==
  \/ \E i \in DOMAIN e.kids : Unsettled(e.kids[i])
  \/ /\ Closed(e)
     /\ e.kids # <<>>
     /\ Unclear(e.op, [i \in DOMAIN e.kids |-> Value(e.kids[i], Zero)])

SameBits(d, e) == \A x \in DeviceFloats : Value(d, x) = Value(e, x)

(* "Every rewrite preserves the device result bits for all inputs", signed *)
(* zeros, infinities and NaNs included, through any chain of rewrites and  *)
(* folds in any order, but for constants the folds do not settle.  That    *)
(* the cap may stop the passes before the rules have nothing left to join  *)
(* must not show in the bits: a form taken after any pass has them too.    *)
BitsPreserved ==
  ~Unsettled(source) =>
    /\ \A i \in DOMAIN outs : SameBits(source, outs[i])
    /\ PassOver => \A form \in Forms : SameBits(source, form)

(* The doc of optimize: it simplifies "via equality saturation", so the    *)
(* passes end because nothing is left to join.                             *)
Saturates == PassOver /\ g.merged => passes < MaxPasses

(* The doc of optimize: optimize(optimize(e, d), d) = optimize(e, d).      *)
Idempotent == Len(outs) = 2 => outs[1] = outs[2]
=============================================================================
