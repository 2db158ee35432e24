---------------------------- MODULE Collectives ----------------------------
(***************************************************************************)
(* What a collective gives each thread: by the interpreter                 *)
(* (oracle/kernel_collective.rs), which works on unbounded integers, and   *)
(* by the serial C (unpopped-cpu-c/src/collective.rs), which works on C's. *)
(*                                                                         *)
(* A block's threads contribute one by one; then the C walks the groups.   *)
(* Lanes are numbered from 0.                                              *)
(***************************************************************************)
EXTENDS Integers, Sequences, Bitwise

CONSTANTS
  Bits, LongBits,   \* of an int and a long long
  MaskBits,         \* of a ballot's mask
  BlockSize,        \* threads of the block
  GroupSizes,       \* the subgroup sizes; BlockSize for a block's collective
  Types,            \* of the values contributed
  OperandTypes      \* of the operands of a shuffle

ASSUME WidthAssumption == Bits \in Nat \ {0} /\ LongBits >= Bits /\ MaskBits \in Nat \ {0}

VARIABLES
  plan,       \* the collective
  ty,         \* the type of its values, or of a shuffle's operands
  group,      \* the lanes of a group
  lanes,      \* what has been contributed: [value, operand]
  got         \* what each lane was given, or Nothing

collectiveVars == <<plan, ty, group, lanes, got>>

Nothing == <<>>
Lanes == 0 .. BlockSize - 1

-----------------------------------------------------------------------------
(* Types: [signed, bits], and Float for F32 and F64.                       *)
IntType(signed, bits) == [signed |-> signed, bits |-> bits]
Float == [signed |-> TRUE, bits |-> 0]

Lo(t) == IF t.signed THEN -(2 ^ (t.bits - 1)) ELSE 0
Hi(t) == Lo(t) + 2 ^ t.bits - 1

(* wrap; a C cast to t.                                                    *)
Wrap(t, v) == ((v - Lo(t)) % 2 ^ t.bits) + Lo(t)

(* The bits of v, as the unsigned type of its width has them.              *)
Word(t, v) == v % 2 ^ t.bits

LongLong == IntType(TRUE, LongBits)

(* Floats: two zeros, one, and two NaNs.                                   *)
NegZero == 0
PosZero == 1
One == 2
NaNs == {3, 4}
Floats == {NegZero, PosZero, One} \cup NaNs
Better(op, x, y) ==   \* x > y, or x < y
  /\ {x, y} \cap NaNs = {}
  /\ IF op = "Max" THEN x = One /\ y # One ELSE x # One /\ y = One

Truthy(t, v) == IF t = Float THEN v \notin {NegZero, PosZero} ELSE v # 0

-----------------------------------------------------------------------------
(* The interpreter.                                                        *)

(* combine: a float Max or Min keeps a NaN once seen.                      *)
Combine(op, t, x, y) ==
  IF t = Float
  THEN IF x \notin NaNs /\ (y \in NaNs \/ Better(op, y, x)) THEN y ELSE x
  ELSE CASE op = "Sum" -> Wrap(t, x + y)
         [] op = "Max" -> IF x >= y THEN x ELSE y
         [] op = "Min" -> IF x <= y THEN x ELSE y
         [] op = "And" -> Wrap(t, Word(t, x) & Word(t, y))
         [] op = "Or" -> Wrap(t, Word(t, x) | Word(t, y))
         [] op = "Xor" -> Wrap(t, Word(t, x) ^^ Word(t, y))

(* fold of the first n lanes of c, n > 0.                                  *)
Fold(op, t, c, n) ==
  LET fold[i \in 1 .. n] == IF i = 1 THEN c[1].value ELSE Combine(op, t, fold[i - 1], c[i].value)
  IN  fold[n]

Identity(op, t) == IF op = "And" THEN Wrap(t, -1) ELSE 0

(* source: the lane that lane i of n reads; i ^ operand is negative for a  *)
(* negative operand.                                                       *)
Source(mode, i, operand, n) ==
  LET want == CASE mode = "Idx" -> operand % n
                [] mode = "Up" -> i - operand
                [] mode = "Down" -> i + operand
                [] mode = "Xor" -> IF operand < 0 THEN -1 ELSE i ^^ operand
  IN  IF want \in 0 .. n - 1 THEN want ELSE i

Vote(kind, t, c) ==
  LET true == {i \in 1 .. Len(c) : Truthy(t, c[i].value)}
      mask[n \in 0 .. Len(c)] == IF n = 0 THEN 0 ELSE mask[n - 1] + (IF n \in true THEN 2 ^ (n - 1) ELSE 0)
  IN  CASE kind = "All" -> IF true = 1 .. Len(c) THEN 1 ELSE 0
        [] kind = "Any" -> IF true # {} THEN 1 ELSE 0
        [] kind = "Ballot" -> mask[Len(c)]

(* A ballot over more lanes than its mask has bits traps.                  *)
Traps(p, n) == p.is = "Vote" /\ p.kind = "Ballot" /\ n > MaskBits

(* results: of the lanes c of one group.                                   *)
Results(p, t, c) ==
  [i \in 1 .. Len(c) |->
     CASE p.is = "Reduce" -> Fold(p.op, t, c, Len(c))
       [] p.is = "Scan" -> IF p.exclusive
                           THEN IF i = 1 THEN Identity(p.op, t) ELSE Fold(p.op, t, c, i - 1)
                           ELSE Fold(p.op, t, c, i)
       [] p.is = "Shuffle" -> c[Source(p.mode, i - 1, c[i].operand, Len(c)) + 1].value
       [] p.is = "Vote" -> Vote(p.kind, t, c)]

-----------------------------------------------------------------------------
(* The C.  cv and co are its arrays, g and ge the group's first lane and   *)
(* the one past its last.                                                  *)

(* combine: sums through the unsigned type.                                *)
CombineC(op, t, a, b) ==
  IF t = Float
  THEN IF a \in NaNs THEN a ELSE IF b \in NaNs \/ Better(op, b, a) THEN b ELSE a
  ELSE CASE op = "Sum" -> Wrap(t, (Word(t, a) + Word(t, b)) % 2 ^ t.bits)
         [] op = "Max" -> IF a > b THEN a ELSE b
         [] op = "Min" -> IF a < b THEN a ELSE b
         [] op = "And" -> Wrap(t, Word(t, a) & Word(t, b))
         [] op = "Or" -> Wrap(t, Word(t, a) | Word(t, b))
         [] op = "Xor" -> Wrap(t, Word(t, a) ^^ Word(t, b))

(* acc after the loop has been at lane i.                                  *)
Accumulated(op, t, cv, g, i) ==
  LET acc[k \in g .. i] == IF k = g THEN cv[g] ELSE CombineC(op, t, acc[k - 1], cv[k])
  IN  acc[i]

IdentityC(op, t) == IF op = "And" THEN Wrap(t, 2 ^ t.bits - 1) ELSE 0

(* Mutant: the exclusive scan's accumulator has the lane itself already.   *)
ScanLate(op, t, exclusive, cv, g, i) ==
  IF exclusive /\ i = g THEN IdentityC(op, t) ELSE Accumulated(op, t, cv, g, i)

(* scan: an exclusive one stores before it accumulates.                    *)
ScanC(op, t, exclusive, cv, g, i) ==
  IF ~exclusive THEN Accumulated(op, t, cv, g, i)
  ELSE IF i = g THEN IdentityC(op, t) ELSE Accumulated(op, t, cv, g, i - 1)

(* shuffle: the lane of the group that is read.  C's % takes the sign of   *)
(* the dividend, so the size is added; a lane plus or minus a long long    *)
(* that leaves its range leaves the group too.                             *)
SourceC(mode, lane, co, size) ==
  LET rem == IF co < 0 THEN -((-co) % size) ELSE co % size
      want == CASE mode = "Idx" -> (rem + size) % size
                [] mode = "Up" -> lane - co
                [] mode = "Down" -> lane + co
                [] mode = "Xor" -> IF co < 0 THEN -1 ELSE lane ^^ co
  IN  IF want >= 0 /\ want < size THEN want ELSE lane

(* vote: mask is unsigned.                                                 *)
VoteC(kind, t, cv, g, ge) ==
  LET f(i) == IF Truthy(t, cv[i]) THEN 1 ELSE 0
      mask[i \in g - 1 .. ge - 1] == IF i < g THEN 0 ELSE mask[i - 1] | (f(i) * 2 ^ (i - g))
  IN  CASE kind = "All" -> IF \A i \in g .. ge - 1 : f(i) = 1 THEN 1 ELSE 0
        [] kind = "Any" -> IF \E i \in g .. ge - 1 : f(i) = 1 THEN 1 ELSE 0
        [] kind = "Ballot" -> mask[ge - 1]

First(i) == (i \div group) * group
Past(i) == IF First(i) + group < BlockSize THEN First(i) + group ELSE BlockSize

(* contribute and group_body: what lane i's array element becomes.         *)
Emitted(i) ==
  LET cv == [l \in Lanes |-> lanes[l + 1].value]
      co == [l \in Lanes |-> Wrap(LongLong, lanes[l + 1].operand)]
      g == First(i)
  IN  CASE plan.is = "Reduce" -> Accumulated(plan.op, ty, cv, g, Past(i) - 1)
        [] plan.is = "Scan" -> ScanC(plan.op, ty, plan.exclusive, cv, g, i)
        [] plan.is = "Shuffle" -> cv[g + SourceC(plan.mode, i - g, co[i], Past(i) - g)]
        [] plan.is = "Vote" -> VoteC(plan.kind, ty, cv, g, Past(i))

-----------------------------------------------------------------------------
(* check_collective: what may be folded and scanned.  Floats are not       *)
(* summed here, their rounding is left out.                                *)
FoldOps(t) == IF t = Float THEN {"Max", "Min"} ELSE {"Sum", "Max", "Min", "And", "Or", "Xor"}

Folds(t) ==
  {[is |-> "Reduce", op |-> o] : o \in FoldOps(t)}
  \cup {[is |-> "Scan", op |-> o, exclusive |-> FALSE] : o \in FoldOps(t)}
  \cup {[is |-> "Scan", op |-> o, exclusive |-> TRUE] : o \in FoldOps(t) \ {"Max", "Min"}}
  \cup {[is |-> "Vote", kind |-> v] : v \in {"All", "Any", "Ballot"}}

(* A broadcast is an Idx shuffle.                                          *)
Shuffles == {[is |-> "Shuffle", mode |-> m] : m \in {"Idx", "Up", "Down", "Xor"}}

Edge(t) == {Lo(t), Lo(t) + 1, 0, 1, 2, Hi(t)} \cup (IF t.signed THEN {-1} ELSE {Hi(t) - 1, 2 ^ (t.bits - 1)})

CollectiveInit ==
  /\ \/ ty \in Types /\ plan \in Folds(ty)
     \/ ty \in OperandTypes /\ plan \in Shuffles
  /\ group \in GroupSizes
  /\ lanes = <<>>
  /\ got = Nothing

(* A shuffle moves values whole: each lane's is its own number.            *)
Contribute ==
  /\ Len(lanes) < BlockSize
  /\ \E v \in IF ty = Float THEN Floats ELSE Edge(ty) :
       lanes' = Append(lanes, IF plan.is = "Shuffle" THEN [value |-> Len(lanes), operand |-> v]
                              ELSE [value |-> v, operand |-> 0])
  /\ UNCHANGED <<plan, ty, group, got>>

Exchange ==
  /\ Len(lanes) = BlockSize
  /\ got = Nothing
  /\ got' = [i \in Lanes |-> Emitted(i)]
  /\ UNCHANGED <<plan, ty, group, lanes>>

CollectiveNext == Contribute \/ Exchange
CollectiveSpec == CollectiveInit /\ [][CollectiveNext]_collectiveVars

-----------------------------------------------------------------------------
(* group_of: the lanes that meet with lane i.                              *)
Members(i) == SubSeq(lanes, First(i) + 1, Past(i))

SameAs(i) == got[i] = Results(plan, ty, Members(i))[i - First(i) + 1]

Compared(i) == ~Traps(plan, Len(Members(i)))

(* Every lane of every group, the last smaller one included, is given what *)
(* the interpreter gives it, for operands a long long holds.               *)
AsInterpreted ==
  (got # Nothing /\ \A i \in Lanes : Wrap(LongLong, lanes[i + 1].operand) = lanes[i + 1].operand)
    => \A i \in Lanes : Compared(i) => SameAs(i)

(* unpopped-cpu-c/src/collective.rs:7-8: "The rules are the oracle's       *)
(* (oracle/kernel_collective.rs), written out in C so the two can be       *)
(* compared byte for byte".                                                *)
RulesAreTheOracles == got # Nothing => \A i \in Lanes : Compared(i) => SameAs(i)
=============================================================================
