---------------------------- MODULE EGraphProofs ----------------------------
(***************************************************************************)
(* The e-graph of optimize.rs keeps the device's bits.  A graph means d    *)
(* when every node of a class, and every node the hashcons has for it,     *)
(* computes for the input x what d says of the class.  Interning a node,   *)
(* applying the rules to it and rebuilding leave a graph that means the    *)
(* same of the classes there were.                                         *)
(***************************************************************************)
EXTENDS EGraph, FiniteSetTheorems, SequenceTheorems, WellFoundedInduction, TLAPS

-----------------------------------------------------------------------------
(* The floats.                                                             *)

Magnitudes == {m \in 0 .. MaxFinite : m % 2 = 0} \cup {InfMagnitude, NaNMagnitude}

LEMMA FloatIs ==
  ASSUME NEW x \in DeviceFloats
  PROVE  x[1] \in {0, 1} /\ x[2] \in Magnitudes /\ x[2] \in Nat /\ x = <<x[1], x[2]>>
BY FloatAssumption DEF DeviceFloats, Magnitudes, InfMagnitude, NaNMagnitude

LEMMA MakesFloat ==
  ASSUME NEW s \in {0, 1}, NEW m \in Magnitudes
  PROVE  <<s, m>> \in DeviceFloats
BY DEF DeviceFloats, Magnitudes

LEMMA Quotient ==
  ASSUME NEW p \in Nat, NEW q \in Nat, q > 0
  PROVE  p \div q \in Nat
OBVIOUS

LEMMA NearestIs ==
  ASSUME NEW p \in Nat, NEW q \in Nat, q > 0
  PROVE  Nearest(p, q) \in Nat
<1>1. p \div q \in Nat
  BY Quotient
<1> QED BY <1>1 DEF Nearest

LEMMA AtDeviceIs ==
  ASSUME NEW p \in Nat, NEW q \in Nat, q > 0
  PROVE  AtDevice(p, q) \in Magnitudes
<1>1. PICK n : n = Nearest(p, 2 * q)
  OBVIOUS
<1>2. n \in Nat
  BY <1>1, NearestIs
<1>3. (2 * n) % 2 = 0
  BY <1>2
<1>4. AtDevice(p, q) = Bounded(2 * n)
  BY <1>1 DEF AtDevice
<1> QED BY <1>2, <1>3, <1>4, FloatAssumption DEF Bounded, Magnitudes

(* A magnitude the device holds is not rounded.                            *)
LEMMA ExactAtDevice ==
  ASSUME NEW m \in Magnitudes, m <= MaxFinite
  PROVE  AtDevice(m, 1) = m /\ AtDevice(4 * m, 4) = m
<1>1. m \in Nat /\ m % 2 = 0
  BY FloatAssumption DEF Magnitudes, InfMagnitude, NaNMagnitude
<1>2. PICK h \in Nat : m = 2 * h
  <2>1. m = 2 * (m \div 2) /\ m \div 2 \in Nat
    BY <1>1
  <2> QED BY <2>1
<1>3. Nearest(m, 2) = h
  BY <1>2 DEF Nearest
<1>4. Nearest(4 * m, 8) = h
  BY <1>2 DEF Nearest
<1>5. Bounded(2 * h) = m
  BY <1>1, <1>2, FloatAssumption DEF Bounded
<1> QED BY <1>3, <1>4, <1>5 DEF AtDevice

LEMMA RoundedSame ==
  ASSUME NEW x \in DeviceFloats
  PROVE  Rounded(x) = x
<1>1. x[1] \in {0, 1} /\ x[2] \in Magnitudes /\ x[2] \in Nat /\ x = <<x[1], x[2]>>
  BY FloatIs
<1>2. CASE x[2] > MaxFinite
  BY <1>2 DEF Rounded
<1>3. CASE ~(x[2] > MaxFinite)
  <2>1. AtDevice(x[2], 1) = x[2]
    BY <1>1, <1>3, ExactAtDevice, FloatAssumption
  <2> QED BY <1>1, <1>3, <2>1 DEF Rounded
<1> QED BY <1>2, <1>3

LEMMA SpecialFloats ==
  /\ Zero \in DeviceFloats /\ NegZero \in DeviceFloats /\ One \in DeviceFloats
  /\ LiteralNaN \in DeviceFloats /\ MadeNaN \in DeviceFloats
  /\ ~IsNaN(Zero) /\ ~IsNaN(NegZero) /\ ~IsNaN(One) /\ ~IsInf(Zero) /\ ~IsInf(NegZero) /\ ~IsInf(One)
  /\ IsNaN(LiteralNaN) /\ IsNaN(MadeNaN)
<1>1. 0 \in Magnitudes /\ 4 \in Magnitudes /\ NaNMagnitude \in Magnitudes
  BY FloatAssumption DEF Magnitudes
<1>2. /\ Zero \in DeviceFloats /\ NegZero \in DeviceFloats /\ One \in DeviceFloats
      /\ LiteralNaN \in DeviceFloats /\ MadeNaN \in DeviceFloats
  BY <1>1, MakesFloat DEF Zero, NegZero, One, LiteralNaN, MadeNaN
<1> QED BY <1>2, FloatAssumption DEF Zero, NegZero, One, LiteralNaN, MadeNaN, IsNaN, IsInf, NaNMagnitude, InfMagnitude

-----------------------------------------------------------------------------
(* The operations stay within the device's floats.                         *)
LEMMA SignsAdd ==
  ASSUME NEW a \in {0, 1}, NEW b \in {0, 1}
  PROVE  (a + b) % 2 \in {0, 1} /\ a * b \in {0, 1} /\ 1 - a \in {0, 1}
OBVIOUS

LEMMA FiniteMagnitude ==
  ASSUME NEW x \in DeviceFloats, ~IsNaN(x), ~IsInf(x)
  PROVE  x[2] <= MaxFinite
BY FloatIs, FloatAssumption DEF Magnitudes, IsNaN, IsInf

LEMMA NegFloat ==
  ASSUME NEW x \in DeviceFloats
  PROVE  NegF(x) \in DeviceFloats /\ NegF(x)[2] = x[2] /\ NegF(x)[1] = 1 - x[1]
<1>1. x[1] \in {0, 1} /\ x[2] \in Magnitudes
  BY FloatIs
<1>2. 1 - x[1] \in {0, 1}
  BY <1>1
<1>3. <<1 - x[1], x[2]>> \in DeviceFloats
  BY <1>1, <1>2, MakesFloat
<1> QED BY <1>3 DEF NegF

LEMMA AddFloat ==
  ASSUME NEW x \in DeviceFloats, NEW y \in DeviceFloats
  PROVE  AddAt(x, y, AtDevice) \in DeviceFloats
<1> DEFINE sum == Real(x) + Real(y)
           sign == IF sum = 0 THEN x[1] * y[1] ELSE IF sum < 0 THEN 1 ELSE 0
<1>1. /\ x[1] \in {0, 1} /\ x[2] \in Nat /\ y[1] \in {0, 1} /\ y[2] \in Nat
  BY FloatIs
<1>2. sum \in Int
  BY <1>1 DEF Real
<1>3. Abs(sum) \in Nat
  BY <1>2 DEF Abs
<1>4. AtDevice(Abs(sum), 1) \in Magnitudes
  BY <1>3, AtDeviceIs
<1>5. sign \in {0, 1}
  BY <1>1, <1>2, SignsAdd
<1>6. <<sign, AtDevice(Abs(sum), 1)>> \in DeviceFloats
  BY <1>4, <1>5, MakesFloat
<1>7. \/ AddAt(x, y, AtDevice) \in {x, y, MadeNaN}
      \/ AddAt(x, y, AtDevice) = <<sign, AtDevice(Abs(sum), 1)>>
  BY DEF AddAt, OrNaN, SumAt
<1> QED BY <1>6, <1>7, SpecialFloats

LEMMA SubFloat ==
  ASSUME NEW x \in DeviceFloats, NEW y \in DeviceFloats
  PROVE  SubAt(x, y, AtDevice) \in DeviceFloats
<1>1. AddAt(x, NegF(y), AtDevice) \in DeviceFloats
  BY NegFloat, AddFloat
<1>2. SubAt(x, y, AtDevice) \in {x, y, AddAt(x, NegF(y), AtDevice)}
  BY DEF SubAt
<1> QED BY <1>1, <1>2

LEMMA MulFloat ==
  ASSUME NEW x \in DeviceFloats, NEW y \in DeviceFloats
  PROVE  MulAt(x, y, AtDevice) \in DeviceFloats
<1> DEFINE sign == (x[1] + y[1]) % 2
<1>1. /\ x[1] \in {0, 1} /\ x[2] \in Nat /\ y[1] \in {0, 1} /\ y[2] \in Nat
  BY FloatIs
<1>2. sign \in {0, 1}
  BY <1>1, SignsAdd
<1>3. PICK p \in Nat : p = x[2] * y[2]
  BY <1>1
<1>4. AtDevice(p, 4) \in Magnitudes
  BY <1>3, AtDeviceIs
<1>5. <<sign, AtDevice(p, 4)>> \in DeviceFloats /\ <<sign, InfMagnitude>> \in DeviceFloats
  <2>1. InfMagnitude \in Magnitudes
    BY DEF Magnitudes
  <2> QED BY <1>2, <1>4, <2>1, MakesFloat
<1>6. MulAt(x, y, AtDevice) \in {x, y, MadeNaN, <<sign, InfMagnitude>>, <<sign, AtDevice(p, 4)>>}
  BY <1>3 DEF MulAt, OrNaN, Sign
<1> QED BY <1>5, <1>6, SpecialFloats

LEMMA DivFloat ==
  ASSUME NEW x \in DeviceFloats, NEW y \in DeviceFloats
  PROVE  DivAt(x, y, AtDevice) \in DeviceFloats
<1> DEFINE sign == (x[1] + y[1]) % 2
<1>1. /\ x[1] \in {0, 1} /\ x[2] \in Nat /\ y[1] \in {0, 1} /\ y[2] \in Nat
  BY FloatIs
<1>2. sign \in {0, 1}
  BY <1>1, SignsAdd
<1>3. ~IsZero(y) => AtDevice(4 * x[2], y[2]) \in Magnitudes
  <2>1. ~IsZero(y) => y[2] > 0
    BY <1>1 DEF IsZero
  <2> QED BY <1>1, <2>1, AtDeviceIs
<1>4. /\ ~IsZero(y) => <<sign, AtDevice(4 * x[2], y[2])>> \in DeviceFloats
      /\ <<sign, InfMagnitude>> \in DeviceFloats /\ <<sign, 0>> \in DeviceFloats
  <2>1. InfMagnitude \in Magnitudes /\ 0 \in Magnitudes
    BY FloatAssumption DEF Magnitudes
  <2> QED BY <1>2, <1>3, <2>1, MakesFloat
<1>5. \/ DivAt(x, y, AtDevice) \in {x, y, MadeNaN, <<sign, InfMagnitude>>, <<sign, 0>>}
      \/ ~IsZero(y) /\ DivAt(x, y, AtDevice) = <<sign, AtDevice(4 * x[2], y[2])>>
  BY DEF DivAt, OrNaN, Sign
<1> QED BY <1>4, <1>5, SpecialFloats

-----------------------------------------------------------------------------
(* The identities the rules use, to the bit.                               *)
LEMMA AddNegZero ==
  ASSUME NEW x \in DeviceFloats
  PROVE  AddAt(x, NegZero, AtDevice) = x /\ AddAt(NegZero, x, AtDevice) = x
<1>1. x[1] \in {0, 1} /\ x[2] \in Magnitudes /\ x[2] \in Nat /\ x = <<x[1], x[2]>>
  BY FloatIs
<1>2. ~IsNaN(NegZero) /\ ~IsInf(NegZero)
  BY SpecialFloats
<1>3. CASE IsNaN(x) \/ IsInf(x)
  BY <1>2, <1>3 DEF AddAt, OrNaN, SumAt
<1>4. CASE ~IsNaN(x) /\ ~IsInf(x)
  <2>1. x[2] <= MaxFinite
    BY <1>4, FiniteMagnitude
  <2>2. AtDevice(x[2], 1) = x[2]
    BY <1>1, <2>1, ExactAtDevice
  <2>3. Real(NegZero) = 0 /\ NegZero[1] = 1
    <3>1. NegZero[1] = 1 /\ NegZero[2] \in Int /\ NegZero[2] <= 0 /\ 0 <= NegZero[2]
      BY DEF NegZero
    <3>2. \A n \in Int : n <= 0 /\ 0 <= n => -n \in Int /\ -n <= 0 /\ 0 <= -n
      OBVIOUS
    <3>3. Real(NegZero) = -NegZero[2]
      BY <3>1 DEF Real
    <3> QED BY <3>1, <3>2, <3>3
  <2>4. Real(x) \in Int /\ Abs(Real(x)) = x[2]
    BY <1>1 DEF Real, Abs
  <2>5. (IF Real(x) = 0 THEN x[1] * 1 ELSE IF Real(x) < 0 THEN 1 ELSE 0) = x[1]
    BY <1>1 DEF Real
  <2>6. Real(x) + 0 = Real(x) /\ 0 + Real(x) = Real(x) /\ x[1] * 1 = x[1] /\ 1 * x[1] = x[1]
    BY <1>1, <2>4
  <2>7. AddAt(x, NegZero, AtDevice) = <<x[1], AtDevice(x[2], 1)>>
    BY <1>2, <1>4, <2>3, <2>4, <2>5, <2>6 DEF AddAt, OrNaN, SumAt
  <2>8. AddAt(NegZero, x, AtDevice) = <<x[1], AtDevice(x[2], 1)>>
    BY <1>2, <1>4, <2>3, <2>4, <2>5, <2>6 DEF AddAt, OrNaN, SumAt
  <2> QED BY <1>1, <2>2, <2>7, <2>8
<1> QED BY <1>3, <1>4

LEMMA SubZero ==
  ASSUME NEW x \in DeviceFloats
  PROVE  SubAt(x, Zero, AtDevice) = x
<1>1. NegF(Zero) = NegZero
  BY DEF NegF, Zero, NegZero
<1>2. ~IsNaN(Zero)
  BY SpecialFloats
<1> QED BY <1>1, <1>2, AddNegZero DEF SubAt

LEMMA MulOne ==
  ASSUME NEW x \in DeviceFloats
  PROVE  MulAt(x, One, AtDevice) = x /\ MulAt(One, x, AtDevice) = x /\ DivAt(x, One, AtDevice) = x
<1>1. x[1] \in {0, 1} /\ x[2] \in Magnitudes /\ x[2] \in Nat /\ x = <<x[1], x[2]>>
  BY FloatIs
<1>2. ~IsNaN(One) /\ ~IsInf(One) /\ ~IsZero(One) /\ One[1] = 0 /\ One[2] = 4
  BY SpecialFloats DEF IsZero, One
<1>3. (x[1] + 0) % 2 = x[1] /\ (0 + x[1]) % 2 = x[1]
  BY <1>1
<1>4. CASE IsNaN(x)
  <2>1. MulAt(x, One, AtDevice) = x
    BY <1>1, <1>2, <1>4 DEF MulAt, OrNaN, Sign
  <2>2. MulAt(One, x, AtDevice) = x
    BY <1>1, <1>2, <1>4 DEF MulAt, OrNaN, Sign
  <2>3. DivAt(x, One, AtDevice) = x
    BY <1>1, <1>2, <1>4 DEF DivAt, OrNaN, Sign
  <2> QED BY <2>1, <2>2, <2>3
<1>5. CASE ~IsNaN(x) /\ IsInf(x)
  <2>1. x[2] = InfMagnitude /\ ~IsZero(x)
    BY <1>5, FloatAssumption DEF IsInf, IsZero, InfMagnitude
  <2> QED BY <1>1, <1>2, <1>3, <1>5, <2>1 DEF MulAt, DivAt, OrNaN, Sign
<1>6. CASE ~IsNaN(x) /\ ~IsInf(x)
  <2>1. x[2] <= MaxFinite
    BY <1>6, FiniteMagnitude
  <2>2. AtDevice(4 * x[2], 4) = x[2]
    BY <1>1, <2>1, ExactAtDevice
  <2>3. x[2] * 4 = 4 * x[2]
    BY <1>1
  <2> QED BY <1>1, <1>2, <1>3, <1>6, <2>2, <2>3 DEF MulAt, DivAt, OrNaN, Sign
<1> QED BY <1>4, <1>5, <1>6

LEMMA NegTwice ==
  ASSUME NEW x \in DeviceFloats
  PROVE  NegF(NegF(x)) = x /\ AbsF(AbsF(x)) = AbsF(x) /\ AbsF(NegF(x)) = AbsF(x)
BY FloatIs DEF NegF, AbsF

LEMMA ReluTwice ==
  ASSUME NEW x \in DeviceFloats
  PROVE  ReluF(ReluF(x)) = ReluF(x)
<1>1. ~Less(Zero, Zero)
  BY DEF Less, Real, Zero
<1> QED BY <1>1 DEF ReluF

LEMMA MaxSame ==
  ASSUME NEW x
  PROVE  MaxF(x, x) = x
BY DEF MaxF, OrNaN

(* 2 ^ -k for a power of two, when both are of the device.                 *)
LEMMA ReciprocalIs ==
  ASSUME NEW v \in DeviceFloats, Reciprocal(v) # <<>>
  PROVE  \E r \in DeviceFloats :
           /\ Reciprocal(v) = <<r>> /\ ~IsNaN(v) /\ ~IsNaN(r)
           /\ \A x \in DeviceFloats : DivAt(x, v, AtDevice) = MulAt(x, r, AtDevice)
<1> DEFINE r == <<v[1], 16 \div v[2]>>
<1>1. /\ v[2] \in {2 ^ k : k \in 1 .. 8} /\ v[2] <= MaxFinite /\ 16 % v[2] = 0
      /\ 16 \div v[2] \in 2 .. MaxFinite /\ Reciprocal(v) = <<r>>
  BY DEF Reciprocal
<1>2. v[1] \in {0, 1} /\ v[2] \in Nat
  BY FloatIs
<1>3. v[2] \in {2, 4, 8}
  <2>1. PICK k \in 1 .. 8 : v[2] = 2 ^ k
    BY <1>1
  <2>2. CASE k = 1
    <3>1. 2 ^ 1 = 2
      OBVIOUS
    <3> QED BY <2>1, <2>2, <3>1
  <2>3. CASE k = 2
    <3>1. 2 ^ 2 = 4
      OBVIOUS
    <3> QED BY <2>1, <2>3, <3>1
  <2>4. CASE k = 3
    <3>1. 2 ^ 3 = 8
      OBVIOUS
    <3> QED BY <2>1, <2>4, <3>1
  <2>5. CASE k \in 4 .. 8
    <3>1. 2 ^ 4 = 16 /\ 2 ^ 5 = 32 /\ 2 ^ 6 = 64 /\ 2 ^ 7 = 128 /\ 2 ^ 8 = 256
      OBVIOUS
    <3>2. v[2] \in {16, 32, 64, 128, 256}
      <4>1. k = 4 \/ k = 5 \/ k = 6 \/ k = 7 \/ k = 8
        BY <2>5
      <4>2. v[2] = 2 ^ 4 \/ v[2] = 2 ^ 5 \/ v[2] = 2 ^ 6 \/ v[2] = 2 ^ 7 \/ v[2] = 2 ^ 8
        BY <2>1, <4>1, Zenon
      <4> QED BY <3>1, <4>2
    <3>3. 16 \div 16 = 1 /\ 16 \div 32 = 0 /\ 16 \div 64 = 0 /\ 16 \div 128 = 0 /\ 16 \div 256 = 0
      OBVIOUS
    <3>4. 16 \div v[2] \in {0, 1}
      BY <3>2, <3>3
    <3> QED BY <1>1, <3>4
  <2> QED BY <2>2, <2>3, <2>4, <2>5
<1>4. \/ v[2] = 2 /\ r[2] = 8
      \/ v[2] = 4 /\ r[2] = 4
      \/ v[2] = 8 /\ r[2] = 2
  <2>1. 16 \div 2 = 8 /\ 16 \div 4 = 4 /\ 16 \div 8 = 2
    OBVIOUS
  <2> QED BY <1>3, <2>1
<1>5. r \in DeviceFloats
  <2>1. r[2] \in 0 .. MaxFinite /\ r[2] % 2 = 0
    BY <1>1, <1>4
  <2>2. r[2] \in Magnitudes
    BY <2>1 DEF Magnitudes
  <2> QED BY <1>2, <2>2, MakesFloat
<1>6. ~IsNaN(v) /\ ~IsNaN(r) /\ ~IsInf(v) /\ ~IsInf(r) /\ ~IsZero(v) /\ ~IsZero(r)
  BY <1>1, <1>4, FloatAssumption DEF IsNaN, IsInf, IsZero, NaNMagnitude, InfMagnitude
<1>7. r[1] = v[1]
  OBVIOUS
<1> HIDE DEF r
<1>8. ASSUME NEW x \in DeviceFloats PROVE DivAt(x, v, AtDevice) = MulAt(x, r, AtDevice)
  <2>1. x[1] \in {0, 1} /\ x[2] \in Nat
    BY FloatIs
  <2>2. CASE IsNaN(x)
    BY <1>2, <1>7, <2>1, <2>2 DEF DivAt, MulAt, OrNaN, Sign
  <2>3. CASE ~IsNaN(x) /\ IsInf(x)
    <3>1. ~IsZero(x)
      BY <2>3, FloatAssumption DEF IsInf, IsZero, InfMagnitude
    <3>2. DivAt(x, v, AtDevice) = <<(x[1] + v[1]) % 2, InfMagnitude>>
      BY <1>6, <2>3 DEF DivAt, OrNaN, Sign
    <3>3. MulAt(x, r, AtDevice) = <<(x[1] + r[1]) % 2, InfMagnitude>>
      BY <1>6, <2>3, <3>1 DEF MulAt, OrNaN, Sign
    <3> QED BY <1>7, <3>2, <3>3
  <2>4. CASE ~IsNaN(x) /\ ~IsInf(x)
    <3>1. DivAt(x, v, AtDevice) = <<(x[1] + v[1]) % 2, AtDevice(4 * x[2], v[2])>>
      BY <1>6, <2>4 DEF DivAt, OrNaN, Sign
    <3>2. MulAt(x, r, AtDevice) = <<(x[1] + r[1]) % 2, AtDevice(x[2] * r[2], 4)>>
      BY <1>6, <2>4 DEF MulAt, OrNaN, Sign
    <3>3. AtDevice(4 * x[2], v[2]) = AtDevice(x[2] * r[2], 4)
      <4>1. PICK m \in Nat : m = x[2]
        BY <2>1
      <4>2. Nearest(4 * m, 2 * 2) = Nearest(m * 8, 2 * 4)
        BY DEF Nearest
      <4>3. Nearest(4 * m, 2 * 4) = Nearest(m * 4, 2 * 4)
        BY DEF Nearest
      <4>4. Nearest(4 * m, 2 * 8) = Nearest(m * 2, 2 * 4)
        BY DEF Nearest
      <4>5. CASE v[2] = 2 /\ r[2] = 8
        BY <4>1, <4>2, <4>5 DEF AtDevice
      <4>6. CASE v[2] = 4 /\ r[2] = 4
        BY <4>1, <4>3, <4>6 DEF AtDevice
      <4>7. CASE v[2] = 8 /\ r[2] = 2
        BY <4>1, <4>4, <4>7 DEF AtDevice
      <4> QED BY <1>4, <4>5, <4>6, <4>7
    <3> QED BY <1>7, <3>1, <3>2, <3>3
  <2> QED BY <2>2, <2>3, <2>4
<1> QED BY <1>1, <1>5, <1>6, <1>8

-----------------------------------------------------------------------------
(* What the nodes of a graph compute.                                      *)

Arity(op) ==
  CASE op \in {"Neg", "Abs", "Relu", "Sqr"} -> 1
    [] op \in {"Add", "Sub", "Mul", "Div", "Max"} -> 2
    [] op = "Select" -> 3
    [] OTHER -> 0

Ops == {"Input", "Const", "Neg", "Abs", "Relu", "Sqr", "Add", "Sub", "Mul", "Div", "Max", "Select"}

(* The nodes whose children are among the first N classes.                 *)
ENode(N) == {n \in [op : Ops, val : DeviceFloats, kids : Seq(1 .. N)] : Len(n.kids) = Arity(n.op)}

(* What a node computes for the input x, where d is what the classes do.   *)
Computes(n, d, x) == Computed(n.op, n.val, [i \in DOMAIN n.kids |-> d[n.kids[i]]], x)

LEMMA OperandsOf ==
  ASSUME NEW N \in Nat, NEW n \in ENode(N)
  PROVE  /\ n.op \in Ops /\ n.val \in DeviceFloats /\ n.kids \in Seq(1 .. N)
         /\ Len(n.kids) = Arity(n.op) /\ DOMAIN n.kids = 1 .. Arity(n.op) /\ Arity(n.op) \in 0 .. 3
         /\ \A i \in 1 .. Arity(n.op) : n.kids[i] \in 1 .. N
<1>1. n.op \in Ops /\ n.val \in DeviceFloats /\ n.kids \in Seq(1 .. N) /\ Len(n.kids) = Arity(n.op)
  BY DEF ENode
<1>2. Arity(n.op) \in 0 .. 3
  BY DEF Arity
<1> QED BY <1>1, <1>2

(* Of any number of floats an operator makes a float.                      *)
LEMMA ComputedFloat ==
  ASSUME NEW op \in Ops, NEW val \in DeviceFloats, NEW x \in DeviceFloats,
         NEW v, \A i \in 1 .. Arity(op) : v[i] \in DeviceFloats
  PROVE  Computed(op, val, v, x) \in DeviceFloats
<1>1. CASE op \in {"Input", "Const"}
  BY <1>1, RoundedSame, SpecialFloats DEF Computed
<1>2. CASE op \in {"Neg", "Abs", "Relu", "Sqr"}
  <2>1. v[1] \in DeviceFloats
    BY <1>2 DEF Arity
  <2>2. NegF(v[1]) \in DeviceFloats
    BY <2>1, NegFloat
  <2>3. AbsF(v[1]) \in DeviceFloats
    BY <2>1, FloatIs, MakesFloat DEF AbsF
  <2>4. ReluF(v[1]) \in DeviceFloats
    BY <2>1, SpecialFloats DEF ReluF
  <2>5. SqrAt(v[1], AtDevice) \in DeviceFloats
    BY <2>1, MulFloat DEF SqrAt
  <2> QED BY <1>2, <2>2, <2>3, <2>4, <2>5 DEF Computed
<1>3. CASE op \in {"Add", "Sub", "Mul", "Div", "Max"}
  <2>1. v[1] \in DeviceFloats /\ v[2] \in DeviceFloats
    BY <1>3 DEF Arity
  <2>2. /\ AddAt(v[1], v[2], AtDevice) \in DeviceFloats /\ SubAt(v[1], v[2], AtDevice) \in DeviceFloats
        /\ MulAt(v[1], v[2], AtDevice) \in DeviceFloats /\ DivAt(v[1], v[2], AtDevice) \in DeviceFloats
    BY <2>1, AddFloat, SubFloat, MulFloat, DivFloat
  <2>3. MaxF(v[1], v[2]) \in DeviceFloats
    BY <2>1 DEF MaxF, OrNaN
  <2> QED BY <1>3, <2>2, <2>3 DEF Computed
<1>4. CASE op = "Select"
  <2>1. v[2] \in DeviceFloats /\ v[3] \in DeviceFloats
    BY <1>4 DEF Arity
  <2> QED BY <1>4, <2>1 DEF Computed, SelectF
<1> QED BY <1>1, <1>2, <1>3, <1>4 DEF Ops

(* A node computes the same if its children do.                            *)
LEMMA ComputesSame ==
  ASSUME NEW N \in Nat, NEW n \in ENode(N), NEW k, NEW d, NEW e, NEW x,
         k.op = n.op, k.val = n.val, DOMAIN k.kids = DOMAIN n.kids,
         \A i \in DOMAIN n.kids : e[k.kids[i]] = d[n.kids[i]]
  PROVE  Computes(k, e, x) = Computes(n, d, x)
<1>1. [i \in DOMAIN k.kids |-> e[k.kids[i]]] = [i \in DOMAIN n.kids |-> d[n.kids[i]]]
  OBVIOUS
<1> QED BY <1>1 DEF Computes

LEMMA ComputesFloat ==
  ASSUME NEW N \in Nat, NEW n \in ENode(N), NEW d \in [1 .. N -> DeviceFloats], NEW x \in DeviceFloats
  PROVE  Computes(n, d, x) \in DeviceFloats
<1> DEFINE v == [i \in DOMAIN n.kids |-> d[n.kids[i]]]
<1>1. n.op \in Ops /\ n.val \in DeviceFloats /\ DOMAIN n.kids = 1 .. Arity(n.op)
      /\ \A i \in 1 .. Arity(n.op) : n.kids[i] \in 1 .. N
  BY OperandsOf
<1>2. \A i \in 1 .. Arity(n.op) : v[i] \in DeviceFloats
  BY <1>1
<1> HIDE DEF v
<1>3. Computed(n.op, n.val, v, x) \in DeviceFloats
  BY <1>1, <1>2, ComputedFloat
<1> QED BY <1>3 DEF Computes, v

-----------------------------------------------------------------------------
(* What a graph says.                                                      *)

(* A graph of N classes, as the operations leave it.                       *)
WellMade(g) ==
  LET N == Len(g.root) IN
  /\ g = [root |-> g.root, nodes |-> g.nodes, memo |-> g.memo, merged |-> g.merged]
  /\ g.root \in Seq(Nat)
  /\ \A i \in 1 .. N : g.root[i] \in 1 .. N /\ g.root[g.root[i]] = g.root[i]
  /\ g.nodes \in Seq(Seq(ENode(N))) /\ Len(g.nodes) = N
  /\ DOMAIN g.memo \subseteq ENode(N)
  /\ \A n \in DOMAIN g.memo : g.memo[n] \in 1 .. N

(* d says what each class computes for the input x, and every node of a    *)
(* class, and every node the hashcons has for it, computes just that.      *)
Means(g, d, x) ==
  /\ WellMade(g)
  /\ d \in [1 .. Len(g.root) -> DeviceFloats]
  /\ \A i \in 1 .. Len(g.root) : d[g.root[i]] = d[i]
  /\ \A i \in 1 .. Len(g.root) : \A k \in 1 .. Len(g.nodes[i]) : Computes(g.nodes[i][k], d, x) = d[i]
  /\ \A n \in DOMAIN g.memo : Computes(n, d, x) = d[g.memo[n]]

(* The classes there were compute what they did.                           *)
Continues(e, d) == DOMAIN d \subseteq DOMAIN e /\ \A i \in DOMAIN d : e[i] = d[i]

(* What an operation on a graph that means d must leave.                   *)
Keeps(h, d, x) == \E e : Means(h, e, x) /\ Continues(e, d)

LEMMA WellMadeParts ==
  ASSUME NEW g, WellMade(g)
  PROVE  /\ g = [root |-> g.root, nodes |-> g.nodes, memo |-> g.memo, merged |-> g.merged]
         /\ Len(g.root) \in Nat /\ g.root \in Seq(Nat) /\ DOMAIN g.root = 1 .. Len(g.root)
         /\ \A i \in 1 .. Len(g.root) : g.root[i] \in 1 .. Len(g.root) /\ g.root[g.root[i]] = g.root[i]
         /\ g.nodes \in Seq(Seq(ENode(Len(g.root)))) /\ Len(g.nodes) = Len(g.root)
         /\ DOMAIN g.nodes = 1 .. Len(g.root)
         /\ \A i \in 1 .. Len(g.root) : g.nodes[i] \in Seq(ENode(Len(g.root)))
         /\ DOMAIN g.memo \subseteq ENode(Len(g.root))
         /\ \A n \in DOMAIN g.memo : g.memo[n] \in 1 .. Len(g.root)
<1>1. g.root \in Seq(Nat) /\ g.nodes \in Seq(Seq(ENode(Len(g.root)))) /\ Len(g.nodes) = Len(g.root)
  BY DEF WellMade
<1>2. Len(g.root) \in Nat /\ DOMAIN g.root = 1 .. Len(g.root) /\ DOMAIN g.nodes = 1 .. Len(g.root)
  BY <1>1
<1>3. \A i \in 1 .. Len(g.root) : g.nodes[i] \in Seq(ENode(Len(g.root)))
  BY <1>1
<1> QED BY <1>1, <1>2, <1>3 DEF WellMade

LEMMA MakesSeq ==
  ASSUME NEW N \in Nat, NEW S, NEW f \in [1 .. N -> S]
  PROVE  f \in Seq(S) /\ Len(f) = N
<1>1. f \in Seq(S)
  OBVIOUS
<1>2. DOMAIN f = 1 .. N
  OBVIOUS
<1>3. Len(f) \in Nat /\ DOMAIN f = 1 .. Len(f)
  BY <1>1
<1>4. Len(f) = N
  BY <1>2, <1>3
<1> QED BY <1>1, <1>4

LEMMA MoreNodes ==
  ASSUME NEW N \in Nat, NEW M \in Nat, N <= M
  PROVE  ENode(N) \subseteq ENode(M)
<1>1. 1 .. N \subseteq 1 .. M
  OBVIOUS
<1>2. Seq(1 .. N) \subseteq Seq(1 .. M)
  BY <1>1
<1> QED BY <1>2 DEF ENode

LEMMA CanonNode ==
  ASSUME NEW g, WellMade(g), NEW n \in ENode(Len(g.root))
  PROVE  /\ Canon(g, n) \in ENode(Len(g.root))
         /\ Canon(g, n).op = n.op /\ Canon(g, n).val = n.val /\ DOMAIN Canon(g, n).kids = DOMAIN n.kids
         /\ \A i \in DOMAIN n.kids : Canon(g, n).kids[i] = g.root[n.kids[i]]
<1>1. PICK N \in Nat : N = Len(g.root)
  BY WellMadeParts
<1>2. PICK c : c = Canon(g, n)
  OBVIOUS
<1>3. n \in [op : Ops, val : DeviceFloats, kids : Seq(1 .. N)] /\ Len(n.kids) = Arity(n.op)
  BY <1>1 DEF ENode
<1>4. c = [n EXCEPT !.kids = [i \in DOMAIN n.kids |-> g.root[n.kids[i]]]]
  BY <1>2 DEF Canon, Find
<1>5. c.op = n.op /\ c.val = n.val /\ c.kids = [i \in DOMAIN n.kids |-> g.root[n.kids[i]]]
  BY <1>3, <1>4
<1>6. c = [op |-> c.op, val |-> c.val, kids |-> c.kids]
  BY <1>3, <1>4
<1>7. DOMAIN n.kids = 1 .. Len(n.kids) /\ Len(n.kids) \in Nat
      /\ \A i \in 1 .. Len(n.kids) : n.kids[i] \in 1 .. N
  BY <1>3
<1>8. \A i \in 1 .. Len(n.kids) : g.root[n.kids[i]] \in 1 .. N
  BY <1>1, <1>7, WellMadeParts
<1>9. c.kids \in Seq(1 .. N) /\ Len(c.kids) = Len(n.kids)
  BY <1>5, <1>7, <1>8
<1>10. c \in ENode(N)
  BY <1>3, <1>5, <1>6, <1>9 DEF ENode
<1> QED BY <1>1, <1>2, <1>5, <1>10

LEMMA CanonComputes ==
  ASSUME NEW g, NEW d, NEW x, Means(g, d, x), NEW n \in ENode(Len(g.root))
  PROVE  Computes(Canon(g, n), d, x) = Computes(n, d, x)
<1>1. PICK N \in Nat : N = Len(g.root)
  BY WellMadeParts DEF Means
<1>2. PICK c : c = Canon(g, n)
  OBVIOUS
<1>3. /\ n \in ENode(N) /\ c.op = n.op /\ c.val = n.val /\ DOMAIN c.kids = DOMAIN n.kids
      /\ \A i \in DOMAIN n.kids : c.kids[i] = g.root[n.kids[i]]
  BY <1>1, <1>2, CanonNode DEF Means
<1>4. DOMAIN n.kids = 1 .. Arity(n.op) /\ \A i \in 1 .. Arity(n.op) : n.kids[i] \in 1 .. N
  BY <1>3, OperandsOf
<1>5. \A i \in DOMAIN n.kids : d[c.kids[i]] = d[n.kids[i]]
  BY <1>1, <1>3, <1>4 DEF Means
<1>6. Computes(c, d, x) = Computes(n, d, x)
  BY <1>3, <1>5, ComputesSame
<1> QED BY <1>2, <1>6

LEMMA ContinuesComputes ==
  ASSUME NEW N \in Nat, NEW n \in ENode(N), NEW d, DOMAIN d = 1 .. N, NEW e, Continues(e, d), NEW x
  PROVE  Computes(n, e, x) = Computes(n, d, x)
<1>1. DOMAIN n.kids = 1 .. Arity(n.op) /\ \A i \in 1 .. Arity(n.op) : n.kids[i] \in 1 .. N
  BY OperandsOf
<1>2. \A i \in DOMAIN n.kids : e[n.kids[i]] = d[n.kids[i]]
  BY <1>1 DEF Continues
<1> QED BY <1>2, ComputesSame

-----------------------------------------------------------------------------
(* Union: two classes that compute the same.                               *)
LEMMA UnionMeans ==
  ASSUME NEW g, NEW d, NEW x, Means(g, d, x),
         NEW a \in 1 .. Len(g.root), NEW b \in 1 .. Len(g.root), d[a] = d[b]
  PROVE  Means(Union(g, a, b), d, x)
<1>1. PICK p, q : p = g.root[a] /\ q = g.root[b]
  OBVIOUS
<1>2. CASE p = q
  BY <1>1, <1>2 DEF Union, Find
<1>3. CASE p # q
  <2>1. PICK N \in Nat : N = Len(g.root)
    BY WellMadeParts DEF Means
  <2>2. /\ WellMade(g) /\ d \in [1 .. N -> DeviceFloats]
        /\ \A i \in 1 .. N : d[g.root[i]] = d[i]
        /\ \A i \in 1 .. N : \A k \in 1 .. Len(g.nodes[i]) : Computes(g.nodes[i][k], d, x) = d[i]
        /\ \A n \in DOMAIN g.memo : Computes(n, d, x) = d[g.memo[n]]
    BY <2>1 DEF Means
  <2>3. /\ g.root \in Seq(Nat) /\ DOMAIN g.root = 1 .. N
        /\ \A i \in 1 .. N : g.root[i] \in 1 .. N /\ g.root[g.root[i]] = g.root[i]
        /\ g.nodes \in Seq(Seq(ENode(N))) /\ Len(g.nodes) = N /\ DOMAIN g.nodes = 1 .. N
        /\ \A i \in 1 .. N : g.nodes[i] \in Seq(ENode(N))
        /\ DOMAIN g.memo \subseteq ENode(N) /\ \A n \in DOMAIN g.memo : g.memo[n] \in 1 .. N
    BY <2>1, <2>2, WellMadeParts
  <2>4. p \in 1 .. N /\ q \in 1 .. N /\ g.root[p] = p /\ g.root[q] = q
    BY <1>1, <2>1, <2>3
  <2>5. d[p] = d[q]
    BY <1>1, <2>1, <2>2
  <2>6. PICK h : h = Union(g, a, b)
    OBVIOUS
  <2>7. /\ h = [root |-> h.root, nodes |-> h.nodes, memo |-> h.memo, merged |-> h.merged]
        /\ h.root = [i \in 1 .. N |-> IF g.root[i] = q THEN p ELSE g.root[i]]
        /\ h.nodes = [i \in 1 .. N |-> IF i = q THEN <<>> ELSE IF i = p THEN g.nodes[p] \o g.nodes[q] ELSE g.nodes[i]]
        /\ h.memo = g.memo
    <3>1. /\ g = [root |-> g.root, nodes |-> g.nodes, memo |-> g.memo, merged |-> g.merged]
          /\ DOMAIN g.root = 1 .. N /\ DOMAIN g.nodes = 1 .. N
      BY <2>1, <2>2, WellMadeParts
    <3>2. PICK R, S : /\ R = [i \in DOMAIN g.root |-> IF g.root[i] = q THEN p ELSE g.root[i]]
                      /\ S = [g.nodes EXCEPT ![p] = g.nodes[p] \o g.nodes[q], ![q] = <<>>]
      OBVIOUS
    <3>3. h = [g EXCEPT !.root = R, !.nodes = S, !.merged = TRUE]
      <4>1. Find(g, a) = p /\ Find(g, b) = q
        BY <1>1 DEF Find
      <4>2. Union(g, a, b) = [g EXCEPT !.root = [i \in DOMAIN g.root |-> IF g.root[i] = q THEN p ELSE g.root[i]],
                                       !.nodes = [g.nodes EXCEPT ![p] = g.nodes[p] \o g.nodes[q], ![q] = <<>>],
                                       !.merged = TRUE]
        BY <1>3, <4>1, Zenon DEF Union
      <4> QED BY <2>6, <3>2, <4>2
    <3>4. h = [root |-> R, nodes |-> S, memo |-> g.memo, merged |-> TRUE]
      BY <3>1, <3>3
    <3>5. R = [i \in 1 .. N |-> IF g.root[i] = q THEN p ELSE g.root[i]]
      BY <3>1, <3>2
    <3>6. S = [i \in 1 .. N |-> IF i = q THEN <<>> ELSE IF i = p THEN g.nodes[p] \o g.nodes[q] ELSE g.nodes[i]]
      BY <3>1, <3>2
    <3>7. h.nodes = S /\ h.root = R /\ h.memo = g.memo
      BY <3>4
    <3>8. h = [root |-> h.root, nodes |-> h.nodes, memo |-> h.memo, merged |-> h.merged]
      BY <3>4
    <3> QED BY <3>5, <3>6, <3>7, <3>8
  <2>8. h.root \in Seq(Nat) /\ Len(h.root) = N
    <3>1. \A i \in 1 .. N : h.root[i] = p \/ h.root[i] = g.root[i]
      BY <2>7
    <3>2. \A i \in 1 .. N : h.root[i] \in Nat
      <4>1. 1 .. N \subseteq Nat
        BY <2>1
      <4>2. p \in Nat /\ \A i \in 1 .. N : g.root[i] \in Nat
        BY <2>3, <2>4, <4>1, Zenon
      <4> QED BY <3>1, <4>2
    <3>3. PICK r : r = h.root
      OBVIOUS
    <3>4. r = [i \in 1 .. N |-> r[i]]
      BY <2>7, <3>3
    <3>5. \A i \in 1 .. N : r[i] \in Nat
      BY <3>2, <3>3
    <3>6. r \in Seq(Nat) /\ Len(r) = N
      <4>1. r \in [1 .. N -> Nat]
        BY <3>4, <3>5
      <4> QED BY <2>1, <4>1, MakesSeq
    <3> QED BY <3>3, <3>6
  <2>9. \A i \in 1 .. N : h.root[i] \in 1 .. N /\ h.root[h.root[i]] = h.root[i] /\ d[h.root[i]] = d[i]
    <3>1. \A i \in 1 .. N : h.root[i] = IF g.root[i] = q THEN p ELSE g.root[i]
      BY <2>7
    <3>2. h.root[p] = p
      BY <1>3, <2>4, <3>1
    <3> TAKE i \in 1 .. N
    <3>3. CASE g.root[i] = q
      <4>1. h.root[i] = p /\ d[p] = d[i]
        BY <2>2, <2>5, <3>1, <3>3
      <4> QED BY <2>4, <3>2, <4>1
    <3>4. CASE g.root[i] # q
      <4>1. PICK j \in 1 .. N : j = g.root[i]
        BY <2>3
      <4>2. h.root[i] = j /\ g.root[j] = j /\ d[j] = d[i]
        BY <2>2, <2>3, <3>1, <3>4, <4>1
      <4>3. h.root[j] = j
        BY <3>1, <3>4, <4>1, <4>2
      <4> QED BY <4>2, <4>3
    <3> QED BY <3>3, <3>4
  <2>10. PICK s : s = g.nodes[p] \o g.nodes[q]
    OBVIOUS
  <2>11. s \in Seq(ENode(N)) /\ \A k \in 1 .. Len(s) : Computes(s[k], d, x) = d[p]
    <3>1. g.nodes[p] \in Seq(ENode(N)) /\ g.nodes[q] \in Seq(ENode(N))
      BY <2>3, <2>4
    <3>2. \A k \in 1 .. Len(g.nodes[p]) : Computes(g.nodes[p][k], d, x) = d[p]
      BY <2>2, <2>4
    <3>3. \A k \in 1 .. Len(g.nodes[q]) : Computes(g.nodes[q][k], d, x) = d[p]
      BY <2>2, <2>4, <2>5
    <3>4. PICK u \in Seq(ENode(N)), v \in Seq(ENode(N)) : u = g.nodes[p] /\ v = g.nodes[q]
      BY <3>1
    <3>5. s = u \o v
      BY <2>10, <3>4
    <3>6. Len(u) \in Nat /\ Len(v) \in Nat /\ Len(s) = Len(u) + Len(v) /\ s \in Seq(ENode(N))
          /\ \A k \in 1 .. Len(s) : s[k] = IF k <= Len(u) THEN u[k] ELSE v[k - Len(u)]
      <4>1. /\ u \o v \in Seq(ENode(N)) /\ Len(u \o v) = Len(u) + Len(v)
            /\ \A k \in 1 .. Len(u) + Len(v) : (u \o v)[k] = IF k <= Len(u) THEN u[k] ELSE v[k - Len(u)]
        BY ConcatProperties
      <4>2. Len(u) \in Nat /\ Len(v) \in Nat
        OBVIOUS
      <4> QED BY <3>5, <4>1, <4>2, Zenon
    <3>7. ASSUME NEW k \in 1 .. Len(s) PROVE Computes(s[k], d, x) = d[p]
      <4>1. CASE k <= Len(u)
        <5>1. k \in 1 .. Len(u)
          BY <3>6, <4>1
        <5>2. s[k] = u[k]
          BY <3>6, <4>1
        <5> QED BY <3>2, <3>4, <5>1, <5>2
      <4>2. CASE ~(k <= Len(u))
        <5>1. k - Len(u) \in 1 .. Len(v)
          BY <3>6, <4>2
        <5> QED BY <3>3, <3>4, <3>6, <4>2, <5>1
      <4> QED BY <4>1, <4>2
    <3> QED BY <3>6, <3>7
  <2>12. \A i \in 1 .. N : h.nodes[i] = IF i = q THEN <<>> ELSE IF i = p THEN s ELSE g.nodes[i]
    BY <2>3, <2>4, <2>7, <2>10
  <2>13. /\ h.nodes \in Seq(Seq(ENode(N))) /\ Len(h.nodes) = N
         /\ \A i \in 1 .. N : \A k \in 1 .. Len(h.nodes[i]) : Computes(h.nodes[i][k], d, x) = d[i]
    <3>1. h.nodes = [i \in 1 .. N |-> h.nodes[i]]
      BY <2>3, <2>7
    <3>2. \A i \in 1 .. N : h.nodes[i] \in Seq(ENode(N))
      <4>1. <<>> \in Seq(ENode(N))
        OBVIOUS
      <4> QED BY <2>3, <2>11, <2>12, <4>1
    <3>3. Len(<<>>) = 0
      OBVIOUS
    <3>4. ASSUME NEW i \in 1 .. N, NEW k \in 1 .. Len(h.nodes[i]) PROVE Computes(h.nodes[i][k], d, x) = d[i]
      <4>1. i # q
        BY <2>12, <3>3, <3>4
      <4>2. CASE i = p
        BY <2>11, <2>12, <4>1, <4>2
      <4>3. CASE i # p
        BY <2>2, <2>12, <4>1, <4>3
      <4> QED BY <4>2, <4>3
    <3>5. h.nodes \in Seq(Seq(ENode(N))) /\ Len(h.nodes) = N
      BY <2>1, <3>1, <3>2
    <3> QED BY <3>4, <3>5
  <2>14. WellMade(h)
    BY <2>3, <2>7, <2>8, <2>9, <2>13 DEF WellMade
  <2>15. Means(h, d, x)
    BY <2>2, <2>7, <2>8, <2>9, <2>13, <2>14 DEF Means
  <2> QED BY <2>6, <2>15
<1> QED BY <1>2, <1>3

-----------------------------------------------------------------------------
(* Interning.                                                              *)

(* add_node: interning a node gives a class that computes just what the    *)
(* node does, for every input, whether the hashcons has the node or a class*)
(* is made for it, and the classes there were compute what they did.       *)
THEOREM InterningKeepsBits ==
  ASSUME NEW x \in DeviceFloats, NEW g, NEW d, Means(g, d, x), NEW n \in ENode(Len(g.root))
  PROVE  \E e : /\ Means(AddNode(g, n).g, e, x) /\ Continues(e, d)
                /\ AddNode(g, n).id \in DOMAIN e /\ e[AddNode(g, n).id] = Computes(n, d, x)
<1>1. PICK N \in Nat : N = Len(g.root)
  BY WellMadeParts DEF Means
<1>2. /\ WellMade(g) /\ d \in [1 .. N -> DeviceFloats]
      /\ \A i \in 1 .. N : d[g.root[i]] = d[i]
      /\ \A i \in 1 .. N : \A k \in 1 .. Len(g.nodes[i]) : Computes(g.nodes[i][k], d, x) = d[i]
      /\ \A m \in DOMAIN g.memo : Computes(m, d, x) = d[g.memo[m]]
  BY <1>1 DEF Means
<1>3. /\ g.root \in Seq(Nat) /\ DOMAIN g.root = 1 .. N
      /\ \A i \in 1 .. N : g.root[i] \in 1 .. N /\ g.root[g.root[i]] = g.root[i]
      /\ g.nodes \in Seq(Seq(ENode(N))) /\ Len(g.nodes) = N /\ DOMAIN g.nodes = 1 .. N
      /\ \A i \in 1 .. N : g.nodes[i] \in Seq(ENode(N))
      /\ DOMAIN g.memo \subseteq ENode(N) /\ \A m \in DOMAIN g.memo : g.memo[m] \in 1 .. N
  BY <1>1, <1>2, WellMadeParts
<1>4. PICK c : c = Canon(g, n)
  OBVIOUS
<1>5. n \in ENode(N) /\ c \in ENode(N)
  BY <1>1, <1>2, <1>4, CanonNode
<1>6. Computes(c, d, x) = Computes(n, d, x)
  BY <1>1, <1>4, CanonComputes
<1>7. PICK w : w = Computes(n, d, x)
  OBVIOUS
<1>8. w \in DeviceFloats
  BY <1>2, <1>5, <1>7, ComputesFloat
<1>9. CASE c \in DOMAIN g.memo
  <2>1. AddNode(g, n) = Added(g, g.root[g.memo[c]])
    BY <1>4, <1>9 DEF AddNode, Find
  <2>2. AddNode(g, n).g = g /\ AddNode(g, n).id = g.root[g.memo[c]]
    BY <2>1 DEF Added
  <2>3. g.memo[c] \in 1 .. N
    BY <1>3, <1>9
  <2>4. g.root[g.memo[c]] \in 1 .. N /\ d[g.root[g.memo[c]]] = w
    BY <1>2, <1>3, <1>6, <1>7, <1>9, <2>3
  <2>5. Continues(d, d) /\ DOMAIN d = 1 .. N
    BY <1>2 DEF Continues
  <2> QED BY <1>7, <2>2, <2>4, <2>5
<1>10. CASE c \notin DOMAIN g.memo
  <2>1. PICK h : h = AddNode(g, n).g
    OBVIOUS
  <2>2. /\ AddNode(g, n).id = N + 1
        /\ h = [root |-> h.root, nodes |-> h.nodes, memo |-> h.memo, merged |-> h.merged]
        /\ h.root = Append(g.root, N + 1) /\ h.nodes = Append(g.nodes, <<c>>)
        /\ DOMAIN h.memo = DOMAIN g.memo \cup {c} /\ h.memo[c] = N + 1
        /\ \A m \in DOMAIN g.memo : h.memo[m] = g.memo[m]
    <3>1. g = [root |-> g.root, nodes |-> g.nodes, memo |-> g.memo, merged |-> g.merged]
      BY <1>2, WellMadeParts
    <3>2. PICK R, S, M : /\ R = Append(g.root, N + 1) /\ S = Append(g.nodes, <<c>>)
                         /\ M = [m \in DOMAIN g.memo \cup {c} |-> IF m = c THEN N + 1 ELSE g.memo[m]]
      OBVIOUS
    <3>3. AddNode(g, n) = Added([g EXCEPT !.root = R, !.nodes = S, !.memo = M], N + 1)
      <4>1. AddNode(g, n) = Added([g EXCEPT !.root = Append(g.root, Len(g.root) + 1),
                                           !.nodes = Append(g.nodes, <<c>>),
                                           !.memo = [m \in DOMAIN g.memo \cup {c} |->
                                                       IF m = c THEN Len(g.root) + 1 ELSE g.memo[m]]],
                                  Len(g.root) + 1)
        BY <1>4, <1>10, Zenon DEF AddNode
      <4> QED BY <1>1, <3>2, <4>1
    <3>4. h = [g EXCEPT !.root = R, !.nodes = S, !.memo = M] /\ AddNode(g, n).id = N + 1
      BY <2>1, <3>3 DEF Added
    <3>5. h = [root |-> R, nodes |-> S, memo |-> M, merged |-> g.merged]
      BY <3>1, <3>4
    <3>6. h.root = R /\ h.nodes = S /\ h.memo = M
      BY <3>5
    <3>7. h = [root |-> h.root, nodes |-> h.nodes, memo |-> h.memo, merged |-> h.merged]
      BY <3>5
    <3>8. DOMAIN M = DOMAIN g.memo \cup {c} /\ M[c] = N + 1
      BY <3>2
    <3>9. \A m \in DOMAIN g.memo : M[m] = g.memo[m]
      BY <1>10, <3>2
    <3> QED BY <3>2, <3>4, <3>6, <3>7, <3>8, <3>9
  <2>3. PICK e : e = [i \in 1 .. N + 1 |-> IF i = N + 1 THEN w ELSE d[i]]
    OBVIOUS
  <2>4. /\ e \in [1 .. N + 1 -> DeviceFloats] /\ DOMAIN e = 1 .. N + 1 /\ e[N + 1] = w
        /\ \A i \in 1 .. N : e[i] = d[i]
    BY <1>2, <1>8, <2>3
  <2>5. Continues(e, d)
    BY <1>2, <2>4 DEF Continues
  <2>6. N + 1 \in Nat /\ 1 .. N \subseteq 1 .. N + 1 /\ N + 1 \in 1 .. N + 1 /\ ENode(N) \subseteq ENode(N + 1)
        /\ \A i \in 1 .. N + 1 : i = N + 1 \/ i \in 1 .. N
    BY MoreNodes
  <2>7. \A m \in ENode(N) : Computes(m, e, x) = Computes(m, d, x)
    BY <1>2, <2>5, ContinuesComputes
  <2>8. /\ h.root \in Seq(Nat) /\ Len(h.root) = N + 1 /\ h.root[N + 1] = N + 1
        /\ \A i \in 1 .. N : h.root[i] = g.root[i]
    BY <1>1, <1>3, <2>2, <2>6
  <2>9. \A i \in 1 .. N + 1 : h.root[i] \in 1 .. N + 1 /\ h.root[h.root[i]] = h.root[i] /\ e[h.root[i]] = e[i]
    <3>1. ASSUME NEW i \in 1 .. N PROVE h.root[i] \in 1 .. N + 1 /\ h.root[h.root[i]] = h.root[i] /\ e[h.root[i]] = e[i]
      <4>1. PICK j \in 1 .. N : j = g.root[i]
        BY <1>3
      <4>2. h.root[i] = j /\ h.root[j] = j /\ e[j] = e[i]
        BY <1>2, <1>3, <2>4, <2>8, <4>1
      <4> QED BY <2>6, <4>1, <4>2
    <3> QED BY <2>6, <2>8, <3>1, Zenon
  <2>10. /\ h.nodes \in Seq(Seq(ENode(N + 1))) /\ Len(h.nodes) = N + 1 /\ h.nodes[N + 1] = <<c>>
         /\ \A i \in 1 .. N : h.nodes[i] = g.nodes[i]
    <3>1. g.nodes \in Seq(Seq(ENode(N + 1)))
      <4>1. Seq(ENode(N)) \subseteq Seq(ENode(N + 1))
        BY <2>6
      <4> QED BY <1>3, <4>1
    <3>2. <<c>> \in Seq(ENode(N + 1))
      BY <1>5, <2>6
    <3> QED BY <1>3, <2>2, <3>1, <3>2
  <2>11. \A i \in 1 .. N + 1 : \A k \in 1 .. Len(h.nodes[i]) : Computes(h.nodes[i][k], e, x) = e[i]
    <3>1. ASSUME NEW i \in 1 .. N, NEW k \in 1 .. Len(h.nodes[i]) PROVE Computes(h.nodes[i][k], e, x) = e[i]
      <4>1. h.nodes[i] = g.nodes[i] /\ g.nodes[i] \in Seq(ENode(N))
        BY <1>3, <2>10
      <4>2. g.nodes[i][k] \in ENode(N) /\ k \in 1 .. Len(g.nodes[i])
        BY <3>1, <4>1
      <4>3. Computes(g.nodes[i][k], d, x) = d[i]
        BY <1>2, <4>2
      <4> QED BY <2>4, <2>7, <4>1, <4>2, <4>3
    <3>2. ASSUME NEW k \in 1 .. Len(<<c>>) PROVE Computes(<<c>>[k], e, x) = w
      <4>1. <<c>>[k] = c
        OBVIOUS
      <4> QED BY <1>5, <1>6, <1>7, <2>7, <4>1
    <3>3. ASSUME NEW k \in 1 .. Len(h.nodes[N + 1]) PROVE Computes(h.nodes[N + 1][k], e, x) = e[N + 1]
      BY <2>4, <2>10, <3>2
    <3> QED BY <2>6, <3>1, <3>3, Zenon
  <2>12. DOMAIN h.memo \subseteq ENode(N + 1)
    BY <1>3, <1>5, <2>2, <2>6
  <2>13. \A m \in DOMAIN h.memo : h.memo[m] \in 1 .. N + 1 /\ Computes(m, e, x) = e[h.memo[m]]
    <3>1. ASSUME NEW m \in DOMAIN g.memo PROVE h.memo[m] \in 1 .. N + 1 /\ Computes(m, e, x) = e[h.memo[m]]
      <4>1. h.memo[m] = g.memo[m] /\ g.memo[m] \in 1 .. N /\ m \in ENode(N)
        BY <1>3, <2>2
      <4>2. Computes(m, d, x) = d[g.memo[m]] /\ Computes(m, e, x) = Computes(m, d, x)
        BY <1>2, <2>7, <4>1
      <4> QED BY <2>4, <2>6, <4>1, <4>2
    <3>2. Computes(c, e, x) = e[h.memo[c]] /\ h.memo[c] \in 1 .. N + 1
      BY <1>5, <1>6, <1>7, <2>2, <2>4, <2>6, <2>7
    <3> QED BY <2>2, <3>1, <3>2
  <2>14. WellMade(h)
    BY <2>2, <2>8, <2>9, <2>10, <2>12, <2>13 DEF WellMade
  <2>15. Means(h, e, x)
    BY <2>4, <2>8, <2>9, <2>11, <2>13, <2>14 DEF Means
  <2> QED BY <1>7, <2>1, <2>2, <2>4, <2>5, <2>6, <2>15
<1> QED BY <1>9, <1>10

-----------------------------------------------------------------------------
(* A set of numbers that is not empty has a least one.                     *)
LEMMA LeastExists ==
  ASSUME NEW S, S \subseteq Nat, S # {}
  PROVE  \E n \in S : \A m \in S : n <= m
<1>1. PICK x \in S : \A y \in S : <<y, x>> \notin OpToRel(<, Nat)
  BY NatLessThanWellFounded, WFMin, Zenon
<1>2. \A y \in S : x <= y
  <2> TAKE y \in S
  <2>1. x \in Nat /\ y \in Nat
    OBVIOUS
  <2>2. ~(y < x)
    BY <1>1, <2>1 DEF OpToRel
  <2> QED BY <2>1, <2>2
<1> QED BY <1>2

LEMMA MeansParts ==
  ASSUME NEW g, NEW d, NEW x, Means(g, d, x)
  PROVE  /\ WellMade(g) /\ Len(g.root) \in Nat /\ DOMAIN d = 1 .. Len(g.root)
         /\ d \in [1 .. Len(g.root) -> DeviceFloats]
         /\ \A i \in 1 .. Len(g.root) : g.root[i] \in 1 .. Len(g.root) /\ d[g.root[i]] = d[i]
BY WellMadeParts DEF Means

LEMMA SameLength ==
  ASSUME NEW g, NEW h, NEW d, NEW x, Means(g, d, x), Means(h, d, x)
  PROVE  Len(h.root) = Len(g.root)
<1>1. PICK M \in Nat, N \in Nat : M = Len(h.root) /\ N = Len(g.root)
  BY MeansParts
<1>2. 1 .. M = 1 .. N
  BY <1>1, MeansParts
<1> QED BY <1>1, <1>2

(* The graph a run begins with has no class that could mean anything.      *)
LEMMA EmptyMeans ==
  ASSUME NEW x
  PROVE  Means(EmptyGraph, <<>>, x)
<1>1. /\ EmptyGraph.root = <<>> /\ EmptyGraph.nodes = <<>> /\ EmptyGraph.memo = <<>>
      /\ EmptyGraph = [root |-> EmptyGraph.root, nodes |-> EmptyGraph.nodes, memo |-> EmptyGraph.memo,
                       merged |-> EmptyGraph.merged]
  BY DEF EmptyGraph
<1>2. Len(<<>>) = 0 /\ DOMAIN <<>> = {} /\ 1 .. 0 = {}
  OBVIOUS
<1>3. <<>> \in Seq(Nat) /\ <<>> \in Seq(Seq(ENode(0))) /\ <<>> \in [{} -> DeviceFloats]
  OBVIOUS
<1>4. WellMade(EmptyGraph)
  BY <1>1, <1>2, <1>3 DEF WellMade
<1> QED BY <1>1, <1>2, <1>3, <1>4 DEF Means

LEMMA KeepsThen ==
  ASSUME NEW h, NEW d, NEW e, NEW x, Continues(e, d), Keeps(h, e, x)
  PROVE  Keeps(h, d, x)
<1>1. PICK f : Means(h, f, x) /\ Continues(f, e)
  BY DEF Keeps
<1>2. Continues(f, d)
  BY <1>1 DEF Continues
<1> QED BY <1>1, <1>2 DEF Keeps

LEMMA MeansKeeps ==
  ASSUME NEW h, NEW d, NEW x, Means(h, d, x)
  PROVE  Keeps(h, d, x)
BY DEF Keeps, Continues

-----------------------------------------------------------------------------
(* What the rules look for: a node, or a constant, of a class.             *)
LEMMA HavingIs ==
  ASSUME NEW g, NEW d, NEW x, Means(g, d, x), NEW a \in 1 .. Len(g.root),
         NEW ops, Having(g, a, ops) # <<>>
  PROVE  \E n \in ENode(Len(g.root)) :
           Having(g, a, ops) = <<n>> /\ n.op \in ops /\ Computes(n, d, x) = d[a]
<1>1. PICK p \in 1 .. Len(g.root) : p = g.root[a] /\ d[p] = d[a]
  BY MeansParts
<1>2. PICK s : s = g.nodes[p]
  OBVIOUS
<1>3. s \in Seq(ENode(Len(g.root)))
  BY <1>1, <1>2, MeansParts, WellMadeParts
<1>4. \A k \in 1 .. Len(s) : Computes(s[k], d, x) = d[a]
  BY <1>1, <1>2 DEF Means
<1>5. PICK F : F = {i \in DOMAIN s : s[i].op \in ops}
  OBVIOUS
<1>6. Having(g, a, ops) = IF F = {} THEN <<>> ELSE <<s[CHOOSE i \in F : \A j \in F : i <= j]>>
  BY <1>1, <1>2, <1>5 DEF Having, ClassNodes, Find
<1>7. F # {} /\ F \subseteq Nat
  BY <1>3, <1>5, <1>6
<1>8. PICK k : k = CHOOSE i \in F : \A j \in F : i <= j
  OBVIOUS
<1>9. k \in F
  BY <1>7, <1>8, LeastExists, Zenon
<1>10. k \in 1 .. Len(s) /\ s[k].op \in ops /\ s[k] \in ENode(Len(g.root))
  BY <1>3, <1>5, <1>9
<1>11. Having(g, a, ops) = <<s[k]>>
  BY <1>6, <1>7, <1>8, Zenon
<1> QED BY <1>4, <1>10, <1>11

LEMMA ClassConstIs ==
  ASSUME NEW g, NEW d, NEW x, Means(g, d, x), NEW a \in 1 .. Len(g.root), ClassConst(g, a) # <<>>
  PROVE  \E v \in DeviceFloats :
           ClassConst(g, a) = <<v>> /\ d[a] = IF IsNaN(v) THEN LiteralNaN ELSE v
<1>1. Having(g, a, {"Const"}) # <<>> /\ ClassConst(g, a) = <<Having(g, a, {"Const"})[1].val>>
  BY DEF ClassConst
<1>2. PICK n \in ENode(Len(g.root)) :
        Having(g, a, {"Const"}) = <<n>> /\ n.op \in {"Const"} /\ Computes(n, d, x) = d[a]
  BY <1>1, HavingIs
<1>3. ClassConst(g, a) = <<n.val>>
  BY <1>1, <1>2
<1>4. n.val \in DeviceFloats
  BY MeansParts, OperandsOf
<1>5. Computes(n, d, x) = IF IsNaN(n.val) THEN LiteralNaN ELSE n.val
  BY <1>2, <1>4, RoundedSame DEF Computes, Computed
<1> QED BY <1>2, <1>3, <1>4, <1>5

-----------------------------------------------------------------------------
(* The ways a rule adds to the graph.                                      *)
LEMMA JoinedKeeps ==
  ASSUME NEW x \in DeviceFloats, NEW g, NEW d, Means(g, d, x), NEW nid \in 1 .. Len(g.root),
         NEW m \in ENode(Len(g.root)), Computes(m, d, x) = d[nid]
  PROVE  Keeps(Joined(AddNode(g, m), nid), d, x)
<1>1. PICK h, id : h = AddNode(g, m).g /\ id = AddNode(g, m).id
  OBVIOUS
<1>2. PICK e : Means(h, e, x) /\ Continues(e, d) /\ id \in DOMAIN e /\ e[id] = Computes(m, d, x)
  BY <1>1, InterningKeepsBits
<1>3. DOMAIN e = 1 .. Len(h.root) /\ DOMAIN d = 1 .. Len(g.root)
  BY <1>2, MeansParts
<1>4. nid \in 1 .. Len(h.root) /\ id \in 1 .. Len(h.root) /\ e[nid] = e[id]
  BY <1>2, <1>3 DEF Continues
<1>5. Means(Union(h, nid, id), e, x)
  BY <1>2, <1>4, UnionMeans
<1>6. Joined(AddNode(g, m), nid) = Union(h, nid, id)
  BY <1>1 DEF Joined
<1> QED BY <1>2, <1>5, <1>6 DEF Keeps

LEMMA NeutralMeans ==
  ASSUME NEW g, NEW d, NEW x, Means(g, d, x), NEW nid \in 1 .. Len(g.root),
         NEW keep \in 1 .. Len(g.root), NEW other \in 1 .. Len(g.root),
         NEW v \in DeviceFloats, ~IsNaN(v), d[other] = v => d[nid] = d[keep]
  PROVE  Means(Neutral(g, nid, keep, other, v), d, x)
<1>1. CASE ~IsBits(g, other, v)
  BY <1>1 DEF Neutral
<1>2. CASE IsBits(g, other, v)
  <2>1. ClassConst(g, other) = <<v>>
    BY <1>2 DEF IsBits
  <2>2. PICK w \in DeviceFloats : ClassConst(g, other) = <<w>> /\ d[other] = IF IsNaN(w) THEN LiteralNaN ELSE w
    BY <2>1, ClassConstIs
  <2>3. w = v
    BY <2>1, <2>2
  <2>4. d[nid] = d[keep]
    BY <2>2, <2>3
  <2>5. Means(Union(g, nid, keep), d, x)
    BY <2>4, UnionMeans
  <2> QED BY <1>2, <2>5 DEF Neutral
<1> QED BY <1>1, <1>2

-----------------------------------------------------------------------------
LEMMA ComputesUnary ==
  ASSUME NEW N \in Nat, NEW n \in ENode(N), Arity(n.op) = 1, NEW d, NEW x
  PROVE  /\ n.kids[1] \in 1 .. N
         /\ n.op = "Neg" => Computes(n, d, x) = NegF(d[n.kids[1]])
         /\ n.op = "Abs" => Computes(n, d, x) = AbsF(d[n.kids[1]])
         /\ n.op = "Relu" => Computes(n, d, x) = ReluF(d[n.kids[1]])
<1> DEFINE v == [i \in DOMAIN n.kids |-> d[n.kids[i]]]
<1>1. DOMAIN n.kids = 1 .. Arity(n.op) /\ \A i \in 1 .. Arity(n.op) : n.kids[i] \in 1 .. N
  BY OperandsOf
<1>2. n.kids[1] \in 1 .. N /\ v[1] = d[n.kids[1]]
  BY <1>1
<1> HIDE DEF v
<1>3. Computes(n, d, x) = Computed(n.op, n.val, v, x)
  BY DEF Computes, v
<1> QED BY <1>2, <1>3 DEF Computed

LEMMA ComputesBinary ==
  ASSUME NEW N \in Nat, NEW n \in ENode(N), Arity(n.op) = 2, NEW d, NEW x
  PROVE  /\ n.kids[1] \in 1 .. N /\ n.kids[2] \in 1 .. N
         /\ n.op = "Add" => Computes(n, d, x) = AddAt(d[n.kids[1]], d[n.kids[2]], AtDevice)
         /\ n.op = "Sub" => Computes(n, d, x) = SubAt(d[n.kids[1]], d[n.kids[2]], AtDevice)
         /\ n.op = "Mul" => Computes(n, d, x) = MulAt(d[n.kids[1]], d[n.kids[2]], AtDevice)
         /\ n.op = "Div" => Computes(n, d, x) = DivAt(d[n.kids[1]], d[n.kids[2]], AtDevice)
         /\ n.op = "Max" => Computes(n, d, x) = MaxF(d[n.kids[1]], d[n.kids[2]])
<1> DEFINE v == [i \in DOMAIN n.kids |-> d[n.kids[i]]]
<1>1. DOMAIN n.kids = 1 .. Arity(n.op) /\ \A i \in 1 .. Arity(n.op) : n.kids[i] \in 1 .. N
  BY OperandsOf
<1>2. n.kids[1] \in 1 .. N /\ n.kids[2] \in 1 .. N /\ v[1] = d[n.kids[1]] /\ v[2] = d[n.kids[2]]
  BY <1>1
<1> HIDE DEF v
<1>3. Computes(n, d, x) = Computed(n.op, n.val, v, x)
  BY DEF Computes, v
<1> QED BY <1>2, <1>3 DEF Computed

(* The nodes the rules make.                                               *)
LEMMA MadeConst ==
  ASSUME NEW N \in Nat, NEW v \in DeviceFloats, NEW d, NEW x
  PROVE  Const(v) \in ENode(N) /\ Computes(Const(v), d, x) = IF IsNaN(v) THEN LiteralNaN ELSE v
<1>1. <<>> \in Seq(1 .. N) /\ Len(<<>>) = 0
  OBVIOUS
<1>2. Const(v) \in ENode(N)
  BY <1>1 DEF Const, Node, ENode, Arity, Ops
<1>3. Const(v).op = "Const" /\ Const(v).val = v
  BY DEF Const, Node
<1> QED BY <1>2, <1>3, RoundedSame DEF Computes, Computed

LEMMA MadeUnary ==
  ASSUME NEW N \in Nat, NEW op \in {"Neg", "Abs", "Relu", "Sqr"}, NEW k \in 1 .. N
  PROVE  Unary(op, k) \in ENode(N) /\ Unary(op, k).op = op /\ Unary(op, k).kids[1] = k
<1>1. <<k>> \in Seq(1 .. N) /\ Len(<<k>>) = 1
  OBVIOUS
<1>2. NoVal \in DeviceFloats
  BY SpecialFloats DEF NoVal, Zero
<1> QED BY <1>1, <1>2 DEF Unary, Node, ENode, Arity, Ops

LEMMA MadeMul ==
  ASSUME NEW N \in Nat, NEW j \in 1 .. N, NEW k \in 1 .. N
  PROVE  /\ Binary("Mul", j, k) \in ENode(N) /\ Binary("Mul", j, k).op = "Mul"
         /\ Binary("Mul", j, k).kids[1] = j /\ Binary("Mul", j, k).kids[2] = k
<1>1. <<j, k>> \in Seq(1 .. N) /\ Len(<<j, k>>) = 2
  OBVIOUS
<1>2. NoVal \in DeviceFloats
  BY SpecialFloats DEF NoVal, Zero
<1> QED BY <1>1, <1>2 DEF Binary, Node, ENode, Arity, Ops

-----------------------------------------------------------------------------
(* Each rule, for a node n of the class nid.                               *)
LEMMA InvolutionMeans ==
  ASSUME NEW x \in DeviceFloats, NEW g, NEW d, Means(g, d, x), NEW nid \in 1 .. Len(g.root),
         NEW n \in ENode(Len(g.root)), d[nid] = Computes(n, d, x), n.op = "Neg"
  PROVE  Means(InvolutionRule(g, nid, n), d, x)
<1>1. PICK N \in Nat : N = Len(g.root)
  BY MeansParts
<1>2. n \in ENode(N) /\ Arity(n.op) = 1
  BY <1>1 DEF Arity
<1>3. PICK a \in 1 .. N : a = n.kids[1] /\ d[nid] = NegF(d[a])
  BY <1>2, ComputesUnary
<1>4. CASE Having(g, a, {"Neg"}) = <<>>
  BY <1>3, <1>4 DEF InvolutionRule
<1>5. CASE Having(g, a, {"Neg"}) # <<>>
  <2>1. PICK m \in ENode(N) : Having(g, a, {"Neg"}) = <<m>> /\ m.op \in {"Neg"} /\ Computes(m, d, x) = d[a]
    BY <1>1, <1>5, HavingIs
  <2>2. Arity(m.op) = 1
    BY <2>1 DEF Arity
  <2>3. PICK b \in 1 .. N : b = m.kids[1] /\ d[a] = NegF(d[b])
    BY <2>1, <2>2, ComputesUnary
  <2>4. d[b] \in DeviceFloats
    BY <1>1, MeansParts
  <2>5. d[nid] = d[b]
    BY <1>3, <2>3, <2>4, NegTwice
  <2>6. Means(Union(g, nid, b), d, x)
    BY <1>1, <2>5, UnionMeans
  <2>7. InvolutionRule(g, nid, n) = Union(g, nid, b)
    BY <1>3, <1>5, <2>1, <2>3 DEF InvolutionRule
  <2> QED BY <2>6, <2>7
<1> QED BY <1>4, <1>5

LEMMA AbsorbKeeps ==
  ASSUME NEW x \in DeviceFloats, NEW g, NEW d, Means(g, d, x), NEW nid \in 1 .. Len(g.root),
         NEW n \in ENode(Len(g.root)), d[nid] = Computes(n, d, x), n.op \in {"Abs", "Relu"}
  PROVE  Keeps(AbsorbRule(g, nid, n), d, x)
<1>1. PICK N \in Nat : N = Len(g.root)
  BY MeansParts
<1>2. n \in ENode(N) /\ Arity(n.op) = 1
  BY <1>1 DEF Arity
<1>3. PICK a \in 1 .. N : /\ a = n.kids[1]
                          /\ n.op = "Abs" => d[nid] = AbsF(d[a])
                          /\ n.op = "Relu" => d[nid] = ReluF(d[a])
  BY <1>2, ComputesUnary
<1>4. CASE Having(g, a, AbsorbedBy(n.op)) = <<>>
  BY <1>3, <1>4, MeansKeeps DEF AbsorbRule
<1>5. CASE Having(g, a, AbsorbedBy(n.op)) # <<>>
  <2>1. PICK m \in ENode(N) :
          Having(g, a, AbsorbedBy(n.op)) = <<m>> /\ m.op \in AbsorbedBy(n.op) /\ Computes(m, d, x) = d[a]
    BY <1>1, <1>5, HavingIs
  <2>2. \/ n.op = "Abs" /\ m.op = "Abs"
        \/ n.op = "Abs" /\ m.op = "Neg"
        \/ n.op = "Relu" /\ m.op = "Relu"
    BY <2>1 DEF AbsorbedBy
  <2>3. Arity(m.op) = 1
    BY <2>2 DEF Arity
  <2>4. PICK b \in 1 .. N : /\ b = m.kids[1]
                            /\ m.op = "Neg" => d[a] = NegF(d[b])
                            /\ m.op = "Abs" => d[a] = AbsF(d[b])
                            /\ m.op = "Relu" => d[a] = ReluF(d[b])
    BY <2>1, <2>3, ComputesUnary
  <2>5. d[b] \in DeviceFloats
    BY <1>1, MeansParts
  <2>6. (n.op = "Abs" /\ d[nid] = AbsF(d[b])) \/ (n.op = "Relu" /\ d[nid] = ReluF(d[b]))
    <3>1. CASE n.op = "Abs" /\ m.op = "Abs"
      <4>1. AbsF(AbsF(d[b])) = AbsF(d[b])
        BY <2>5, NegTwice
      <4> QED BY <1>3, <2>4, <3>1, <4>1
    <3>2. CASE n.op = "Abs" /\ m.op = "Neg"
      <4>1. AbsF(NegF(d[b])) = AbsF(d[b])
        BY <2>5, NegTwice
      <4> QED BY <1>3, <2>4, <3>2, <4>1
    <3>3. CASE n.op = "Relu" /\ m.op = "Relu"
      <4>1. ReluF(ReluF(d[b])) = ReluF(d[b])
        BY <2>5, ReluTwice
      <4> QED BY <1>3, <2>4, <3>3, <4>1
    <3> QED BY <2>2, <3>1, <3>2, <3>3
  <2>7. PICK u : u = Unary(n.op, b)
    OBVIOUS
  <2>8. u \in ENode(N) /\ u.op = n.op /\ u.kids[1] = b
    BY <2>6, <2>7, MadeUnary
  <2>9. Computes(u, d, x) = d[nid]
    <3>1. Arity(u.op) = 1
      BY <1>2, <2>8
    <3>2. (u.op = "Abs" => Computes(u, d, x) = AbsF(d[b])) /\ (u.op = "Relu" => Computes(u, d, x) = ReluF(d[b]))
      BY <2>8, <3>1, ComputesUnary
    <3> QED BY <2>6, <2>8, <3>2
  <2>10. Keeps(Joined(AddNode(g, u), nid), d, x)
    BY <1>1, <2>8, <2>9, JoinedKeeps
  <2>11. AbsorbRule(g, nid, n) = Joined(AddNode(g, u), nid)
    BY <1>3, <1>5, <2>1, <2>4, <2>7 DEF AbsorbRule
  <2> QED BY <2>10, <2>11
<1> QED BY <1>4, <1>5

LEMMA IdempotentMeans ==
  ASSUME NEW x \in DeviceFloats, NEW g, NEW d, Means(g, d, x), NEW nid \in 1 .. Len(g.root),
         NEW n \in ENode(Len(g.root)), d[nid] = Computes(n, d, x), n.op = "Max"
  PROVE  Means(IdempotentRule(g, nid, n), d, x)
<1>1. PICK N \in Nat : N = Len(g.root)
  BY MeansParts
<1>2. n \in ENode(N) /\ Arity(n.op) = 2
  BY <1>1 DEF Arity
<1>3. n.kids[1] \in 1 .. N /\ n.kids[2] \in 1 .. N /\ d[nid] = MaxF(d[n.kids[1]], d[n.kids[2]])
  BY <1>2, ComputesBinary
<1>4. CASE g.root[n.kids[1]] # g.root[n.kids[2]]
  BY <1>4 DEF IdempotentRule, Find
<1>5. CASE g.root[n.kids[1]] = g.root[n.kids[2]]
  <2>1. d[n.kids[1]] = d[n.kids[2]]
    <3>1. \A i \in 1 .. N : d[g.root[i]] = d[i]
      BY <1>1, MeansParts
    <3>2. d[g.root[n.kids[1]]] = d[n.kids[1]] /\ d[g.root[n.kids[2]]] = d[n.kids[2]]
      BY <1>3, <3>1
    <3> QED BY <1>5, <3>2
  <2>2. d[nid] = d[n.kids[1]]
    BY <1>3, <2>1, MaxSame
  <2>3. Means(Union(g, nid, n.kids[1]), d, x)
    BY <1>1, <1>3, <2>2, UnionMeans
  <2> QED BY <1>5, <2>3 DEF IdempotentRule, Find
<1> QED BY <1>4, <1>5

LEMMA ReciprocalKeeps ==
  ASSUME NEW x \in DeviceFloats, NEW g, NEW d, Means(g, d, x), NEW nid \in 1 .. Len(g.root),
         NEW n \in ENode(Len(g.root)), d[nid] = Computes(n, d, x), n.op = "Div"
  PROVE  Keeps(ReciprocalRule(g, nid, n), d, x)
<1>1. PICK N \in Nat : N = Len(g.root)
  BY MeansParts
<1>2. n \in ENode(N) /\ Arity(n.op) = 2
  BY <1>1 DEF Arity
<1>3. PICK a \in 1 .. N, b \in 1 .. N : a = n.kids[1] /\ b = n.kids[2] /\ d[nid] = DivAt(d[a], d[b], AtDevice)
  BY <1>2, ComputesBinary
<1>4. CASE ClassConst(g, b) = <<>>
  BY <1>3, <1>4, MeansKeeps DEF ReciprocalRule
<1>5. CASE ClassConst(g, b) # <<>>
  <2>1. PICK v \in DeviceFloats : ClassConst(g, b) = <<v>> /\ d[b] = IF IsNaN(v) THEN LiteralNaN ELSE v
    BY <1>1, <1>5, ClassConstIs
  <2>2. CASE Reciprocal(v) = <<>>
    BY <1>3, <2>1, <2>2, MeansKeeps DEF ReciprocalRule
  <2>3. CASE Reciprocal(v) # <<>>
    <3>1. PICK r \in DeviceFloats :
            /\ Reciprocal(v) = <<r>> /\ ~IsNaN(v) /\ ~IsNaN(r)
            /\ \A y \in DeviceFloats : DivAt(y, v, AtDevice) = MulAt(y, r, AtDevice)
      BY <2>3, ReciprocalIs
    <3>2. d[a] \in DeviceFloats /\ DOMAIN d = 1 .. N
      BY <1>1, MeansParts
    <3>3. d[nid] = MulAt(d[a], r, AtDevice)
      BY <1>3, <2>1, <3>1, <3>2
    <3>4. Const(r) \in ENode(N) /\ Computes(Const(r), d, x) = r
      BY <3>1, MadeConst
    <3>5. PICK h, id : h = AddNode(g, Const(r)).g /\ id = AddNode(g, Const(r)).id
      OBVIOUS
    <3>6. PICK e : Means(h, e, x) /\ Continues(e, d) /\ id \in DOMAIN e /\ e[id] = r
      BY <1>1, <3>4, <3>5, InterningKeepsBits
    <3>7. PICK M \in Nat : M = Len(h.root) /\ DOMAIN e = 1 .. M
      BY <3>6, MeansParts
    <3>8. nid \in 1 .. M /\ a \in 1 .. M /\ id \in 1 .. M /\ e[nid] = d[nid] /\ e[a] = d[a]
      BY <1>1, <3>2, <3>6, <3>7 DEF Continues
    <3>9. PICK m : m = Binary("Mul", a, id)
      OBVIOUS
    <3>10. m \in ENode(M) /\ m.op = "Mul" /\ m.kids[1] = a /\ m.kids[2] = id
      BY <3>8, <3>9, MadeMul
    <3>11. Computes(m, e, x) = e[nid]
      <4>1. Arity(m.op) = 2
        BY <3>10 DEF Arity
      <4>2. Computes(m, e, x) = MulAt(e[a], e[id], AtDevice)
        BY <3>10, <4>1, ComputesBinary
      <4> QED BY <3>3, <3>6, <3>8, <4>2
    <3>12. Keeps(Joined(AddNode(h, m), nid), e, x)
      BY <3>6, <3>7, <3>8, <3>10, <3>11, JoinedKeeps
    <3>13. Keeps(Joined(AddNode(h, m), nid), d, x)
      BY <3>6, <3>12, KeepsThen
    <3>14. ReciprocalRule(g, nid, n) = Joined(AddNode(h, m), nid)
      <4>1. ClassConst(g, n.kids[2]) = <<v>> /\ <<v>> # <<>> /\ <<v>>[1] = v /\ <<r>> # <<>> /\ <<r>>[1] = r
        BY <1>3, <2>1
      <4>2. ReciprocalRule(g, nid, n) = Joined(AddNode(AddNode(g, Const(r)).g,
                                                       Binary("Mul", n.kids[1], AddNode(g, Const(r)).id)), nid)
        BY <3>1, <4>1, Zenon DEF ReciprocalRule
      <4> QED BY <1>3, <3>5, <3>9, <4>2
    <3> QED BY <3>13, <3>14
  <2> QED BY <2>2, <2>3
<1> QED BY <1>4, <1>5

-----------------------------------------------------------------------------
LEMMA IdentityKeeps ==
  ASSUME NEW x \in DeviceFloats, NEW g, NEW d, Means(g, d, x), NEW nid \in 1 .. Len(g.root),
         NEW n \in ENode(Len(g.root)), d[nid] = Computes(n, d, x)
  PROVE  Keeps(IdentityRules(g, nid, n), d, x)
<1>1. PICK N \in Nat : N = Len(g.root)
  BY MeansParts
<1>2. n \in ENode(N) /\ n.op \in Ops /\ \A i \in 1 .. N : d[i] \in DeviceFloats
  BY <1>1, MeansParts, OperandsOf
<1>3. CASE n.op \in {"Add", "Sub", "Mul", "Div"}
  <2>1. Arity(n.op) = 2
    BY <1>3 DEF Arity
  <2>2. PICK a \in 1 .. N, b \in 1 .. N :
          /\ a = n.kids[1] /\ b = n.kids[2]
          /\ n.op = "Add" => d[nid] = AddAt(d[a], d[b], AtDevice)
          /\ n.op = "Sub" => d[nid] = SubAt(d[a], d[b], AtDevice)
          /\ n.op = "Mul" => d[nid] = MulAt(d[a], d[b], AtDevice)
          /\ n.op = "Div" => d[nid] = DivAt(d[a], d[b], AtDevice)
    BY <1>2, <2>1, ComputesBinary
  <2>3. d[a] \in DeviceFloats /\ d[b] \in DeviceFloats
    BY <1>2
  <2>4. /\ Zero \in DeviceFloats /\ NegZero \in DeviceFloats /\ One \in DeviceFloats
        /\ ~IsNaN(Zero) /\ ~IsNaN(NegZero) /\ ~IsNaN(One)
    BY SpecialFloats
  <2>5. CASE n.op = "Add"
    <3>1. (d[b] = NegZero => d[nid] = d[a]) /\ (d[a] = NegZero => d[nid] = d[b])
      BY <2>2, <2>3, <2>5, AddNegZero
    <3>2. PICK h : h = Neutral(g, nid, a, b, NegZero)
      OBVIOUS
    <3>3. Means(h, d, x)
      BY <1>1, <2>4, <3>1, <3>2, NeutralMeans
    <3>4. Len(h.root) = N
      BY <1>1, <3>3, SameLength
    <3>5. Means(Neutral(h, nid, b, a, NegZero), d, x)
      BY <1>1, <2>4, <3>1, <3>3, <3>4, NeutralMeans
    <3>6. IdentityRules(g, nid, n) = Neutral(h, nid, b, a, NegZero)
      BY <2>2, <2>5, <3>2 DEF IdentityRules
    <3> QED BY <3>5, <3>6, MeansKeeps
  <2>6. CASE n.op = "Sub"
    <3>1. d[b] = Zero => d[nid] = d[a]
      BY <2>2, <2>3, <2>6, SubZero
    <3>2. Means(Neutral(g, nid, a, b, Zero), d, x)
      BY <1>1, <2>4, <3>1, NeutralMeans
    <3>3. IdentityRules(g, nid, n) = Neutral(g, nid, a, b, Zero)
      BY <2>2, <2>6 DEF IdentityRules
    <3> QED BY <3>2, <3>3, MeansKeeps
  <2>7. CASE n.op = "Mul"
    <3>1. (d[b] = One => d[nid] = d[a]) /\ (d[a] = One => d[nid] = d[b])
      BY <2>2, <2>3, <2>7, MulOne
    <3>2. PICK h : h = Neutral(g, nid, a, b, One)
      OBVIOUS
    <3>3. Means(h, d, x)
      BY <1>1, <2>4, <3>1, <3>2, NeutralMeans
    <3>4. Len(h.root) = N
      BY <1>1, <3>3, SameLength
    <3>5. Means(Neutral(h, nid, b, a, One), d, x)
      BY <1>1, <2>4, <3>1, <3>3, <3>4, NeutralMeans
    <3>6. IdentityRules(g, nid, n) = Neutral(h, nid, b, a, One)
      BY <2>2, <2>7, <3>2 DEF IdentityRules
    <3> QED BY <3>5, <3>6, MeansKeeps
  <2>8. CASE n.op = "Div"
    <3>1. d[b] = One => d[nid] = d[a]
      BY <2>2, <2>3, <2>8, MulOne
    <3>2. PICK h : h = Neutral(g, nid, a, b, One)
      OBVIOUS
    <3>3. Means(h, d, x)
      BY <1>1, <2>4, <3>1, <3>2, NeutralMeans
    <3>4. Len(h.root) = N
      BY <1>1, <3>3, SameLength
    <3>5. nid \in 1 .. Len(h.root) /\ n \in ENode(Len(h.root))
      BY <1>1, <1>2, <3>4
    <3>6. Keeps(ReciprocalRule(h, nid, n), d, x)
      BY <2>8, <3>3, <3>5, ReciprocalKeeps
    <3>7. IdentityRules(g, nid, n) = ReciprocalRule(h, nid, n)
      BY <2>2, <2>8, <3>2 DEF IdentityRules
    <3> QED BY <3>6, <3>7
  <2> QED BY <1>3, <2>5, <2>6, <2>7, <2>8
<1>4. CASE n.op = "Max"
  <2>1. Means(IdempotentRule(g, nid, n), d, x)
    BY <1>4, IdempotentMeans
  <2>2. IdentityRules(g, nid, n) = IdempotentRule(g, nid, n)
    BY <1>4 DEF IdentityRules
  <2> QED BY <2>1, <2>2, MeansKeeps
<1>5. CASE n.op = "Neg"
  <2>1. Means(InvolutionRule(g, nid, n), d, x)
    BY <1>5, InvolutionMeans
  <2>2. IdentityRules(g, nid, n) = InvolutionRule(g, nid, n)
    BY <1>5 DEF IdentityRules
  <2> QED BY <2>1, <2>2, MeansKeeps
<1>6. CASE n.op \in {"Abs", "Relu"}
  <2>1. Keeps(AbsorbRule(g, nid, n), d, x)
    BY <1>6, AbsorbKeeps
  <2>2. IdentityRules(g, nid, n) = AbsorbRule(g, nid, n)
    BY <1>6 DEF IdentityRules
  <2> QED BY <2>1, <2>2
<1>7. CASE n.op \in {"Input", "Const", "Sqr", "Select"}
  <2>1. IdentityRules(g, nid, n) = g
    BY <1>7 DEF IdentityRules
  <2> QED BY <2>1, MeansKeeps
<1> QED BY <1>2, <1>3, <1>4, <1>5, <1>6, <1>7 DEF Ops

-----------------------------------------------------------------------------
(* A fold's result is what the operation computes.                         *)
LEMMA FoldsAtDevice ==
  ASSUME NEW x, NEW y
  PROVE  /\ AddAt(x, y, FoldAt) = AddAt(x, y, AtDevice) /\ SubAt(x, y, FoldAt) = SubAt(x, y, AtDevice)
         /\ MulAt(x, y, FoldAt) = MulAt(x, y, AtDevice) /\ DivAt(x, y, FoldAt) = DivAt(x, y, AtDevice)
         /\ SqrAt(x, FoldAt) = SqrAt(x, AtDevice)
<1>1. \A u, v : AddAt(u, v, FoldAt) = AddAt(u, v, AtDevice)
  BY DEF AddAt, SumAt, FoldAt
<1>2. \A u, v : MulAt(u, v, FoldAt) = MulAt(u, v, AtDevice)
  BY DEF MulAt, FoldAt
<1>3. SubAt(x, y, FoldAt) = SubAt(x, y, AtDevice)
  BY <1>1 DEF SubAt
<1>4. DivAt(x, y, FoldAt) = DivAt(x, y, AtDevice)
  BY DEF DivAt, FoldAt
<1>5. SqrAt(x, FoldAt) = SqrAt(x, AtDevice)
  BY <1>2 DEF SqrAt
<1> QED BY <1>1, <1>2, <1>3, <1>4, <1>5

LEMMA HostMaxIs ==
  ASSUME NEW x \in DeviceFloats, NEW y \in DeviceFloats, ~IsNaN(x), ~(IsZero(x) /\ IsZero(y) /\ x # y)
  PROVE  HostMax(x, y) = MaxF(x, y)
<1>1. CASE ~(IsZero(x) /\ IsZero(y))
  BY <1>1 DEF HostMax
<1>2. CASE IsZero(x) /\ IsZero(y)
  <2>1. x = y /\ x[1] \in {0, 1} /\ x = <<x[1], 0>>
    BY <1>2, FloatIs DEF IsZero
  <2>2. x[1] * y[1] = x[1]
    BY <2>1
  <2>3. HostMax(x, y) = x
    BY <1>2, <2>1, <2>2 DEF HostMax
  <2> QED BY <2>1, <2>3, MaxSame
<1> QED BY <1>1, <1>2

LEMMA FoldedIs ==
  ASSUME NEW op \in Ops, Arity(op) # 0, NEW v, DOMAIN v = 1 .. Arity(op),
         \A i \in 1 .. Arity(op) : v[i] \in DeviceFloats /\ ~IsNaN(v[i]),
         Folded(op, v) # <<>>, ~Unclear(op, v)
  PROVE  \E r \in DeviceFloats :
           Folded(op, v) = <<r>> /\ ~IsNaN(r) /\ \A val, x : Computed(op, val, v, x) = r
<1>1. PICK r : r = Computed(op, NoVal, v, Zero)
  OBVIOUS
<1>2. r \in DeviceFloats
  <2>1. NoVal \in DeviceFloats /\ Zero \in DeviceFloats
    BY SpecialFloats DEF NoVal, Zero
  <2> QED BY <1>1, <2>1, ComputedFloat
<1>3. ~IsNaN(r)
  BY <1>1 DEF Unclear
<1>4. op \notin {"Input", "Const"}
  BY DEF Arity
<1>5. \A val, x : Computed(op, val, v, x) = r
  BY <1>1, <1>4 DEF Computed, Ops
<1>6. ~\E i \in DOMAIN v : IsNaN(v[i])
  OBVIOUS
<1>7. op # "Select"
  BY <1>6 DEF Folded
<1>8. CASE op \in {"Neg", "Abs", "Relu", "Sqr"}
  <2>1. SqrAt(v[1], FoldAt) = SqrAt(v[1], AtDevice)
    BY FoldsAtDevice
  <2>2. Folded(op, v) = <<r>>
    BY <1>1, <1>6, <1>8, <2>1 DEF Folded, Computed
  <2> QED BY <1>2, <1>3, <1>5, <2>2
<1>9. CASE op \in {"Add", "Sub", "Mul"}
  <2>1. /\ AddAt(v[1], v[2], FoldAt) = AddAt(v[1], v[2], AtDevice)
        /\ SubAt(v[1], v[2], FoldAt) = SubAt(v[1], v[2], AtDevice)
        /\ MulAt(v[1], v[2], FoldAt) = MulAt(v[1], v[2], AtDevice)
    BY FoldsAtDevice
  <2>2. Folded(op, v) = <<r>>
    BY <1>1, <1>6, <1>9, <2>1 DEF Folded, Computed
  <2> QED BY <1>2, <1>3, <1>5, <2>2
<1>10. CASE op = "Div"
  <2>1. DivAt(v[1], v[2], FoldAt) = DivAt(v[1], v[2], AtDevice)
    BY FoldsAtDevice
  <2>2. ~IsZero(v[2])
    BY <1>6, <1>10 DEF Folded
  <2>3. Folded(op, v) = <<r>>
    BY <1>1, <1>6, <1>10, <2>1, <2>2 DEF Folded, Computed
  <2> QED BY <1>2, <1>3, <1>5, <2>3
<1>11. CASE op = "Max"
  <2>1. v[1] \in DeviceFloats /\ v[2] \in DeviceFloats /\ ~IsNaN(v[1])
    BY <1>11 DEF Arity
  <2>2. ~(IsZero(v[1]) /\ IsZero(v[2]) /\ v[1] # v[2])
    BY <1>11 DEF Unclear
  <2>3. HostMax(v[1], v[2]) = MaxF(v[1], v[2])
    BY <2>1, <2>2, HostMaxIs
  <2>4. Folded(op, v) = <<r>>
    BY <1>1, <1>6, <1>11, <2>3 DEF Folded, Computed
  <2> QED BY <1>2, <1>3, <1>5, <2>4
<1> QED BY <1>4, <1>7, <1>8, <1>9, <1>10, <1>11 DEF Ops

LEMMA FoldKeeps ==
  ASSUME NEW x \in DeviceFloats, NEW g, NEW d, Means(g, d, x), NEW nid \in 1 .. Len(g.root),
         NEW n \in ENode(Len(g.root)), d[nid] = Computes(n, d, x),
         Foldable(g, n) => ~Unclear(n.op, Operands(g, n))
  PROVE  Keeps(FoldRule(g, nid, n), d, x)
<1>1. PICK N \in Nat : N = Len(g.root)
  BY MeansParts
<1>2. /\ n \in ENode(N) /\ n.op \in Ops /\ n.kids \in Seq(1 .. N) /\ DOMAIN n.kids = 1 .. Arity(n.op)
      /\ Arity(n.op) \in 0 .. 3 /\ \A i \in 1 .. Arity(n.op) : n.kids[i] \in 1 .. N
  BY <1>1, OperandsOf
<1>3. CASE ~Foldable(g, n) \/ Folded(n.op, Operands(g, n)) = <<>>
  <2>1. FoldRule(g, nid, n) = g
    BY <1>3 DEF FoldRule
  <2> QED BY <2>1, MeansKeeps
<1>4. CASE Foldable(g, n) /\ Folded(n.op, Operands(g, n)) # <<>>
  <2>1. PICK v : v = Operands(g, n)
    OBVIOUS
  <2>2. DOMAIN v = 1 .. Arity(n.op) /\ \A i \in 1 .. Arity(n.op) : v[i] = ClassConst(g, n.kids[i])[1]
    BY <1>2, <2>1 DEF Operands
  <2>3. ~\E i \in DOMAIN v : IsNaN(v[i])
    BY <1>4, <2>1 DEF Folded
  <2>4. ASSUME NEW i \in 1 .. Arity(n.op)
        PROVE  v[i] \in DeviceFloats /\ ~IsNaN(v[i]) /\ v[i] = d[n.kids[i]]
    <3>1. ClassConst(g, n.kids[i]) # <<>>
      BY <1>2, <1>4 DEF Foldable
    <3>2. PICK k \in 1 .. N : k = n.kids[i]
      BY <1>2
    <3>3. PICK w \in DeviceFloats : ClassConst(g, k) = <<w>> /\ d[k] = IF IsNaN(w) THEN LiteralNaN ELSE w
      BY <1>1, <3>1, <3>2, ClassConstIs
    <3>4. v[i] = w
      BY <2>2, <3>2, <3>3
    <3> QED BY <2>2, <2>3, <3>2, <3>3, <3>4
  <2>5. Arity(n.op) # 0
    <3>1. n.kids # <<>>
      BY <1>4 DEF Foldable
    <3> QED BY <1>2, <3>1
  <2>6. PICK r \in DeviceFloats :
          Folded(n.op, v) = <<r>> /\ ~IsNaN(r) /\ \A val, y : Computed(n.op, val, v, y) = r
    BY <1>2, <1>4, <2>1, <2>2, <2>4, <2>5, FoldedIs
  <2>7. v = [i \in DOMAIN n.kids |-> d[n.kids[i]]]
    <3>1. v = [i \in DOMAIN n.kids |-> v[i]]
      BY <2>1 DEF Operands
    <3> QED BY <1>2, <2>4, <3>1
  <2>8. Computes(n, d, x) = r
    BY <2>6, <2>7 DEF Computes
  <2>9. Const(r) \in ENode(N) /\ Computes(Const(r), d, x) = r
    BY <2>6, MadeConst
  <2>10. Keeps(Joined(AddNode(g, Const(r)), nid), d, x)
    BY <1>1, <2>8, <2>9, JoinedKeeps
  <2>11. FoldRule(g, nid, n) = Joined(AddNode(g, Const(r)), nid)
    <3>1. Folded(n.op, Operands(g, n)) = <<r>> /\ <<r>> # <<>> /\ <<r>>[1] = r
      BY <2>1, <2>6
    <3> QED BY <1>4, <3>1, Zenon DEF FoldRule
  <2> QED BY <2>10, <2>11
<1> QED BY <1>3, <1>4

-----------------------------------------------------------------------------
(* A fold of constants the host and the device agree on.                   *)
Settled(g, n) == Foldable(g, n) => ~Unclear(n.op, Operands(g, n))

(* apply_rules: whatever a rewrite does to a graph, that is, the identities*)
(* (x + -0, x - 0, x * 1, x / 1), the reciprocal of a power of two, the    *)
(* double negation, the absorbed abs and relu, max(x, x) and the fold of   *)
(* constants, each class still computes the same bits for every input, NaNs*)
(* and signed zeros included: only classes that compute the same are joined*)
(* and only nodes that compute a class's value are added to it.  A fold is *)
(* of constants the host and the device agree on.                          *)
THEOREM RewritesKeepBits ==
  ASSUME NEW x \in DeviceFloats, NEW g, NEW d, Means(g, d, x), NEW n \in ENode(Len(g.root)),
         Settled(IdentityRules(AddNode(g, n).g, AddNode(g, n).id, n), n)
  PROVE  Keeps(Rewritten(g, n), d, x)
<1>1. PICK N \in Nat : N = Len(g.root) /\ DOMAIN d = 1 .. N
  BY MeansParts
<1>2. PICK h, id : h = AddNode(g, n).g /\ id = AddNode(g, n).id
  OBVIOUS
<1>3. PICK e : Means(h, e, x) /\ Continues(e, d) /\ id \in DOMAIN e /\ e[id] = Computes(n, d, x)
  BY <1>2, InterningKeepsBits
<1>4. PICK k : k = IdentityRules(h, id, n)
  OBVIOUS
<1>5. PICK M \in Nat : M = Len(h.root) /\ DOMAIN e = 1 .. M
  BY <1>3, MeansParts
<1>6. n \in ENode(M) /\ id \in 1 .. M
  <2>1. 1 .. N \subseteq 1 .. M
    BY <1>1, <1>3, <1>5 DEF Continues
  <2>2. N <= M
    BY <2>1
  <2> QED BY <1>1, <1>3, <1>5, <2>2, MoreNodes
<1>7. e[id] = Computes(n, e, x)
  BY <1>1, <1>3, ContinuesComputes
<1>8. Keeps(k, e, x)
  BY <1>3, <1>4, <1>5, <1>6, <1>7, IdentityKeeps
<1>9. PICK f : Means(k, f, x) /\ Continues(f, e)
  BY <1>8 DEF Keeps
<1>10. PICK K \in Nat : K = Len(k.root) /\ DOMAIN f = 1 .. K
  BY <1>9, MeansParts
<1>11. n \in ENode(K) /\ id \in 1 .. K /\ f[id] = e[id]
  <2>1. 1 .. M \subseteq 1 .. K
    BY <1>5, <1>9, <1>10 DEF Continues
  <2>2. M <= K
    BY <2>1
  <2>3. f[id] = e[id]
    BY <1>3, <1>9 DEF Continues
  <2> QED BY <1>6, <2>1, <2>2, <2>3, MoreNodes
<1>12. f[id] = Computes(n, f, x)
  BY <1>5, <1>6, <1>7, <1>9, <1>11, ContinuesComputes
<1>13. Foldable(k, n) => ~Unclear(n.op, Operands(k, n))
  BY <1>2, <1>4 DEF Settled
<1>14. Keeps(FoldRule(k, id, n), f, x)
  BY <1>9, <1>10, <1>11, <1>12, <1>13, FoldKeeps
<1>15. Keeps(FoldRule(k, id, n), d, x)
  BY <1>3, <1>9, <1>14, KeepsThen
<1>16. Rewritten(g, n) = FoldRule(k, id, n)
  BY <1>2, <1>4 DEF Rewritten
<1> QED BY <1>15, <1>16

-----------------------------------------------------------------------------
(* Rebuilding.                                                             *)

(* A finite set of numbers can be counted through in order.                *)
LEMMA Ranked ==
  ASSUME NEW F, F \subseteq Nat, IsFiniteSet(F)
  PROVE  /\ Cardinality(F) \in Nat
         /\ \A k \in 1 .. Cardinality(F) : \E i \in F : Cardinality({j \in F : j <= i}) = k
<1> DEFINE upTo(i) == {j \in F : j <= i}
           rank == [i \in F |-> Cardinality(upTo(i))]
<1>1. PICK c \in Nat : c = Cardinality(F)
  BY FS_CardinalityType
<1>2. ASSUME NEW i \in F
      PROVE  IsFiniteSet(upTo(i)) /\ Cardinality(upTo(i)) \in 1 .. c
  <2>1. upTo(i) \in SUBSET F /\ i \in upTo(i)
    OBVIOUS
  <2>2. IsFiniteSet(upTo(i)) /\ Cardinality(upTo(i)) <= c /\ Cardinality(upTo(i)) \in Nat
    BY <1>1, <2>1, FS_Subset, FS_CardinalityType
  <2>3. Cardinality(upTo(i)) # 0
    BY <2>1, <2>2, FS_EmptySet
  <2> HIDE DEF upTo
  <2> QED BY <2>2, <2>3
<1>3. ASSUME NEW i \in F, NEW j \in F, i < j
      PROVE  Cardinality(upTo(i)) # Cardinality(upTo(j))
  <2>1. i \in Nat /\ j \in Nat
    OBVIOUS
  <2>2. upTo(i) \in SUBSET upTo(j) /\ j \in upTo(j) /\ j \notin upTo(i)
    <3>1. \A m \in F : m <= i => m <= j
      BY <1>3, <2>1
    <3>2. j <= j /\ ~(j <= i)
      BY <1>3, <2>1
    <3> QED BY <3>1, <3>2, Zenon
  <2>3. IsFiniteSet(upTo(j)) /\ upTo(i) # upTo(j)
    BY <1>2, <2>2
  <2> HIDE DEF upTo
  <2> QED BY <2>2, <2>3, FS_Subset
<1>4. rank \in Injection(F, 1 .. c)
  <2>1. rank \in [F -> 1 .. c]
    BY <1>2
  <2>2. ASSUME NEW i \in F, NEW j \in F, rank[i] = rank[j] PROVE i = j
    <3>1. Cardinality(upTo(i)) = Cardinality(upTo(j))
      BY <2>2
    <3>2. i \in Nat /\ j \in Nat
      OBVIOUS
    <3> HIDE DEF upTo
    <3>3. ~(i < j) /\ ~(j < i)
      BY <1>3, <3>1
    <3> QED BY <3>2, <3>3
  <2> HIDE DEF rank
  <2> QED BY <2>1, <2>2 DEF Injection, IsInjective
<1>5. IsFiniteSet(1 .. c) /\ Cardinality(1 .. c) = c
  <2>1. 1 \in Int /\ c \in Int
    OBVIOUS
  <2>2. IsFiniteSet(1 .. c) /\ Cardinality(1 .. c) = IF 1 > c THEN 0 ELSE c - 1 + 1
    BY <2>1, FS_Interval
  <2> QED BY <2>2
<1>6. rank \in Surjection(F, 1 .. c)
  <2> HIDE DEF rank
  <2> QED BY <1>1, <1>4, <1>5, FS_Injection
<1>7. \A k \in 1 .. c : \E i \in F : rank[i] = k
  <2> HIDE DEF rank
  <2> QED BY <1>6 DEF Surjection
<1> QED BY <1>1, <1>7

LEMMA DistinctIs ==
  ASSUME NEW S, NEW s \in Seq(S)
  PROVE  /\ Distinct(s) \in Seq(S)
         /\ \A k \in 1 .. Len(Distinct(s)) : \E i \in 1 .. Len(s) : Distinct(s)[k] = s[i]
<1>1. PICK F : F = {i \in DOMAIN s : \A j \in DOMAIN s : j < i => s[j] # s[i]}
  OBVIOUS
<1>2. DOMAIN s = 1 .. Len(s) /\ Len(s) \in Nat /\ \A i \in 1 .. Len(s) : s[i] \in S
  OBVIOUS
<1>3. F \subseteq 1 .. Len(s) /\ F \subseteq Nat /\ IsFiniteSet(F)
  <2>1. F \in SUBSET (1 .. Len(s)) /\ F \subseteq Nat
    BY <1>1, <1>2
  <2>2. IsFiniteSet(1 .. Len(s))
    BY <1>2, FS_Interval
  <2> QED BY <2>1, <2>2, FS_Subset
<1>4. PICK c \in Nat : c = Cardinality(F) /\ \A k \in 1 .. c : \E i \in F : Cardinality({j \in F : j <= i}) = k
  BY <1>3, Ranked
<1>5. PICK t : t = [k \in 1 .. c |-> s[CHOOSE i \in F : Cardinality({j \in F : j <= i}) = k]]
  OBVIOUS
<1>6. Distinct(s) = t
  BY <1>1, <1>4, <1>5 DEF Distinct
<1>7. ASSUME NEW k \in 1 .. c PROVE \E i \in 1 .. Len(s) : t[k] = s[i]
  <2>1. PICK i : i = CHOOSE m \in F : Cardinality({j \in F : j <= m}) = k
    OBVIOUS
  <2>2. i \in F
    BY <1>4, <2>1, Zenon
  <2>3. t[k] = s[i]
    BY <1>5, <2>1
  <2> QED BY <1>3, <2>2, <2>3
<1>8. t \in [1 .. c -> S]
  <2>1. \A k \in 1 .. c : t[k] \in S
    BY <1>2, <1>7
  <2>2. t = [k \in 1 .. c |-> t[k]]
    BY <1>5
  <2> QED BY <2>1, <2>2
<1>9. t \in Seq(S) /\ Len(t) = c
  BY <1>8, MakesSeq
<1> QED BY <1>6, <1>7, <1>9

(* A set of numbers up to c that is not empty has a greatest one.          *)
LEMMA GreatestExists ==
  ASSUME NEW c \in Nat, NEW S, S \subseteq 1 .. c, S # {}
  PROVE  \E n \in S : \A m \in S : m <= n
<1>1. PICK T : T = {c - m : m \in S}
  OBVIOUS
<1>2. T \subseteq Nat /\ T # {}
  <2>1. \A m \in 1 .. c : c - m \in Nat
    OBVIOUS
  <2>2. \A m \in S : c - m \in Nat
    BY <2>1
  <2> QED BY <1>1, <2>2
<1>3. PICK t \in T : \A u \in T : t <= u
  BY <1>2, LeastExists
<1>4. PICK n \in S : t = c - n
  BY <1>1, <1>3
<1>5. ASSUME NEW m \in S PROVE m <= n
  <2>1. c - n <= c - m
    BY <1>1, <1>3, <1>4
  <2>2. m \in Int /\ n \in Int
    OBVIOUS
  <2> QED BY <2>1, <2>2
<1> QED BY <1>4, <1>5

(* Of the classes that hold a node one comes last.                         *)
LEMMA WinnerExists ==
  ASSUME NEW N \in Nat, NEW shared, shared \subseteq 1 .. N, NEW ids, ids \subseteq 1 .. N, ids # {},
         Cardinality(ids) > 1 => ids \subseteq shared, NEW last \in [shared -> 1 .. Cardinality(shared)]
  PROVE  \E a \in ids : \A b \in ids : a = b \/ last[b] <= last[a]
<1>1. IsFiniteSet(1 .. N)
  BY FS_Interval
<1>2. IsFiniteSet(ids) /\ IsFiniteSet(shared)
  <2>1. ids \in SUBSET (1 .. N) /\ shared \in SUBSET (1 .. N)
    OBVIOUS
  <2> QED BY <1>1, <2>1, FS_Subset
<1>3. Cardinality(ids) \in Nat /\ Cardinality(shared) \in Nat /\ Cardinality(ids) # 0
  BY <1>2, FS_CardinalityType, FS_EmptySet
<1>4. CASE Cardinality(ids) = 1
  <2>1. PICK a : ids = {a}
    BY <1>2, <1>4, FS_Singleton
  <2> QED BY <2>1
<1>5. CASE Cardinality(ids) # 1
  <2>1. ids \subseteq shared
    BY <1>3, <1>5
  <2>2. PICK S : S = {last[b] : b \in ids}
    OBVIOUS
  <2>3. S \subseteq 1 .. Cardinality(shared) /\ S # {}
    BY <2>1, <2>2
  <2>4. PICK n \in S : \A m \in S : m <= n
    BY <1>3, <2>3, GreatestExists
  <2>5. PICK a \in ids : n = last[a]
    BY <2>2, <2>4
  <2> QED BY <2>2, <2>4, <2>5
<1> QED BY <1>4, <1>5

(* rebuild_index: in whichever order the classes come, the nodes made      *)
(* canonical and kept once and the hashcons made anew say of each class    *)
(* what was said of it before, also when two classes hold the same node.   *)
THEOREM RebuildingKeepsBits ==
  ASSUME NEW x \in DeviceFloats, NEW g, NEW d, Means(g, d, x), NEW r \in Rebuilt(g)
  PROVE  Means(r, d, x)
<1>1. PICK N \in Nat : N = Len(g.root)
  BY MeansParts
<1>2. /\ WellMade(g) /\ d \in [1 .. N -> DeviceFloats]
      /\ \A i \in 1 .. N : d[g.root[i]] = d[i]
      /\ \A i \in 1 .. N : \A k \in 1 .. Len(g.nodes[i]) : Computes(g.nodes[i][k], d, x) = d[i]
  BY <1>1 DEF Means
<1>3. /\ g = [root |-> g.root, nodes |-> g.nodes, memo |-> g.memo, merged |-> g.merged]
      /\ g.root \in Seq(Nat) /\ DOMAIN g.root = 1 .. N
      /\ \A i \in 1 .. N : g.root[i] \in 1 .. N /\ g.root[g.root[i]] = g.root[i]
      /\ DOMAIN g.nodes = 1 .. N /\ \A i \in 1 .. N : g.nodes[i] \in Seq(ENode(N))
  BY <1>1, <1>2, WellMadeParts
<1> DEFINE nodes == RebuiltNodes(g)
           all == UNION {Range(nodes[id]) : id \in DOMAIN nodes}
           shared == UNION {ids \in {Holders(nodes, n) : n \in all} : Cardinality(ids) > 1}
<1>9. PICK last \in Injection(shared, 1 .. Cardinality(shared)) :
        r = [g EXCEPT !.nodes = nodes,
                      !.memo = [n \in all |-> CHOOSE a \in Holders(nodes, n) :
                                                \A b \in Holders(nodes, n) : a = b \/ last[b] <= last[a]],
                      !.merged = FALSE]
  BY Zenon DEF Rebuilt
<1>4. nodes = RebuiltNodes(g)
  OBVIOUS
<1>8. /\ all = UNION {Range(nodes[id]) : id \in DOMAIN nodes}
      /\ shared = UNION {ids \in {Holders(nodes, n) : n \in all} : Cardinality(ids) > 1}
  OBVIOUS
<1> HIDE DEF nodes, all, shared
<1>5. DOMAIN nodes = 1 .. N /\ nodes = [i \in 1 .. N |-> nodes[i]]
  BY <1>3, <1>4 DEF RebuiltNodes
<1>6. ASSUME NEW i \in 1 .. N
      PROVE  /\ nodes[i] \in Seq(ENode(N))
             /\ \A k \in 1 .. Len(nodes[i]) : Computes(nodes[i][k], d, x) = d[i]
  <2>1. PICK s : s = g.nodes[i]
    OBVIOUS
  <2>2. s \in Seq(ENode(N)) /\ Len(s) \in Nat /\ DOMAIN s = 1 .. Len(s)
        /\ \A k \in 1 .. Len(s) : s[k] \in ENode(N) /\ Computes(s[k], d, x) = d[i]
    <3>1. s \in Seq(ENode(N))
      BY <1>3, <2>1
    <3> QED BY <1>2, <2>1, <3>1
  <2>3. PICK t : t = [k \in 1 .. Len(s) |-> Canon(g, s[k])]
    OBVIOUS
  <2>4. \A k \in 1 .. Len(s) : t[k] \in ENode(N) /\ Computes(t[k], d, x) = d[i]
    <3> TAKE k \in 1 .. Len(s)
    <3>1. PICK m \in ENode(N) : m = s[k] /\ Computes(m, d, x) = d[i]
      BY <2>2
    <3>2. Canon(g, m) \in ENode(N) /\ Computes(Canon(g, m), d, x) = d[i]
      BY <1>1, <1>2, <3>1, CanonNode, CanonComputes
    <3> QED BY <2>3, <3>1, <3>2
  <2>5. t \in [1 .. Len(s) -> ENode(N)]
    <3>1. t = [k \in 1 .. Len(s) |-> t[k]]
      BY <2>3
    <3> QED BY <2>4, <3>1
  <2>6. t \in Seq(ENode(N)) /\ Len(t) = Len(s)
    BY <2>2, <2>5, MakesSeq
  <2>7. nodes[i] = Distinct(t)
    BY <1>3, <1>4, <2>1, <2>2, <2>3 DEF RebuiltNodes
  <2>8. nodes[i] \in Seq(ENode(N)) /\ \A k \in 1 .. Len(nodes[i]) : \E j \in 1 .. Len(t) : nodes[i][k] = t[j]
    <3>1. Distinct(t) \in Seq(ENode(N))
      BY <2>6, DistinctIs
    <3>2. \A k \in 1 .. Len(Distinct(t)) : \E j \in 1 .. Len(t) : Distinct(t)[k] = t[j]
      BY <2>6, DistinctIs
    <3> QED BY <2>7, <3>1, <3>2, Zenon
  <2> QED BY <2>4, <2>6, <2>8
<1>7. nodes \in Seq(Seq(ENode(N))) /\ Len(nodes) = N
  <2>1. nodes \in [1 .. N -> Seq(ENode(N))]
    BY <1>5, <1>6
  <2> QED BY <2>1, MakesSeq
<1>10. PICK memo : memo = [n \in all |-> CHOOSE a \in Holders(nodes, n) :
                                           \A b \in Holders(nodes, n) : a = b \/ last[b] <= last[a]]
  OBVIOUS
<1>11. r = [root |-> g.root, nodes |-> nodes, memo |-> memo, merged |-> FALSE]
  <2>1. r = [g EXCEPT !.nodes = nodes, !.memo = memo, !.merged = FALSE]
    BY <1>9, <1>10, Zenon
  <2> QED BY <1>3, <2>1
<1>12. \A n \in all : Holders(nodes, n) # {} /\ Holders(nodes, n) \subseteq 1 .. N
  BY <1>5, <1>8 DEF Holders
<1>13. shared \subseteq 1 .. N
  BY <1>8, <1>12
<1>14. ASSUME NEW n \in all, NEW a \in Holders(nodes, n)
       PROVE  a \in 1 .. N /\ n \in ENode(N) /\ Computes(n, d, x) = d[a]
  <2>1. a \in 1 .. N /\ n \in Range(nodes[a])
    BY <1>5 DEF Holders
  <2>2. PICK k \in DOMAIN nodes[a] : n = nodes[a][k]
    BY <2>1 DEF Range
  <2>3. k \in 1 .. Len(nodes[a]) /\ nodes[a] \in Seq(ENode(N))
    BY <1>6, <2>1, <2>2
  <2> QED BY <1>6, <2>1, <2>2, <2>3
<1>15. ASSUME NEW n \in all PROVE memo[n] \in Holders(nodes, n)
  <2>1. PICK ids : ids = Holders(nodes, n)
    OBVIOUS
  <2>2. ids # {} /\ ids \subseteq 1 .. N
    BY <1>12, <2>1
  <2>3. Cardinality(ids) > 1 => ids \subseteq shared
    BY <1>8, <2>1
  <2>4. last \in [shared -> 1 .. Cardinality(shared)]
    BY DEF Injection
  <2>5. \E a \in ids : \A b \in ids : a = b \/ last[b] <= last[a]
    BY <1>13, <2>2, <2>3, <2>4, WinnerExists
  <2>6. memo[n] = CHOOSE a \in ids : \A b \in ids : a = b \/ last[b] <= last[a]
    BY <1>10, <2>1
  <2>7. memo[n] \in ids
    BY <2>5, <2>6, Zenon
  <2> QED BY <2>1, <2>7
<1>16. DOMAIN memo = all
  BY <1>10
<1>17. \A n \in DOMAIN memo : n \in ENode(N) /\ memo[n] \in 1 .. N /\ Computes(n, d, x) = d[memo[n]]
  BY <1>14, <1>15, <1>16
<1>18. r.root = g.root /\ r.nodes = nodes /\ r.memo = memo
       /\ r = [root |-> r.root, nodes |-> r.nodes, memo |-> r.memo, merged |-> r.merged]
  BY <1>11
<1>19. WellMade(r)
  BY <1>1, <1>3, <1>7, <1>17, <1>18 DEF WellMade
<1> QED BY <1>1, <1>2, <1>6, <1>17, <1>18, <1>19 DEF Means
=============================================================================
