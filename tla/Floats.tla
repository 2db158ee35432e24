------------------------------- MODULE Floats -------------------------------
(***************************************************************************)
(* A small floating-point format, for the optimizer: signed zeros,         *)
(* infinities, NaNs with a sign, rounding to nearest with ties to even,    *)
(* overflow and underflow.  A value is <<sign, magnitude>> in quarters; the*)
(* precision the device computes at holds the multiples of a half, the     *)
(* host's the quarters too.                                                *)
(***************************************************************************)
EXTENDS Integers

CONSTANT MaxFinite   \* the largest magnitude of the device, in quarters

ASSUME FloatAssumption == MaxFinite \in Nat /\ MaxFinite % 2 = 0 /\ MaxFinite >= 4

-----------------------------------------------------------------------------
InfMagnitude == MaxFinite + 1
NaNMagnitude == MaxFinite + 2

DeviceFloats == {0, 1} \X ({m \in 0 .. MaxFinite : m % 2 = 0} \cup {InfMagnitude, NaNMagnitude})

Zero == <<0, 0>>
NegZero == <<1, 0>>
One == <<0, 4>>

(* What NAN spells in C, and the NaN the hardware makes of an operation    *)
(* that has no result: x86 sets its sign.                                  *)
LiteralNaN == <<0, NaNMagnitude>>
MadeNaN == <<1, NaNMagnitude>>

IsNaN(v) == v[2] = NaNMagnitude
IsInf(v) == v[2] = InfMagnitude
IsZero(v) == v[2] = 0

(* The order of the values that are not NaN; the zeros are equal.          *)
Real(v) == IF v[1] = 1 THEN -v[2] ELSE v[2]
Less(x, y) == ~IsNaN(x) /\ ~IsNaN(y) /\ Real(x) < Real(y)
Equal(x, y) == ~IsNaN(x) /\ ~IsNaN(y) /\ Real(x) = Real(y)

Abs(n) == IF n < 0 THEN -n ELSE n

(* The natural number nearest to p / q, the even one of two.               *)
Nearest(p, q) ==
  LET d == p \div q
      r == p % q
  IN  IF 2 * r < q \/ (2 * r = q /\ d % 2 = 0) THEN d ELSE d + 1

Bounded(m) == IF m > MaxFinite THEN InfMagnitude ELSE m

(* p / q quarters at the device's precision, and at the host's.            *)
AtDevice(p, q) == Bounded(2 * Nearest(p, 2 * q))
AtHost(p, q) == Bounded(Nearest(p, q))

(* The value a constant has on the device.                                 *)
Rounded(v) == IF v[2] > MaxFinite THEN v ELSE <<v[1], AtDevice(v[2], 1)>>

-----------------------------------------------------------------------------
(* The operations, at() being the precision of the result.  A NaN operand  *)
(* is the result, the first of two.                                        *)
OrNaN(x, y, result) == IF IsNaN(x) THEN x ELSE IF IsNaN(y) THEN y ELSE result

NegF(x) == <<1 - x[1], x[2]>>
AbsF(x) == <<0, x[2]>>

SumAt(x, y, at(_, _)) ==
  LET sum == Real(x) + Real(y)
      sign == IF sum = 0 THEN x[1] * y[1] ELSE IF sum < 0 THEN 1 ELSE 0
  IN  <<sign, at(Abs(sum), 1)>>

AddAt(x, y, at(_, _)) ==
  OrNaN(x, y, IF IsInf(x) THEN IF IsInf(y) /\ x[1] # y[1] THEN MadeNaN ELSE x
              ELSE IF IsInf(y) THEN y ELSE SumAt(x, y, at))

SubAt(x, y, at(_, _)) == IF IsNaN(y) THEN IF IsNaN(x) THEN x ELSE y ELSE AddAt(x, NegF(y), at)

(* The sign of a product and of a quotient.                                *)
Sign(x, y) == (x[1] + y[1]) % 2

MulAt(x, y, at(_, _)) ==
  OrNaN(x, y, IF ~IsInf(x) /\ ~IsInf(y) THEN <<Sign(x, y), at(x[2] * y[2], 4)>>
              ELSE IF IsZero(x) \/ IsZero(y) THEN MadeNaN ELSE <<Sign(x, y), InfMagnitude>>)

DivAt(x, y, at(_, _)) ==
  OrNaN(x, y, IF IsInf(x) THEN IF IsInf(y) THEN MadeNaN ELSE <<Sign(x, y), InfMagnitude>>
              ELSE IF IsInf(y) THEN <<Sign(x, y), 0>>
              ELSE IF ~IsZero(y) THEN <<Sign(x, y), at(4 * x[2], y[2])>>
              ELSE IF IsZero(x) THEN MadeNaN ELSE <<Sign(x, y), InfMagnitude>>)

ReluF(x) == IF Less(x, Zero) THEN Zero ELSE x
SqrAt(x, at(_, _)) == MulAt(x, x, at)

(* A compare-select that keeps a NaN, and the first of two equal values.   *)
MaxF(x, y) == OrNaN(x, y, IF Less(x, y) THEN y ELSE x)

(* The host's: of two zeros either may come back; here the positive one.   *)
HostMax(x, y) == IF IsZero(x) /\ IsZero(y) THEN <<x[1] * y[1], 0>> ELSE MaxF(x, y)

SelectF(c, x, y) == IF IsZero(c) THEN y ELSE x
=============================================================================
