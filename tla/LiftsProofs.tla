----------------------------- MODULE LiftsProofs -----------------------------
(***************************************************************************)
(* The lifted kernels, for every block size, number of elements and number *)
(* of rows: between two barriers no thread touches what another stores,    *)
(* nothing is read before it is stored, and what is stored in the output   *)
(* is what the serial kernel folds into it, each element once, and for a   *)
(* sum in the order the docs give.                                         *)
(***************************************************************************)
EXTENDS Lifts, SequenceTheorems, FiniteSetTheorems, WellFoundedInduction, TLAPS

-----------------------------------------------------------------------------
(* Powers of two, of the size of a u32.                                    *)

LEMMA PowerStep ==
  ASSUME NEW k \in 0 .. 31
  PROVE  2 ^ k \in Nat /\ 2 ^ k > 0 /\ (k > 0 => 2 * 2 ^ (k - 1) = 2 ^ k)
<1>0. CASE k = 0
  BY <1>0
<1>1. CASE k = 1
  BY <1>1
<1>2. CASE k = 2
  BY <1>2
<1>3. CASE k = 3
  BY <1>3
<1>4. CASE k = 4
  BY <1>4
<1>5. CASE k = 5
  BY <1>5
<1>6. CASE k = 6
  BY <1>6
<1>7. CASE k = 7
  BY <1>7
<1>8. CASE k = 8
  BY <1>8
<1>9. CASE k = 9
  BY <1>9
<1>10. CASE k = 10
  BY <1>10
<1>11. CASE k = 11
  BY <1>11
<1>12. CASE k = 12
  BY <1>12
<1>13. CASE k = 13
  BY <1>13
<1>14. CASE k = 14
  BY <1>14
<1>15. CASE k = 15
  BY <1>15
<1>16. CASE k = 16
  BY <1>16
<1>17. CASE k = 17
  BY <1>17
<1>18. CASE k = 18
  BY <1>18
<1>19. CASE k = 19
  BY <1>19
<1>20. CASE k = 20
  BY <1>20
<1>21. CASE k = 21
  BY <1>21
<1>22. CASE k = 22
  BY <1>22
<1>23. CASE k = 23
  BY <1>23
<1>24. CASE k = 24
  BY <1>24
<1>25. CASE k = 25
  BY <1>25
<1>26. CASE k = 26
  BY <1>26
<1>27. CASE k = 27
  BY <1>27
<1>28. CASE k = 28
  BY <1>28
<1>29. CASE k = 29
  BY <1>29
<1>30. CASE k = 30
  BY <1>30
<1>31. CASE k = 31
  BY <1>31
<1> QED BY <1>0, <1>1, <1>2, <1>3, <1>4, <1>5, <1>6, <1>7, <1>8, <1>9, <1>10, <1>11, <1>12, <1>13, <1>14, <1>15, <1>16, <1>17, <1>18, <1>19, <1>20, <1>21, <1>22, <1>23, <1>24, <1>25, <1>26, <1>27, <1>28, <1>29, <1>30, <1>31

(* A set of numbers that is not empty has a least one.                     *)
LEMMA LeastExists ==
  ASSUME NEW S, S \subseteq Nat, S # {}
  PROVE  \E n \in S : \A m \in S : n <= m
<1>1. PICK x \in S : \A y \in S : <<y, x>> \notin OpToRel(<, Nat)
  BY NatLessThanWellFounded, WFMin, Zenon
<1>2. \A y \in S : x <= y
  <2> TAKE y \in S
  <2>1. x \in Nat /\ y \in Nat
    OBVIOUS
  <2>2. ~(y < x)
    BY <1>1, <2>1 DEF OpToRel
  <2> QED BY <2>1, <2>2
<1> QED BY <1>2

LEMMA PowersGrow ==
  ASSUME NEW a \in 0 .. 31, NEW b \in 0 .. 31, a <= b
  PROVE  2 ^ a <= 2 ^ b
<1> DEFINE S == {n \in a .. 31 : 2 ^ n < 2 ^ a}
<1>1. S = {}
  <2> SUFFICES ASSUME S # {} PROVE FALSE
    OBVIOUS
  <2>1. PICK n \in S : \A m \in S : n <= m
    <3>1. S \subseteq Nat
      OBVIOUS
    <3> HIDE DEF S
    <3> QED BY <3>1, LeastExists
  <2>2. n \in a .. 31 /\ 2 ^ n < 2 ^ a /\ n \in 0 .. 31
    OBVIOUS
  <2>3. n # a
    BY <2>2, PowerStep
  <2>4. n - 1 \in a .. 31 /\ n - 1 \in 0 .. 31 /\ n > 0 /\ ~(n <= n - 1)
    BY <2>2, <2>3
  <2>5. n - 1 \notin S
    BY <2>1, <2>4
  <2>6. ~(2 ^ (n - 1) < 2 ^ a)
    BY <2>4, <2>5
  <2>7. 2 ^ (n - 1) \in Nat /\ 2 ^ (n - 1) > 0 /\ 2 * 2 ^ (n - 1) = 2 ^ n /\ 2 ^ a \in Nat
    BY <2>2, <2>4, PowerStep
  <2> QED BY <2>2, <2>6, <2>7
<1>2. b \in a .. 31 /\ b \notin S
  BY <1>1
<1>3. 2 ^ a \in Nat /\ 2 ^ b \in Nat
  BY PowerStep
<1> QED BY <1>2, <1>3

-----------------------------------------------------------------------------
(* The programs.                                                           *)

LEMMA JobFacts ==
  ASSUME job \in Jobs
  PROVE  /\ Levels \in 0 .. 31 /\ 2 ^ Levels = job.block
         /\ job.block \in Nat /\ job.block > 0 /\ 0 \in Threads
<1>1. \E k \in 0 .. 31 : 2 ^ k = job.block
  BY JobsAssumption
<1>2. Levels \in 0 .. 31 /\ 2 ^ Levels = job.block
  BY <1>1 DEF Levels
<1>3. 2 ^ Levels \in Nat /\ 2 ^ Levels > 0
  BY <1>2, PowerStep
<1> QED BY <1>2, <1>3 DEF Threads

Kinds ==
  {"Slice", "Chunk", "Publish", "Round", "Partner", "Combine", "Offset", "Write",
   "Store", "Share", "Take", "Epilogue", "Barrier"}

Statement == [do : Kinds, arg : Nat]

LEMMA RoundsAre ==
  ASSUME job \in Jobs
  PROVE  /\ Rounds \in Seq(Statement) /\ Len(Rounds) = 2 * Levels
         /\ \A i \in 1 .. 2 * Levels :
              /\ i % 2 = 0 => Rounds[i] = Barrier
              /\ i % 2 = 1 => /\ Rounds[i].do = "Round" /\ Rounds[i].arg \in Nat
                              /\ 2 * Rounds[i].arg <= job.block
<1>1. Levels \in Nat /\ Levels <= 31 /\ 2 ^ Levels = job.block
  BY JobFacts
<1>2. ASSUME NEW i \in 1 .. 2 * Levels, i % 2 = 1
      PROVE  2 ^ (Levels - (i + 1) \div 2) \in Nat /\ 2 * 2 ^ (Levels - (i + 1) \div 2) <= job.block
  <2> DEFINE e == Levels - (i + 1) \div 2
  <2>1. e \in 0 .. 31 /\ e + 1 \in 0 .. 31 /\ Levels \in 0 .. 31 /\ e + 1 <= Levels
    BY <1>1, <1>2
  <2> HIDE DEF e
  <2>2. 2 ^ e \in Nat
    BY <2>1, PowerStep
  <2>3. 2 * 2 ^ e = 2 ^ (e + 1)
    <3> PICK k : k = e + 1
      OBVIOUS
    <3>1. k \in 0 .. 31 /\ k > 0 /\ k - 1 = e
      BY <2>1
    <3>2. 2 * 2 ^ (k - 1) = 2 ^ k
      BY <3>1, PowerStep
    <3> QED BY <3>1, <3>2
  <2>4. 2 ^ (e + 1) <= 2 ^ Levels
    BY <2>1, PowersGrow
  <2>5. 2 ^ e \in Nat /\ 2 * 2 ^ e <= job.block
    BY <1>1, <2>2, <2>3, <2>4
  <2> QED BY <2>5 DEF e
<1>3. \A i \in 1 .. 2 * Levels :
        Rounds[i] = IF i % 2 = 1 THEN Do("Round", 2 ^ (Levels - (i + 1) \div 2)) ELSE Barrier
  BY DEF Rounds
<1>7. ASSUME NEW i \in 1 .. 2 * Levels, i % 2 = 1
      PROVE  /\ Rounds[i] \in Statement /\ Rounds[i].do = "Round" /\ Rounds[i].arg \in Nat
             /\ 2 * Rounds[i].arg <= job.block
  <2>1. PICK n : n = 2 ^ (Levels - (i + 1) \div 2)
    OBVIOUS
  <2>2. n \in Nat /\ 2 * n <= job.block
    BY <1>2, <1>7, <2>1
  <2>3. Rounds[i] = Do("Round", n)
    BY <1>3, <1>7, <2>1, Zenon
  <2>4. Rounds[i] \in Statement /\ Rounds[i].do = "Round" /\ Rounds[i].arg = n
    BY <2>2, <2>3 DEF Do, Statement, Kinds
  <2> QED BY <2>2, <2>4
<1>8. ASSUME NEW i \in 1 .. 2 * Levels, i % 2 = 0
      PROVE  Rounds[i] = Barrier /\ Rounds[i] \in Statement
  <2>1. i % 2 # 1
    BY <1>8
  <2>2. Rounds[i] = Barrier
    BY <1>3, <2>1, Zenon
  <2> QED BY <2>2 DEF Barrier, Do, Statement, Kinds
<1>4. \A i \in 1 .. 2 * Levels : Rounds[i] \in Statement
  <2> TAKE i \in 1 .. 2 * Levels
  <2>1. i % 2 = 0 \/ i % 2 = 1
    BY <1>1
  <2> QED BY <1>7, <1>8, <2>1
<1>5. Rounds \in [1 .. 2 * Levels -> Statement] /\ 2 * Levels \in Nat
  BY <1>1, <1>4 DEF Rounds
<1>6. Rounds \in Seq(Statement) /\ Len(Rounds) = 2 * Levels
  BY <1>5
<1> QED BY <1>6, <1>7, <1>8

LEMMA TotalsScanIs ==
  ASSUME job \in Jobs
  PROVE  /\ TotalsScan \in Seq(Statement) /\ Len(TotalsScan) = 4 * Levels
         /\ \A i \in 1 .. 4 * Levels :
              /\ i % 2 = 0 => TotalsScan[i] = Barrier
              /\ i % 2 = 1 => TotalsScan[i].do \in {"Partner", "Combine"} /\ TotalsScan[i].arg \in Nat
<1>1. Levels \in Nat /\ Levels <= 31
  BY JobFacts
<1>2. ASSUME NEW i \in 1 .. 4 * Levels PROVE 2 ^ (i \div 4) \in Nat
  <2>1. i \div 4 \in 0 .. 31
    BY <1>1
  <2> QED BY <2>1, PowerStep
<1>3. \A i \in 1 .. 4 * Levels :
        TotalsScan[i] = CASE i % 4 = 1 -> Do("Partner", 2 ^ (i \div 4))
                          [] i % 4 = 3 -> Do("Combine", 2 ^ (i \div 4))
                          [] OTHER     -> Barrier
  BY DEF TotalsScan
<1>4. ASSUME NEW i \in 1 .. 4 * Levels, i % 2 = 1
      PROVE  TotalsScan[i].do \in {"Partner", "Combine"} /\ TotalsScan[i].arg \in Nat /\ TotalsScan[i] \in Statement
  <2>1. i % 4 = 1 \/ i % 4 = 3
    BY <1>1, <1>4
  <2>2. PICK n : n = 2 ^ (i \div 4)
    OBVIOUS
  <2>3. n \in Nat
    BY <1>2, <2>2
  <2>4. TotalsScan[i] = Do("Partner", n) \/ TotalsScan[i] = Do("Combine", n)
    <3>1. i % 4 = 1 => i % 4 # 3
      OBVIOUS
    <3> QED BY <1>3, <2>1, <2>2, <3>1, Zenon
  <2> QED BY <2>3, <2>4 DEF Do, Statement, Kinds
<1>5. ASSUME NEW i \in 1 .. 4 * Levels, i % 2 = 0
      PROVE  TotalsScan[i] = Barrier /\ TotalsScan[i] \in Statement
  <2>1. i % 4 # 1 /\ i % 4 # 3
    BY <1>1, <1>5
  <2>2. TotalsScan[i] = Barrier
    BY <1>3, <2>1, Zenon
  <2> QED BY <2>2 DEF Barrier, Do, Statement, Kinds
<1>6. TotalsScan \in [1 .. 4 * Levels -> Statement] /\ 4 * Levels \in Nat
  <2>1. \A i \in 1 .. 4 * Levels : i % 2 = 0 \/ i % 2 = 1
    BY <1>1
  <2>2. \A i \in 1 .. 4 * Levels : TotalsScan[i] \in Statement
    BY <1>4, <1>5, <2>1
  <2> QED BY <1>1, <2>2 DEF TotalsScan
<1>7. TotalsScan \in Seq(Statement) /\ Len(TotalsScan) = 4 * Levels
  BY <1>6
<1> QED BY <1>4, <1>5, <1>7

LEMMA ThreeParts ==
  ASSUME NEW S, NEW a \in Seq(S), NEW b \in Seq(S), NEW c \in Seq(S)
  PROVE  /\ a \o b \o c \in Seq(S)
         /\ Len(a \o b \o c) = Len(a) + Len(b) + Len(c)
         /\ \A i \in 1 .. Len(a) : (a \o b \o c)[i] = a[i]
         /\ \A i \in 1 .. Len(b) : (a \o b \o c)[Len(a) + i] = b[i]
         /\ \A i \in 1 .. Len(c) : (a \o b \o c)[Len(a) + Len(b) + i] = c[i]
<1>1. a \o b \in Seq(S) /\ Len(a \o b) = Len(a) + Len(b)
  OBVIOUS
<1>2. \A i \in 1 .. Len(a) + Len(b) : (a \o b)[i] = IF i <= Len(a) THEN a[i] ELSE b[i - Len(a)]
  BY ConcatProperties
<1> DEFINE d == a \o b
<1>3. d \in Seq(S) /\ Len(d) = Len(a) + Len(b) /\ \A i \in 1 .. Len(d) : d[i] = IF i <= Len(a) THEN a[i] ELSE b[i - Len(a)]
  BY <1>1, <1>2
<1> HIDE DEF d
<1>4. /\ d \o c \in Seq(S) /\ Len(d \o c) = Len(d) + Len(c)
      /\ \A i \in 1 .. Len(d) + Len(c) : (d \o c)[i] = IF i <= Len(d) THEN d[i] ELSE c[i - Len(d)]
  <2>1. d \in Seq(S)
    BY <1>3
  <2> QED BY <2>1, ConcatProperties
<1>5. \A i \in 1 .. Len(a) : (d \o c)[i] = a[i]
  <2> TAKE i \in 1 .. Len(a)
  <2>1. i \in 1 .. Len(d) + Len(c) /\ i \in 1 .. Len(d) /\ i <= Len(d) /\ i <= Len(a)
    BY <1>3
  <2> QED BY <1>3, <1>4, <2>1
<1>6. \A i \in 1 .. Len(b) : (d \o c)[Len(a) + i] = b[i]
  <2> TAKE i \in 1 .. Len(b)
  <2>1. Len(a) + i \in 1 .. Len(d) /\ ~(Len(a) + i <= Len(a)) /\ (Len(a) + i) - Len(a) = i
    BY <1>3
  <2> QED BY <1>3, <1>4, <2>1
<1>7. \A i \in 1 .. Len(c) : (d \o c)[Len(a) + Len(b) + i] = c[i]
  <2> TAKE i \in 1 .. Len(c)
  <2>1. Len(d) + i \in 1 .. Len(d) + Len(c) /\ ~(Len(d) + i <= Len(d)) /\ (Len(d) + i) - Len(d) = i
    BY <1>3
  <2> QED BY <1>3, <1>4, <2>1
<1>8. Len(d \o c) = Len(a) + Len(b) + Len(c)
  BY <1>3, <1>4
<1> QED BY <1>4, <1>5, <1>6, <1>7, <1>8 DEF d

(* Where the statements that share something stand: between two barriers   *)
(* that nobody else's accesses lie between.                                *)
WellPlaced(P, p) ==
  /\ P[p].do \in {"Round", "Partner", "Combine", "Share"} =>
       p > 3 /\ p < Len(P) /\ P[p - 1] = Barrier /\ P[p + 1] = Barrier
  /\ P[p].do = "Offset" =>
       p > 3 /\ p + 1 < Len(P) /\ P[p - 1] = Barrier /\ P[p + 1].do = "Write" /\ P[p + 2] = Barrier
  /\ P[p].do = "Round" => 2 * P[p].arg <= job.block
  /\ P[p].do = "Take" => p > 3 /\ P[p - 1] = Barrier /\ P[p - 2] = Do("Share", P[p].arg)
  /\ P[p].do \in {"Share", "Take"} => P[p].arg \in {1, 2}

Shaped(P) ==
  /\ P \in Seq(Statement) /\ Len(P) > 3
  /\ P[2] = Do("Publish", 1) /\ P[3] = Barrier
  /\ \A p \in 1 .. Len(P) : WellPlaced(P, p)

(* A part of a program keeps its place in the whole.                       *)
LEMMA PartPlaced ==
  ASSUME NEW P, NEW Q, NEW o \in Nat, Len(P) \in Nat, Len(Q) \in Nat, o + Len(Q) <= Len(P),
         \A j \in 1 .. Len(Q) : P[o + j] = Q[j],
         NEW j \in 1 .. Len(Q), WellPlaced(Q, j)
  PROVE  WellPlaced(P, o + j)
<1>1. P[o + j] = Q[j]
  OBVIOUS
<1>2. j > 3 => P[(o + j) - 1] = Q[j - 1] /\ P[(o + j) - 2] = Q[j - 2] /\ o + j > 3
  <2> HAVE j > 3
  <2>1. j - 1 \in 1 .. Len(Q) /\ o + (j - 1) = (o + j) - 1 /\ j - 2 \in 1 .. Len(Q) /\ o + (j - 2) = (o + j) - 2
    OBVIOUS
  <2>2. P[o + (j - 1)] = Q[j - 1] /\ P[o + (j - 2)] = Q[j - 2]
    BY <2>1
  <2> QED BY <2>1, <2>2
<1>3. j < Len(Q) => P[(o + j) + 1] = Q[j + 1] /\ o + j < Len(P)
  <2> HAVE j < Len(Q)
  <2>1. j + 1 \in 1 .. Len(Q) /\ o + (j + 1) = (o + j) + 1
    OBVIOUS
  <2>2. P[o + (j + 1)] = Q[j + 1]
    BY <2>1
  <2> QED BY <2>1, <2>2
<1>4. j + 1 < Len(Q) => P[(o + j) + 2] = Q[j + 2] /\ (o + j) + 1 < Len(P)
  <2> HAVE j + 1 < Len(Q)
  <2>1. j + 2 \in 1 .. Len(Q) /\ o + (j + 2) = (o + j) + 2
    OBVIOUS
  <2>2. P[o + (j + 2)] = Q[j + 2]
    BY <2>1
  <2> QED BY <2>1, <2>2
<1>5. j + 1 < Len(Q) => j < Len(Q)
  OBVIOUS
<1> QED BY <1>1, <1>2, <1>3, <1>4, <1>5 DEF WellPlaced

(* The rounds between what comes before and after them.                    *)
LEMMA WithRounds ==
  ASSUME job \in Jobs, NEW s \in {1, 2}, NEW rest \in Seq(Statement)
  PROVE  LET P == <<Do("Slice", s), Do("Publish", s), Barrier>> \o Rounds \o rest
             n == 3 + 2 * Levels
         IN  /\ P \in Seq(Statement) /\ Len(P) = n + Len(rest)
             /\ P[1] = Do("Slice", s) /\ P[2] = Do("Publish", s) /\ P[3] = Barrier /\ P[n] = Barrier
             /\ \A i \in 1 .. 2 * Levels : P[3 + i] = Rounds[i]
             /\ \A i \in 1 .. Len(rest) : P[n + i] = rest[i]
             /\ \A p \in 1 .. n : WellPlaced(P, p)
<1> DEFINE a == <<Do("Slice", s), Do("Publish", s), Barrier>>
           P == a \o Rounds \o rest
           n == 3 + 2 * Levels
<1>1. a \in Seq(Statement) /\ Len(a) = 3 /\ a[1] = Do("Slice", s) /\ a[2] = Do("Publish", s) /\ a[3] = Barrier
  <2>1. {Do("Slice", s), Do("Publish", s), Barrier} \subseteq Statement
    BY DEF Do, Barrier, Statement, Kinds
  <2> QED BY <2>1
<1>2. /\ Rounds \in Seq(Statement) /\ Len(Rounds) = 2 * Levels
      /\ \A i \in 1 .. 2 * Levels :
           /\ i % 2 = 0 => Rounds[i] = Barrier
           /\ i % 2 = 1 => Rounds[i].do = "Round" /\ 2 * Rounds[i].arg <= job.block
  BY RoundsAre
<1>3. Levels \in Nat /\ Len(rest) \in Nat
  <2>1. Levels \in 0 .. 31
    BY JobFacts
  <2> QED BY <2>1
<1> HIDE DEF a
<1>4. /\ P \in Seq(Statement) /\ Len(P) = Len(a) + Len(Rounds) + Len(rest)
      /\ \A i \in 1 .. Len(a) : P[i] = a[i]
      /\ \A i \in 1 .. Len(Rounds) : P[Len(a) + i] = Rounds[i]
      /\ \A i \in 1 .. Len(rest) : P[Len(a) + Len(Rounds) + i] = rest[i]
  <2>1. a \in Seq(Statement) /\ Rounds \in Seq(Statement) /\ rest \in Seq(Statement)
    BY <1>1, <1>2
  <2> QED BY <2>1, ThreeParts
<1> HIDE DEF P
<1>5. /\ Len(P) = n + Len(rest) /\ P[1] = Do("Slice", s) /\ P[2] = Do("Publish", s) /\ P[3] = Barrier
      /\ \A i \in 1 .. 2 * Levels : P[3 + i] = Rounds[i]
      /\ \A i \in 1 .. Len(rest) : P[n + i] = rest[i]
  BY <1>1, <1>2, <1>3, <1>4
<1>6. P[n] = Barrier
  <2>1. CASE Levels = 0
    BY <1>5, <2>1
  <2>2. CASE Levels # 0
    <3>1. 2 * Levels \in 1 .. 2 * Levels /\ (2 * Levels) % 2 = 0
      BY <1>3, <2>2
    <3> QED BY <1>2, <1>5, <3>1
  <2> QED BY <2>1, <2>2
<1>7. ASSUME NEW p \in 1 .. n PROVE WellPlaced(P, p)
  <2>1. CASE p \in {1, 2, 3}
    <3>1. P[p].do \in {"Slice", "Publish", "Barrier"}
      BY <1>5, <2>1 DEF Do, Barrier
    <3> QED BY <3>1 DEF WellPlaced
  <2>2. CASE p \notin {1, 2, 3}
    <3> PICK i : i = p - 3
      OBVIOUS
    <3>0. i \in 1 .. 2 * Levels /\ p = 3 + i
      BY <1>3, <2>2
    <3>1. i \in 1 .. 2 * Levels /\ p = 3 + i /\ P[p] = Rounds[i]
      BY <1>5, <3>0
    <3>2. i % 2 = 0 \/ i % 2 = 1
      BY <1>3, <3>1
    <3>3. CASE i % 2 = 0
      <4>1. P[p].do = "Barrier"
        BY <1>2, <3>1, <3>3 DEF Barrier, Do
      <4> QED BY <4>1 DEF WellPlaced
    <3>4. CASE i % 2 = 1
      <4>1. P[p].do = "Round" /\ 2 * P[p].arg <= job.block
        BY <1>2, <3>1, <3>4
      <4>2. p > 3 /\ i + 1 \in 1 .. 2 * Levels /\ (i + 1) % 2 = 0 /\ p + 1 = 3 + (i + 1) /\ p < Len(P)
        <5>1. i + 1 \in 1 .. 2 * Levels /\ (i + 1) % 2 = 0
          BY <1>3, <3>0, <3>4
        <5>2. Len(P) = 3 + 2 * Levels + Len(rest)
          BY <1>5
        <5> QED BY <1>3, <3>0, <5>1, <5>2
      <4>3. P[p + 1] = Barrier
        BY <1>2, <1>5, <4>2
      <4>4. P[p - 1] = Barrier
        <5>1. CASE i = 1
          BY <1>5, <3>1, <5>1
        <5>2. CASE i # 1
          <6>1. i - 1 \in 1 .. 2 * Levels /\ (i - 1) % 2 = 0 /\ p - 1 = 3 + (i - 1)
            BY <1>3, <3>1, <3>4, <5>2
          <6> QED BY <1>2, <1>5, <6>1
        <5> QED BY <5>1, <5>2
      <4> QED BY <4>1, <4>2, <4>3, <4>4 DEF WellPlaced
    <3> QED BY <3>2, <3>3, <3>4
  <2> QED BY <2>1, <2>2
<1> QED BY <1>4, <1>5, <1>6, <1>7 DEF P, a

LEMMA ReduceShaped ==
  ASSUME job \in Jobs
  PROVE  Shaped(<<Do("Slice", 1), Do("Publish", 1), Barrier>> \o Rounds \o <<Do("Store", 1)>>)
<1> DEFINE rest == <<Do("Store", 1)>>
           P == <<Do("Slice", 1), Do("Publish", 1), Barrier>> \o Rounds \o rest
           n == 3 + 2 * Levels
<1>1. rest \in Seq(Statement) /\ Len(rest) = 1 /\ rest[1] = Do("Store", 1)
  BY DEF Do, Statement, Kinds
<1> HIDE DEF rest
<1>2. /\ P \in Seq(Statement) /\ Len(P) = n + Len(rest)
      /\ P[2] = Do("Publish", 1) /\ P[3] = Barrier
      /\ \A i \in 1 .. Len(rest) : P[n + i] = rest[i]
      /\ \A p \in 1 .. n : WellPlaced(P, p)
  BY <1>1, WithRounds
<1> HIDE DEF P
<1>3. Levels \in Nat
  BY JobFacts
<1>4. ASSUME NEW p \in 1 .. Len(P) PROVE WellPlaced(P, p)
  <2>1. CASE p \in 1 .. n
    BY <1>2, <2>1
  <2>2. CASE p \notin 1 .. n
    <3>1. p = n + 1
      BY <1>1, <1>2, <1>3, <2>2
    <3>2. P[p].do = "Store"
      BY <1>1, <1>2, <3>1 DEF Do
    <3> QED BY <3>2 DEF WellPlaced
  <2> QED BY <2>1, <2>2
<1>5. Shaped(P)
  BY <1>1, <1>2, <1>3, <1>4 DEF Shaped
<1> QED BY <1>5 DEF P, rest

(* A stage: its result is shared between two barriers and taken after.     *)
LEMMA StageIs ==
  ASSUME job \in Jobs, NEW s \in {1, 2}
  PROVE  /\ Stage(s) \in Seq(Statement) /\ Len(Stage(s)) = 6 + 2 * Levels
         /\ Stage(s)[2] = Do("Publish", s) /\ Stage(s)[3] = Barrier
         /\ \A p \in 1 .. Len(Stage(s)) : WellPlaced(Stage(s), p)
<1> DEFINE rest == <<Do("Share", s), Barrier, Do("Take", s)>>
           P == <<Do("Slice", s), Do("Publish", s), Barrier>> \o Rounds \o rest
           n == 3 + 2 * Levels
<1>1. /\ rest \in Seq(Statement) /\ Len(rest) = 3
      /\ rest[1] = Do("Share", s) /\ rest[2] = Barrier /\ rest[3] = Do("Take", s)
  BY DEF Do, Statement, Kinds, Barrier
<1> HIDE DEF rest
<1>2. /\ P \in Seq(Statement) /\ Len(P) = n + Len(rest)
      /\ P[2] = Do("Publish", s) /\ P[3] = Barrier /\ P[n] = Barrier
      /\ \A i \in 1 .. Len(rest) : P[n + i] = rest[i]
      /\ \A p \in 1 .. n : WellPlaced(P, p)
  BY <1>1, WithRounds
<1> HIDE DEF P
<1>3. Levels \in Nat /\ n \in Nat /\ n >= 3
  BY JobFacts
<1>4. P[n + 1] = Do("Share", s) /\ P[n + 2] = Barrier /\ P[n + 3] = Do("Take", s) /\ Len(P) = n + 3
  BY <1>1, <1>2
<1>5. ASSUME NEW p \in 1 .. Len(P) PROVE WellPlaced(P, p)
  <2>1. p \in 1 .. n \/ p = n + 1 \/ p = n + 2 \/ p = n + 3
    BY <1>3, <1>4
  <2>2. CASE p \in 1 .. n
    BY <1>2, <2>2
  <2>3. CASE p = n + 1
    <3>1. P[p].do = "Share" /\ P[p].arg \in {1, 2} /\ p > 3 /\ p < Len(P) /\ p - 1 = n /\ p + 1 = n + 2
      BY <1>3, <1>4, <2>3 DEF Do
    <3> QED BY <1>2, <1>4, <3>1 DEF WellPlaced
  <2>4. CASE p = n + 2
    BY <1>4, <2>4 DEF WellPlaced, Barrier, Do
  <2>5. CASE p = n + 3
    <3>1. P[p].do = "Take" /\ P[p].arg = s /\ p > 3 /\ p - 1 = n + 2 /\ p - 2 = n + 1
      BY <1>3, <1>4, <2>5 DEF Do
    <3> QED BY <1>4, <3>1 DEF WellPlaced
  <2> QED BY <2>1, <2>2, <2>3, <2>4, <2>5
<1>6. Len(P) = 6 + 2 * Levels
  BY <1>3, <1>4
<1>7. Stage(s) = P
  BY DEF Stage, P, rest
<1> QED BY <1>2, <1>5, <1>6, <1>7

LEMMA RowReduceShaped ==
  ASSUME job \in Jobs
  PROVE  Shaped(Stage(1) \o Stage(2) \o <<Do("Epilogue", 3)>>)
<1> DEFINE rest == <<Do("Epilogue", 3)>>
           P == Stage(1) \o Stage(2) \o rest
           m == 6 + 2 * Levels
<1>1. rest \in Seq(Statement) /\ Len(rest) = 1 /\ rest[1] = Do("Epilogue", 3)
  BY DEF Do, Statement, Kinds
<1> HIDE DEF rest
<1>2. ASSUME NEW s \in {1, 2}
      PROVE  /\ Stage(s) \in Seq(Statement) /\ Len(Stage(s)) = m
             /\ Stage(s)[2] = Do("Publish", s) /\ Stage(s)[3] = Barrier
             /\ \A p \in 1 .. m : WellPlaced(Stage(s), p)
  BY StageIs
<1>3. m \in Nat /\ m >= 6
  <2>1. Levels \in 0 .. 31
    BY JobFacts
  <2> QED BY <2>1
<1>4. /\ P \in Seq(Statement) /\ Len(P) = Len(Stage(1)) + Len(Stage(2)) + Len(rest)
      /\ \A i \in 1 .. Len(Stage(1)) : P[i] = Stage(1)[i]
      /\ \A i \in 1 .. Len(Stage(2)) : P[Len(Stage(1)) + i] = Stage(2)[i]
      /\ \A i \in 1 .. Len(rest) : P[Len(Stage(1)) + Len(Stage(2)) + i] = rest[i]
  <2>1. Stage(1) \in Seq(Statement) /\ Stage(2) \in Seq(Statement) /\ rest \in Seq(Statement)
    BY <1>1, <1>2
  <2> QED BY <2>1, ThreeParts
<1> HIDE DEF P, m
<1>5. Len(Stage(1)) = m /\ Len(Stage(2)) = m
  BY <1>2
<1>6. Len(P) = m + m + 1
  BY <1>1, <1>4, <1>5
<1>7. ASSUME NEW j \in 1 .. m PROVE WellPlaced(P, j)
  <2> PICK Q : Q = Stage(1)
    OBVIOUS
  <2>1. Len(Q) = m /\ WellPlaced(Q, j) /\ \A i \in 1 .. m : P[0 + i] = Q[i]
    BY <1>2, <1>4, <1>5
  <2>2. 0 + Len(Q) <= Len(P) /\ Len(P) \in Nat /\ Len(Q) \in Nat /\ 0 \in Nat
    BY <1>3, <1>6, <2>1
  <2>3. WellPlaced(P, 0 + j)
    <3> PICK o : o = 0
      OBVIOUS
    <3>1. o \in Nat /\ o + Len(Q) <= Len(P) /\ \A i \in 1 .. Len(Q) : P[o + i] = Q[i]
      BY <2>1, <2>2
    <3>2. WellPlaced(P, o + j)
      BY <2>1, <2>2, <3>1, PartPlaced
    <3> QED BY <3>2
  <2> QED BY <2>3
<1>8. ASSUME NEW j \in 1 .. m PROVE WellPlaced(P, m + j)
  <2> PICK Q : Q = Stage(2)
    OBVIOUS
  <2>1. Len(Q) = m /\ WellPlaced(Q, j) /\ \A i \in 1 .. Len(Q) : P[m + i] = Q[i]
    BY <1>2, <1>4, <1>5
  <2>2. m + Len(Q) <= Len(P) /\ Len(P) \in Nat /\ Len(Q) \in Nat
    BY <1>3, <1>6, <2>1
  <2> QED BY <1>3, <2>1, <2>2, PartPlaced
<1>9. P[m + m + 1].do = "Epilogue"
  <2>1. P[m + m + 1] = rest[1]
    <3>1. 1 \in 1 .. Len(rest)
      BY <1>1
    <3>2. P[Len(Stage(1)) + Len(Stage(2)) + 1] = rest[1]
      BY <1>4, <3>1
    <3> QED BY <1>5, <3>2
  <2> QED BY <1>1, <2>1 DEF Do
<1>10. ASSUME NEW p \in 1 .. Len(P) PROVE WellPlaced(P, p)
  <2>1. CASE p \in 1 .. m
    BY <1>7, <2>1
  <2>2. CASE p \in m + 1 .. m + m
    <3> PICK j : j = p - m
      OBVIOUS
    <3>1. j \in 1 .. m /\ p = m + j
      BY <1>3, <2>2
    <3> QED BY <1>8, <3>1
  <2>3. CASE p = m + m + 1
    BY <1>9, <2>3 DEF WellPlaced
  <2> QED BY <1>3, <1>6, <2>1, <2>2, <2>3
<1>11. P[2] = Do("Publish", 1) /\ P[3] = Barrier
  <2>1. 2 \in 1 .. Len(Stage(1)) /\ 3 \in 1 .. Len(Stage(1))
    BY <1>3, <1>5
  <2>2. P[2] = Stage(1)[2] /\ P[3] = Stage(1)[3]
    BY <1>4, <2>1
  <2> QED BY <1>2, <2>2
<1>12. Shaped(P)
  BY <1>3, <1>4, <1>6, <1>10, <1>11 DEF Shaped
<1> QED BY <1>12 DEF P, rest

LEMMA ScanShaped ==
  ASSUME job \in Jobs
  PROVE  Shaped(ScanRow)
<1> DEFINE a == <<Do("Chunk", 1), Do("Publish", 1), Barrier>>
           rest == <<Do("Offset", 1), Do("Write", 1), Barrier>>
           P == a \o TotalsScan \o rest
           n == 3 + 4 * Levels
<1>1. /\ a \in Seq(Statement) /\ Len(a) = 3
      /\ a[1] = Do("Chunk", 1) /\ a[2] = Do("Publish", 1) /\ a[3] = Barrier
  BY DEF Do, Barrier, Statement, Kinds
<1>2. /\ rest \in Seq(Statement) /\ Len(rest) = 3
      /\ rest[1] = Do("Offset", 1) /\ rest[2] = Do("Write", 1) /\ rest[3] = Barrier
  BY DEF Do, Barrier, Statement, Kinds
<1> HIDE DEF a, rest
<1>3. /\ TotalsScan \in Seq(Statement) /\ Len(TotalsScan) = 4 * Levels
      /\ \A i \in 1 .. 4 * Levels :
           /\ i % 2 = 0 => TotalsScan[i] = Barrier
           /\ i % 2 = 1 => TotalsScan[i].do \in {"Partner", "Combine"}
  BY TotalsScanIs
<1>4. Levels \in Nat
  <2>1. Levels \in 0 .. 31
    BY JobFacts
  <2> QED BY <2>1
<1>5. /\ P \in Seq(Statement) /\ Len(P) = Len(a) + Len(TotalsScan) + Len(rest)
      /\ \A i \in 1 .. Len(a) : P[i] = a[i]
      /\ \A i \in 1 .. Len(TotalsScan) : P[Len(a) + i] = TotalsScan[i]
      /\ \A i \in 1 .. Len(rest) : P[Len(a) + Len(TotalsScan) + i] = rest[i]
  <2>1. a \in Seq(Statement) /\ TotalsScan \in Seq(Statement) /\ rest \in Seq(Statement)
    BY <1>1, <1>2, <1>3
  <2> QED BY <2>1, ThreeParts
<1> HIDE DEF P
<1>6. /\ Len(P) = n + 3 /\ P[1] = Do("Chunk", 1) /\ P[2] = Do("Publish", 1) /\ P[3] = Barrier
      /\ \A i \in 1 .. 4 * Levels : P[3 + i] = TotalsScan[i]
      /\ P[n + 1] = Do("Offset", 1) /\ P[n + 2] = Do("Write", 1) /\ P[n + 3] = Barrier
  BY <1>1, <1>2, <1>3, <1>4, <1>5
<1>7. P[n] = Barrier
  <2>1. CASE Levels = 0
    BY <1>6, <2>1
  <2>2. CASE Levels # 0
    <3>1. 4 * Levels \in 1 .. 4 * Levels /\ (4 * Levels) % 2 = 0
      BY <1>4, <2>2
    <3> QED BY <1>3, <1>6, <3>1
  <2> QED BY <2>1, <2>2
<1>8. ASSUME NEW p \in 1 .. Len(P) PROVE WellPlaced(P, p)
  <2>1. p \in {1, 2, 3} \/ p \in 4 .. n \/ p = n + 1 \/ p = n + 2 \/ p = n + 3
    BY <1>4, <1>6
  <2>2. CASE p \in {1, 2, 3} \/ p = n + 2 \/ p = n + 3
    <3>1. P[p].do \in {"Chunk", "Publish", "Write", "Barrier"}
      BY <1>6, <2>2 DEF Do, Barrier
    <3> QED BY <3>1 DEF WellPlaced
  <2>3. CASE p \in 4 .. n
    <3> PICK i : i = p - 3
      OBVIOUS
    <3>1. i \in 1 .. 4 * Levels /\ p = 3 + i
      BY <1>4, <2>3
    <3>2. P[p] = TotalsScan[i] /\ (i % 2 = 0 \/ i % 2 = 1)
      BY <1>4, <1>6, <3>1
    <3>3. CASE i % 2 = 0
      <4>1. P[p].do = "Barrier"
        BY <1>3, <3>1, <3>2, <3>3 DEF Barrier, Do
      <4> QED BY <4>1 DEF WellPlaced
    <3>4. CASE i % 2 = 1
      <4>1. P[p].do \in {"Partner", "Combine"}
        BY <1>3, <3>1, <3>2, <3>4
      <4>2. i + 1 \in 1 .. 4 * Levels /\ (i + 1) % 2 = 0
        BY <1>4, <3>1, <3>4
      <4>3. P[p + 1] = Barrier
        <5>1. p + 1 = 3 + (i + 1)
          BY <3>1
        <5> QED BY <1>3, <1>6, <4>2, <5>1
      <4>4. P[p - 1] = Barrier
        <5>1. CASE i = 1
          BY <1>6, <3>1, <5>1
        <5>2. CASE i # 1
          <6>1. i - 1 \in 1 .. 4 * Levels /\ (i - 1) % 2 = 0 /\ p - 1 = 3 + (i - 1)
            BY <1>4, <3>1, <3>4, <5>2
          <6> QED BY <1>3, <1>6, <6>1
        <5> QED BY <5>1, <5>2
      <4>5. p > 3 /\ p < Len(P)
        BY <1>4, <1>6, <2>3
      <4> QED BY <4>1, <4>3, <4>4, <4>5 DEF WellPlaced
    <3> QED BY <3>2, <3>3, <3>4
  <2>4. CASE p = n + 1
    <3>1. P[p].do = "Offset" /\ P[p + 1].do = "Write"
      BY <1>4, <1>6, <2>4 DEF Do
    <3>2. p > 3 /\ p + 1 < Len(P) /\ p - 1 = n /\ p + 2 = n + 3
      BY <1>4, <1>6, <2>4
    <3> QED BY <1>6, <1>7, <3>1, <3>2 DEF WellPlaced
  <2> QED BY <2>1, <2>2, <2>3, <2>4
<1>9. Shaped(P)
  BY <1>4, <1>5, <1>6, <1>8 DEF Shaped
<1>10. P = ScanRow
  BY DEF P, a, rest, ScanRow
<1> QED BY <1>9, <1>10

(* Every lift's program is such a one.                                     *)
LEMMA ProgramShaped ==
  ASSUME job \in Jobs
  PROVE  Shaped(Program)
<1>1. job.lift \in {"reduce", "scan", "rowreduce"}
  BY JobsAssumption
<1> QED BY <1>1, ReduceShaped, ScanShaped, RowReduceShaped DEF Program
-----------------------------------------------------------------------------
(* The barriers behind statement p of row r: two threads are between the   *)
(* same two barriers when these are the same.                              *)
Behind(P, r, p) ==
  {x \in (0 .. r) \X (1 .. Len(P)) : P[x[2]] = Barrier /\ (x[1] < r \/ x[2] < p)}

(* An access that statement x makes.                                       *)
Made(x, a) ==
  \/ x.do = "Take" /\ a.array = "stage" /\ a.kind = "Read"
  \/ x.do = "Share" /\ a.array = "stage" /\ a.by = 0
  \/ a.array \in {"partial", "have"} /\
       \/ x.do \in {"Partner", "Offset"} /\ a.kind = "Read"
       \/ x.do \in {"Publish", "Combine", "Round"} /\ a.kind = "Write" /\ a.slot = a.by
                                                 /\ (x.do = "Round" => a.by < x.arg)
       \/ x.do = "Round" /\ a.kind = "Read" /\ a.by \in Nat /\ a.slot = a.by + x.arg

(* What it touches has been stored.                                        *)
IsSet(a, parts, flags, shares) ==
  \/ a.array = "partial" /\ a.slot \in DOMAIN parts /\ parts[a.slot] # {}
  \/ a.array = "have" /\ a.slot \in DOMAIN flags /\ flags[a.slot] # {}
  \/ a.array = "stage" /\ a.slot \in DOMAIN shares /\ shares[a.slot] # {}

AllSet == \A a \in touched : IsSet(a, partial, partialHave, stage)

LiftTyped ==
  /\ job \in Jobs
  /\ pc \in [Threads -> 1 .. Len(Program)]
  /\ row \in [Threads -> Nat]
  /\ DOMAIN partial = Threads /\ DOMAIN partialHave = Threads /\ DOMAIN stage = 1 .. 2

(* All threads are between the same two barriers ...                       *)
Together ==
  \A t, u \in Threads : Behind(Program, row[t], pc[t]) = Behind(Program, row[u], pc[u])

(* ... and so are the statements that made the accesses on record.         *)
TouchedHere ==
  \A a \in touched :
    \E r \in Nat, p \in 1 .. Len(Program) :
      Made(Program[p], a) /\ Behind(Program, r, p) = Behind(Program, row[0], pc[0])

(* A thread past its first Publish has published, and thread 0 has shared  *)
(* what it is past sharing.                                                *)
Published ==
  \A u \in Threads :
    (row[u] > 0 \/ pc[u] > 2) => partial[u] # {} /\ (HasFlag(1) => partialHave[u] # {})

SharedSoFar ==
  \A q \in 1 .. Len(Program) :
    (Program[q].do = "Share" /\ (row[0] > 0 \/ pc[0] > q)) => stage[Program[q].arg] # {}

LiftInv == LiftTyped /\ Together /\ TouchedHere /\ AllSet /\ Published /\ SharedSoFar

(* Going past a statement that is no barrier leaves no barrier behind.     *)
LEMMA PastNoBarrier ==
  ASSUME NEW P, Len(P) \in Nat, NEW r \in Nat, NEW p \in 1 .. Len(P), P[p] # Barrier
  PROVE  /\ Behind(P, r, p + 1) = Behind(P, r, p)
         /\ p = Len(P) => Behind(P, r + 1, 1) = Behind(P, r, p)
<1>1. ASSUME NEW x \in Nat \X (1 .. Len(P)), P[x[2]] = Barrier
      PROVE  /\ x[2] # p
             /\ (x[1] \in 0 .. r /\ (x[1] < r \/ x[2] < p + 1)) <=> (x[1] \in 0 .. r /\ (x[1] < r \/ x[2] < p))
             /\ p = Len(P) =>
                  ((x[1] \in 0 .. r + 1 /\ (x[1] < r + 1 \/ x[2] < 1)) <=> (x[1] \in 0 .. r /\ (x[1] < r \/ x[2] < p)))
  <2>1. x[2] # p /\ x[1] \in Nat /\ x[2] \in 1 .. Len(P)
    BY <1>1
  <2> QED BY <2>1
<1>2. Behind(P, r, p + 1) = Behind(P, r, p)
  <2>1. (0 .. r) \X (1 .. Len(P)) \subseteq Nat \X (1 .. Len(P))
    OBVIOUS
  <2>2. \A x \in (0 .. r) \X (1 .. Len(P)) : x[1] \in 0 .. r
    OBVIOUS
  <2> QED BY <1>1, <2>1, <2>2 DEF Behind
<1>3. ASSUME p = Len(P) PROVE Behind(P, r + 1, 1) = Behind(P, r, p)
  <2>1. \A x \in Behind(P, r + 1, 1) : x \in Nat \X (1 .. Len(P)) /\ P[x[2]] = Barrier /\ x[1] \in 0 .. r + 1
                                       /\ (x[1] < r + 1 \/ x[2] < 1)
    BY DEF Behind
  <2>2. \A x \in Behind(P, r, p) : x \in Nat \X (1 .. Len(P)) /\ P[x[2]] = Barrier /\ x[1] \in 0 .. r
                                       /\ (x[1] < r \/ x[2] < p)
    BY DEF Behind
  <2>3. \A x \in Nat \X (1 .. Len(P)) : x[1] \in 0 .. r => x \in (0 .. r) \X (1 .. Len(P))
    OBVIOUS
  <2>4. \A x \in Nat \X (1 .. Len(P)) : x[1] \in 0 .. r + 1 => x \in (0 .. r + 1) \X (1 .. Len(P))
    OBVIOUS
  <2>5. \A x \in Behind(P, r + 1, 1) : x \in Behind(P, r, p)
    BY <1>1, <1>3, <2>1, <2>3 DEF Behind
  <2>6. \A x \in Behind(P, r, p) : x \in Behind(P, r + 1, 1)
    BY <1>1, <1>3, <2>2, <2>4 DEF Behind
  <2> QED BY <2>5, <2>6
<1> QED BY <1>2, <1>3

(* Between a barrier and the next, a thread is past the one and not past   *)
(* the other.                                                              *)
LEMMA PastBarrier ==
  ASSUME NEW P, Len(P) \in Nat, NEW r \in Nat, NEW p \in 1 .. Len(P), NEW s \in Nat, NEW q \in 1 .. Len(P),
         Behind(P, r, p) = Behind(P, s, q),
         NEW b \in 1 .. Len(P), b < p, P[b] = Barrier
  PROVE  r < s \/ (r = s /\ b < q)
<1>1. <<r, b>> \in Behind(P, r, p)
  BY DEF Behind
<1>2. <<r, b>> \in Behind(P, s, q)
  BY <1>1
<1> QED BY <1>2 DEF Behind

LEMMA Confined ==
  ASSUME NEW P, Len(P) \in Nat, NEW r \in Nat, NEW p \in 1 .. Len(P), NEW s \in Nat, NEW q \in 1 .. Len(P),
         Behind(P, r, p) = Behind(P, s, q),
         NEW b \in 1 .. Len(P), b < p, P[b] = Barrier,
         NEW e \in 1 .. Len(P), p < e, P[e] = Barrier
  PROVE  s = r /\ b < q /\ q <= e
<1>1. r < s \/ (r = s /\ b < q)
  BY PastBarrier
<1>2. <<r, e>> \notin Behind(P, r, p)
  BY DEF Behind
<1>3. <<r, e>> \notin Behind(P, s, q)
  BY <1>2
<1>4. ~(r < s) /\ ~(r = s /\ e < q)
  BY <1>3 DEF Behind
<1> QED BY <1>1, <1>4

(* A round, a partner's read, a combine and a share have their barrier     *)
(* interval for themselves; an offset shares it with a write.              *)
LEMMA Alone ==
  ASSUME NEW P, Shaped(P), NEW r \in Nat, NEW p \in 1 .. Len(P), NEW s \in Nat, NEW q \in 1 .. Len(P),
         Behind(P, r, p) = Behind(P, s, q), P[q] # Barrier
  PROVE  /\ P[p].do \in {"Round", "Partner", "Combine", "Share"} => q = p
         /\ P[p].do = "Offset" => P[q].do \in {"Offset", "Write"}
<1>1. Len(P) \in Nat /\ WellPlaced(P, p)
  BY DEF Shaped
<1>2. ASSUME P[p].do \in {"Round", "Partner", "Combine", "Share"} PROVE q = p
  <2>1. p - 1 \in 1 .. Len(P) /\ p + 1 \in 1 .. Len(P) /\ P[p - 1] = Barrier /\ P[p + 1] = Barrier
    BY <1>1, <1>2 DEF WellPlaced
  <2>2. p - 1 < q /\ q <= p + 1
    <3>1. PICK b, e : b = p - 1 /\ e = p + 1
      OBVIOUS
    <3>2. b \in 1 .. Len(P) /\ b < p /\ P[b] = Barrier /\ e \in 1 .. Len(P) /\ p < e /\ P[e] = Barrier
      BY <2>1, <3>1
    <3> QED BY <1>1, <3>1, <3>2, Confined
  <2>3. q # p + 1
    BY <2>1
  <2> QED BY <2>2, <2>3
<1>3. ASSUME P[p].do = "Offset" PROVE P[q].do \in {"Offset", "Write"}
  <2>1. /\ p - 1 \in 1 .. Len(P) /\ p + 1 \in 1 .. Len(P) /\ p + 2 \in 1 .. Len(P)
        /\ P[p - 1] = Barrier /\ P[p + 1].do = "Write" /\ P[p + 2] = Barrier
    BY <1>1, <1>3 DEF WellPlaced
  <2>2. p - 1 < q /\ q <= p + 2
    <3>1. PICK b, e : b = p - 1 /\ e = p + 2
      OBVIOUS
    <3>2. b \in 1 .. Len(P) /\ b < p /\ P[b] = Barrier /\ e \in 1 .. Len(P) /\ p < e /\ P[e] = Barrier
      BY <2>1, <3>1
    <3> QED BY <1>1, <3>1, <3>2, Confined
  <2>3. q = p \/ q = p + 1
    BY <2>1, <2>2
  <2> QED BY <1>3, <2>1, <2>3
<1> QED BY <1>2, <1>3

(* Two accesses of one slot, made between the same two barriers.           *)
LEMMA NoConflict ==
  ASSUME NEW P, Shaped(P), NEW r \in Nat, NEW p \in 1 .. Len(P), NEW s \in Nat, NEW q \in 1 .. Len(P),
         Behind(P, r, p) = Behind(P, s, q),
         NEW a, NEW b, Made(P[p], a), Made(P[q], b),
         a.by # b.by, a.array = b.array, a.slot = b.slot, a.kind # "Read"
  PROVE  FALSE
<1>1. P[q].do # "Barrier" /\ P[p].do # "Barrier"
  BY DEF Made
<1>2. P[q] # Barrier /\ P[p] # Barrier
  BY <1>1 DEF Barrier, Do
<1>3. Len(P) \in Nat /\ P \in Seq(Statement)
  BY DEF Shaped
<1>4. CASE P[p].do = "Share"
  <2>1. P[p].do \in {"Round", "Partner", "Combine", "Share"}
    BY <1>4
  <2>2. q = p
    BY <1>2, <2>1, Alone
  <2> QED BY <1>4, <2>2 DEF Made
<1>5. CASE P[p].do \in {"Publish", "Combine", "Round"} /\ a.array \in {"partial", "have"} /\ a.slot = a.by
  <2>1. b.array \in {"partial", "have"} /\ b.slot # b.by
    BY <1>5
  <2>2. P[q].do \in {"Partner", "Offset", "Round"} /\ (P[q].do = "Round" => b.slot = b.by + P[q].arg)
    BY <2>1 DEF Made
  <2>3. CASE P[q].do \in {"Partner", "Round"}
    <3>1. p = q
      BY <1>2, <2>3, Alone
    <3>2. P[p].do = "Round" /\ b.slot = b.by + P[p].arg /\ a.by < P[p].arg /\ b.by \in Nat /\ P[p].arg \in Nat
      <4>1. P[p].do = "Round" /\ b.slot = b.by + P[p].arg
        BY <1>5, <2>2, <2>3, <3>1
      <4>2. a.by < P[p].arg
        BY <4>1 DEF Made
      <4>3. b.by \in Nat
        BY <3>1, <4>1, <2>1 DEF Made
      <4>4. P[p].arg \in Nat
        <5>1. P[p] \in Statement
          BY <1>3
        <5> QED BY <5>1 DEF Statement
      <4> QED BY <4>1, <4>2, <4>3, <4>4
    <3>3. a.by = b.by + P[p].arg
      BY <1>5, <3>2
    <3> QED BY <3>2, <3>3
  <2>4. CASE P[q].do = "Offset"
    <3>1. P[p].do \in {"Offset", "Write"}
      BY <1>2, <2>4, Alone
    <3> QED BY <1>5, <3>1
  <2> QED BY <2>2, <2>3, <2>4
<1> QED BY <1>4, <1>5 DEF Made

LEMMA InvNoRace ==
  ASSUME LiftInv
  PROVE  NoRace
<1> DEFINE P == Program
<1>1. Shaped(P)
  BY ProgramShaped DEF LiftInv, LiftTyped
<1>2. ASSUME NEW a \in touched, NEW b \in touched, a.by # b.by, a.array = b.array, a.slot = b.slot
      PROVE  a.kind = "Read" /\ b.kind = "Read"
  <2>1. PICK r \in Nat, p \in 1 .. Len(P) : Made(P[p], a) /\ Behind(P, r, p) = Behind(P, row[0], pc[0])
    BY DEF LiftInv, TouchedHere
  <2>2. PICK s \in Nat, q \in 1 .. Len(P) : Made(P[q], b) /\ Behind(P, s, q) = Behind(P, row[0], pc[0])
    BY DEF LiftInv, TouchedHere
  <2>3. Behind(P, r, p) = Behind(P, s, q) /\ Behind(P, s, q) = Behind(P, r, p)
    BY <2>1, <2>2
  <2> HIDE DEF P
  <2>4. a.kind = "Read"
    BY <1>1, <1>2, <2>1, <2>2, <2>3, NoConflict
  <2>5. b.kind = "Read"
    BY <1>1, <1>2, <2>1, <2>2, <2>3, NoConflict
  <2> QED BY <2>4, <2>5
<1> QED BY <1>2 DEF NoRace

LEMMA InvNeverUnset ==
  ASSUME LiftInv
  PROVE  NeverUnset
<1>1. ASSUME NEW a \in touched
      PROVE  CASE a.array = "partial" -> partial[a.slot] # {}
               [] a.array = "have"    -> partialHave[a.slot] # {}
               [] a.array = "stage"   -> stage[a.slot] # {}
  <2>1. IsSet(a, partial, partialHave, stage)
    BY DEF LiftInv, AllSet
  <2> QED BY <2>1 DEF IsSet
<1> QED BY <1>1 DEF NeverUnset

LEMMA InitLift ==
  ASSUME LiftInit
  PROVE  LiftInv
<1>1. job \in Jobs
  BY DEF LiftInit
<1>2. Shaped(Program) /\ Len(Program) \in Nat /\ Len(Program) > 3
  BY <1>1, ProgramShaped DEF Shaped
<1>3. 0 \in Threads
  BY <1>1, JobFacts
<1>4. \A t \in Threads : pc[t] = 1 /\ row[t] = 0
  BY DEF LiftInit
<1>5. LiftTyped
  BY <1>1, <1>2 DEF LiftInit, LiftTyped
<1>6. Together
  BY <1>4 DEF Together
<1>7. TouchedHere /\ AllSet
  BY DEF LiftInit, TouchedHere, AllSet
<1>8. Published /\ SharedSoFar
  BY <1>3, <1>4 DEF Published, SharedSoFar
<1> QED BY <1>5, <1>6, <1>7, <1>8 DEF LiftInv

-----------------------------------------------------------------------------
(* What a step of a thread does to all this.                               *)
Moves(t) ==
  /\ Program[pc[t]] # Barrier
  /\ job' = job
  /\ IF pc[t] = Len(Program)
       THEN pc' = [pc EXCEPT ![t] = 1] /\ row' = [row EXCEPT ![t] = @ + 1]
       ELSE pc' = [pc EXCEPT ![t] = @ + 1] /\ row' = row

(* Nothing that was stored is unset.                                       *)
Kept ==
  /\ DOMAIN partial' = Threads /\ DOMAIN partialHave' = Threads /\ DOMAIN stage' = 1 .. 2
  /\ \A u \in Threads : /\ partial[u] # {} => partial'[u] # {}
                        /\ partialHave[u] # {} => partialHave'[u] # {}
  /\ \A s \in 1 .. 2 : stage[s] # {} => stage'[s] # {}

(* The statements that store do.                                           *)
Stores(t) ==
  /\ Program[pc[t]] = Do("Publish", 1) => partial'[t] # {} /\ (HasFlag(1) => partialHave'[t] # {})
  /\ (Program[pc[t]].do = "Share" /\ t = 0) => stage'[Program[pc[t]].arg] # {}

Touches(t) ==
  \A a \in touched' :
    a \in touched \/ (Made(Program[pc[t]], a) /\ IsSet(a, partial', partialHave', stage'))

Effect(t) == Moves(t) /\ Kept /\ Stores(t) /\ Touches(t)

LEMMA StatementFacts ==
  ASSUME LiftInv, NEW t \in Threads
  PROVE  /\ Shaped(Program) /\ Len(Program) \in Nat
         /\ Program[pc[t]] \in Statement /\ WellPlaced(Program, pc[t])
<1>1. Shaped(Program)
  BY ProgramShaped DEF LiftInv, LiftTyped
<1>2. pc[t] \in 1 .. Len(Program)
  BY DEF LiftInv, LiftTyped
<1>3. Program \in Seq(Statement)
  BY <1>1 DEF Shaped
<1>4. Program[pc[t]] \in Statement
  BY <1>2, <1>3
<1> QED BY <1>1, <1>2, <1>3, <1>4 DEF Shaped

LEMMA DoingMoves ==
  ASSUME NEW t, NEW what, what # "Barrier", Doing(t, what)
  PROVE  Moves(t) /\ Program[pc[t]].do = what
<1>1. Program[pc[t]].do = what
  BY DEF Doing
<1>2. Program[pc[t]] # Barrier
  BY <1>1 DEF Barrier, Do
<1> QED BY <1>1, <1>2 DEF Doing, Moves

(* Only the first stage has flags.                                         *)
LEMMA FlagOfFirst ==
  ASSUME NEW s, HasFlag(s)
  PROVE  HasFlag(1)
BY DEF HasFlag, OpOf

LEMMA TotalsAre ==
  ASSUME NEW t, NEW slot, NEW kind, NEW s, NEW a \in Totals(t, slot, kind, s)
  PROVE  /\ a.by = t /\ a.slot = slot /\ a.kind = kind
         /\ a.array \in {"partial", "have"} /\ (a.array = "have" => HasFlag(s))
BY DEF Totals, Access

LEMMA PublishesKeeps ==
  ASSUME LiftInv, NEW t \in Threads, NEW s, NEW value, NEW held, Publishes(t, s, value, held)
  PROVE  /\ Kept
         /\ t \in DOMAIN partial' /\ partial'[t] # {}
         /\ t \in DOMAIN partialHave' /\ (HasFlag(s) => partialHave'[t] # {})
<1>1. DOMAIN partial = Threads /\ DOMAIN partialHave = Threads /\ DOMAIN stage = 1 .. 2
  BY DEF LiftInv, LiftTyped
<1>2. /\ DOMAIN partial' = Threads /\ partial'[t] = {value}
      /\ \A u \in Threads : u # t => partial'[u] = partial[u]
  BY <1>1 DEF Publishes
<1>3. CASE HasFlag(s)
  <2>1. /\ DOMAIN partialHave' = Threads /\ partialHave'[t] = {held}
        /\ \A u \in Threads : u # t => partialHave'[u] = partialHave[u]
    BY <1>1, <1>3 DEF Publishes
  <2> QED BY <1>1, <1>2, <2>1 DEF Publishes, Kept
<1>4. CASE ~HasFlag(s)
  <2>1. partialHave' = partialHave
    BY <1>4 DEF Publishes
  <2> QED BY <1>1, <1>2, <1>4, <2>1 DEF Publishes, Kept
<1> QED BY <1>3, <1>4

LEMMA SharedKept ==
  ASSUME LiftInv, UNCHANGED shared
  PROVE  Kept
BY DEF LiftInv, LiftTyped, shared, Kept

(* Who reads a published total is past the barrier that everyone has       *)
(* published before, ...                                                   *)
LEMMA ReadsPublished ==
  ASSUME LiftInv, NEW t \in Threads, Program[pc[t]].do \in {"Round", "Partner", "Offset"}, NEW u \in Threads
  PROVE  partial[u] # {} /\ (HasFlag(1) => partialHave[u] # {})
<1> DEFINE P == Program
<1>1. Shaped(P) /\ Len(P) \in Nat /\ WellPlaced(P, pc[t])
  BY StatementFacts
<1>2. /\ row[t] \in Nat /\ pc[t] \in 1 .. Len(P) /\ row[u] \in Nat /\ pc[u] \in 1 .. Len(P)
      /\ Behind(P, row[t], pc[t]) = Behind(P, row[u], pc[u])
  BY DEF LiftInv, LiftTyped, Together
<1>3. pc[t] > 3
  BY <1>1 DEF WellPlaced
<1>4. P[3] = Barrier /\ 3 \in 1 .. Len(P)
  BY <1>1 DEF Shaped
<1> HIDE DEF P
<1>5. row[t] < row[u] \/ (row[t] = row[u] /\ 3 < pc[u])
  BY <1>1, <1>2, <1>3, <1>4, PastBarrier
<1>6. row[u] > 0 \/ pc[u] > 2
  BY <1>2, <1>5
<1> QED BY <1>6 DEF LiftInv, Published

(* ... and who takes a stage's result is past the one thread 0 shared it   *)
(* before.                                                                 *)
LEMMA TakesShared ==
  ASSUME LiftInv, NEW t \in Threads, Program[pc[t]].do = "Take"
  PROVE  Program[pc[t]].arg \in 1 .. 2 /\ stage[Program[pc[t]].arg] # {}
<1> DEFINE P == Program
<1>1. Shaped(P) /\ Len(P) \in Nat /\ WellPlaced(P, pc[t])
  BY StatementFacts
<1>2. 0 \in Threads
  BY JobFacts DEF LiftInv, LiftTyped
<1>3. /\ row[t] \in Nat /\ pc[t] \in 1 .. Len(P) /\ row[0] \in Nat /\ pc[0] \in 1 .. Len(P)
      /\ Behind(P, row[t], pc[t]) = Behind(P, row[0], pc[0])
  BY <1>2 DEF LiftInv, LiftTyped, Together
<1>4. /\ pc[t] > 3 /\ P[pc[t] - 1] = Barrier /\ P[pc[t] - 2] = Do("Share", P[pc[t]].arg)
      /\ P[pc[t]].arg \in {1, 2}
  BY <1>1 DEF WellPlaced
<1> HIDE DEF P
<1>5. PICK b, q : b = pc[t] - 1 /\ q = pc[t] - 2
  OBVIOUS
<1>6. b \in 1 .. Len(P) /\ b < pc[t] /\ P[b] = Barrier /\ q \in 1 .. Len(P) /\ q < b
  BY <1>1, <1>3, <1>4, <1>5
<1>7. row[t] < row[0] \/ (row[t] = row[0] /\ b < pc[0])
  BY <1>1, <1>3, <1>6, PastBarrier
<1>8. row[0] > 0 \/ pc[0] > q
  BY <1>3, <1>6, <1>7
<1>9. P[q].do = "Share" /\ P[q].arg = P[pc[t]].arg
  BY <1>4, <1>5 DEF Do
<1>10. stage[P[q].arg] # {}
  BY <1>6, <1>8, <1>9 DEF LiftInv, SharedSoFar, P
<1> QED BY <1>4, <1>9, <1>10 DEF P

-----------------------------------------------------------------------------
(* Each action of a thread has that effect.                                *)

LEMMA QuietEffect ==
  ASSUME LiftInv, NEW t \in Threads, Moves(t), UNCHANGED <<shared, touched>>,
         Program[pc[t]].do \notin {"Publish", "Share"}
  PROVE  Effect(t)
<1>1. Kept
  BY SharedKept
<1>2. Stores(t)
  <2>1. Program[pc[t]] # Do("Publish", 1)
    BY DEF Do
  <2> QED BY <2>1 DEF Stores
<1>3. Touches(t)
  BY DEF Touches
<1> QED BY <1>1, <1>2, <1>3 DEF Effect

LEMMA PublishEffect ==
  ASSUME LiftInv, NEW t \in Threads, Publish(t)
  PROVE  Effect(t)
<1> DEFINE s == Arg(t)
<1>1. Moves(t) /\ Program[pc[t]].do = "Publish"
  BY DoingMoves DEF Publish
<1>2. Publishes(t, s, acc[t], have[t]) /\ touched' = touched \cup Totals(t, t, "Write", s)
  BY DEF Publish
<1> HIDE DEF s
<1>3. /\ Kept
      /\ t \in DOMAIN partial' /\ partial'[t] # {}
      /\ t \in DOMAIN partialHave' /\ (HasFlag(s) => partialHave'[t] # {})
  BY <1>2, PublishesKeeps
<1>4. Stores(t)
  <2>1. Program[pc[t]] = Do("Publish", 1) => s = 1
    BY DEF Do, s, Arg
  <2> QED BY <1>1, <1>3, <2>1 DEF Stores
<1>5. ASSUME NEW a \in touched', a \notin touched
      PROVE  Made(Program[pc[t]], a) /\ IsSet(a, partial', partialHave', stage')
  <2>1. a \in Totals(t, t, "Write", s)
    BY <1>2, <1>5
  <2>2. /\ a.by = t /\ a.slot = t /\ a.kind = "Write"
        /\ a.array \in {"partial", "have"} /\ (a.array = "have" => HasFlag(s))
    BY <2>1, TotalsAre
  <2> QED BY <1>1, <1>3, <2>2 DEF Made, IsSet
<1>6. Touches(t)
  BY <1>5 DEF Touches
<1> QED BY <1>1, <1>3, <1>4, <1>6 DEF Effect

LEMMA RoundEffect ==
  ASSUME LiftInv, NEW t \in Threads, Round(t)
  PROVE  Effect(t)
<1> DEFINE s == StageOf(t)
           from == t + Arg(t)
           joins == Carries(s, from)
           value == IF joins THEN Combined(s, have[t], acc[t], Loaded(partial[from], <<>>)) ELSE acc[t]
           held == have[t] \/ (HasFlag(s) /\ joins)
<1>1. Moves(t) /\ Program[pc[t]].do = "Round"
  BY DoingMoves DEF Round
<1>2. CASE t < Arg(t)
  <2>1. /\ Publishes(t, s, value, held)
        /\ touched' = touched \cup Totals(t, from, "Read", s) \cup Totals(t, t, "Write", s)
    BY <1>2 DEF Round
  <2> HIDE DEF s, joins, value, held
  <2>2. /\ Kept
        /\ t \in DOMAIN partial' /\ partial'[t] # {}
        /\ t \in DOMAIN partialHave' /\ (HasFlag(s) => partialHave'[t] # {})
    BY <2>1, PublishesKeeps
  <2>3. from \in Threads /\ t \in Nat /\ from = t + Program[pc[t]].arg /\ t < Program[pc[t]].arg
    <3>1. Program[pc[t]] \in Statement /\ WellPlaced(Program, pc[t])
      BY StatementFacts
    <3>2. Arg(t) = Program[pc[t]].arg /\ Arg(t) \in Nat /\ 2 * Arg(t) <= job.block
      BY <1>1, <3>1 DEF Arg, Statement, WellPlaced
    <3>3. job.block \in Nat
      BY JobFacts DEF LiftInv, LiftTyped
    <3> QED BY <1>2, <3>2, <3>3 DEF Threads
  <2>4. partial[from] # {} /\ (HasFlag(s) => partialHave[from] # {})
    <3>1. partial[from] # {} /\ (HasFlag(1) => partialHave[from] # {})
      BY <1>1, <2>3, ReadsPublished
    <3> QED BY <3>1, FlagOfFirst
  <2>5. /\ from \in DOMAIN partial' /\ partial'[from] # {}
        /\ from \in DOMAIN partialHave' /\ (HasFlag(s) => partialHave'[from] # {})
    BY <2>2, <2>3, <2>4 DEF Kept
  <2>6. Stores(t)
    BY <1>1 DEF Stores, Do
  <2>7. ASSUME NEW a \in touched', a \notin touched
        PROVE  Made(Program[pc[t]], a) /\ IsSet(a, partial', partialHave', stage')
    <3>1. CASE a \in Totals(t, t, "Write", s)
      <4>1. /\ a.by = t /\ a.slot = t /\ a.kind = "Write"
            /\ a.array \in {"partial", "have"} /\ (a.array = "have" => HasFlag(s))
        BY <3>1, TotalsAre
      <4>2. Made(Program[pc[t]], a)
        BY <1>1, <2>3, <4>1 DEF Made
      <4> QED BY <2>2, <4>1, <4>2 DEF IsSet
    <3>2. CASE a \in Totals(t, from, "Read", s)
      <4> HIDE DEF from
      <4>1. /\ a.by = t /\ a.slot = from /\ a.kind = "Read"
            /\ a.array \in {"partial", "have"} /\ (a.array = "have" => HasFlag(s))
        BY <3>2, TotalsAre
      <4>2. Made(Program[pc[t]], a)
        BY <1>1, <2>3, <4>1 DEF Made
      <4> QED BY <2>5, <4>1, <4>2 DEF IsSet
    <3> QED BY <2>1, <2>7, <3>1, <3>2
  <2>8. Touches(t)
    BY <2>7 DEF Touches
  <2> QED BY <1>1, <2>2, <2>6, <2>8 DEF Effect
<1>3. CASE ~(t < Arg(t))
  <2>1. UNCHANGED <<shared, touched>>
    BY <1>3 DEF Round
  <2>2. Program[pc[t]].do \notin {"Publish", "Share"}
    BY <1>1
  <2> QED BY <1>1, <2>1, <2>2, QuietEffect
<1> QED BY <1>2, <1>3

LEMMA PartnerEffect ==
  ASSUME LiftInv, NEW t \in Threads, Partner(t)
  PROVE  Effect(t)
<1>1. Moves(t) /\ Program[pc[t]].do = "Partner"
  BY DoingMoves DEF Partner
<1>2. UNCHANGED shared
  BY DEF Partner
<1>3. Kept
  BY <1>2, SharedKept
<1>4. Stores(t)
  BY <1>1 DEF Stores, Do
<1>5. ASSUME NEW a \in touched', a \notin touched
      PROVE  Made(Program[pc[t]], a) /\ IsSet(a, partial', partialHave', stage')
  <2>1. t >= Arg(t) /\ a = Access(t, "partial", t - Arg(t), "Read")
    BY <1>5 DEF Partner
  <2>2. Arg(t) \in Nat /\ t - Arg(t) \in Threads
    <3>1. Program[pc[t]] \in Statement
      BY StatementFacts
    <3>2. Arg(t) \in Nat
      BY <3>1 DEF Arg, Statement
    <3>3. job.block \in Nat
      BY JobFacts DEF LiftInv, LiftTyped
    <3> QED BY <2>1, <3>2, <3>3 DEF Threads
  <2>3. PICK u \in Threads : u = t - Arg(t)
    BY <2>2
  <2>4. partial[u] # {}
    BY <1>1, ReadsPublished
  <2>5. a.array = "partial" /\ a.slot = u /\ a.kind = "Read"
    BY <2>1, <2>3 DEF Access
  <2>6. u \in DOMAIN partial' /\ partial'[u] # {}
    BY <1>3, <2>4 DEF Kept
  <2> QED BY <1>1, <2>5, <2>6 DEF Made, IsSet
<1>6. Touches(t)
  BY <1>5 DEF Touches
<1> QED BY <1>1, <1>3, <1>4, <1>6 DEF Effect

LEMMA CombineEffect ==
  ASSUME LiftInv, NEW t \in Threads, Combine(t)
  PROVE  Effect(t)
<1> DEFINE value == Combined(1, have[t], acc[t], partner[t])
           held == have[t] \/ HasFlag(1)
<1>1. Moves(t) /\ Program[pc[t]].do = "Combine"
  BY DoingMoves DEF Combine
<1>2. CASE t >= Arg(t)
  <2>1. Publishes(t, 1, value, held) /\ touched' = touched \cup Totals(t, t, "Write", 1)
    BY <1>2 DEF Combine
  <2> HIDE DEF value, held
  <2>2. /\ Kept
        /\ t \in DOMAIN partial' /\ partial'[t] # {}
        /\ t \in DOMAIN partialHave' /\ (HasFlag(1) => partialHave'[t] # {})
    BY <2>1, PublishesKeeps
  <2>3. Stores(t)
    BY <1>1 DEF Stores, Do
  <2>4. ASSUME NEW a \in touched', a \notin touched
        PROVE  Made(Program[pc[t]], a) /\ IsSet(a, partial', partialHave', stage')
    <3>1. a \in Totals(t, t, "Write", 1)
      BY <2>1, <2>4
    <3>2. /\ a.by = t /\ a.slot = t /\ a.kind = "Write"
          /\ a.array \in {"partial", "have"} /\ (a.array = "have" => HasFlag(1))
      BY <3>1, TotalsAre
    <3> QED BY <1>1, <2>2, <3>2 DEF Made, IsSet
  <2>5. Touches(t)
    BY <2>4 DEF Touches
  <2> QED BY <1>1, <2>2, <2>3, <2>5 DEF Effect
<1>3. CASE ~(t >= Arg(t))
  <2>1. UNCHANGED <<shared, touched>>
    BY <1>3 DEF Combine
  <2>2. Program[pc[t]].do \notin {"Publish", "Share"}
    BY <1>1
  <2> QED BY <1>1, <2>1, <2>2, QuietEffect
<1> QED BY <1>2, <1>3

LEMMA OffsetEffect ==
  ASSUME LiftInv, NEW t \in Threads, Offset(t)
  PROVE  Effect(t)
<1>1. Moves(t) /\ Program[pc[t]].do = "Offset"
  BY DoingMoves DEF Offset
<1>2. UNCHANGED shared
  BY DEF Offset
<1>3. Kept
  BY <1>2, SharedKept
<1>4. Stores(t)
  BY <1>1 DEF Stores, Do
<1>5. ASSUME NEW a \in touched', a \notin touched
      PROVE  Made(Program[pc[t]], a) /\ IsSet(a, partial', partialHave', stage')
  <2>1. t # 0 /\ a \in Totals(t, t - 1, "Read", 1)
    BY <1>5 DEF Offset
  <2>2. t - 1 \in Threads
    <3>1. job.block \in Nat
      BY JobFacts DEF LiftInv, LiftTyped
    <3> QED BY <2>1, <3>1 DEF Threads
  <2>3. PICK u \in Threads : u = t - 1
    BY <2>2
  <2>4. partial[u] # {} /\ (HasFlag(1) => partialHave[u] # {})
    BY <1>1, ReadsPublished
  <2>5. a \in Totals(t, u, "Read", 1)
    BY <2>1, <2>3
  <2>6. /\ a.slot = u /\ a.kind = "Read"
        /\ a.array \in {"partial", "have"} /\ (a.array = "have" => HasFlag(1))
    BY <2>5, TotalsAre
  <2>7. /\ u \in DOMAIN partial' /\ partial'[u] # {}
        /\ u \in DOMAIN partialHave' /\ (HasFlag(1) => partialHave'[u] # {})
    BY <1>3, <2>4 DEF Kept
  <2> QED BY <1>1, <2>6, <2>7 DEF Made, IsSet
<1>6. Touches(t)
  BY <1>5 DEF Touches
<1> QED BY <1>1, <1>3, <1>4, <1>6 DEF Effect

LEMMA ShareEffect ==
  ASSUME LiftInv, NEW t \in Threads, Share(t)
  PROVE  Effect(t)
<1>1. Moves(t) /\ Program[pc[t]].do = "Share"
  BY DoingMoves DEF Share
<1>2. Arg(t) \in 1 .. 2 /\ Arg(t) = Program[pc[t]].arg
  <2>1. WellPlaced(Program, pc[t])
    BY StatementFacts
  <2> QED BY <1>1, <2>1 DEF WellPlaced, Arg
<1>3. DOMAIN partial = Threads /\ DOMAIN partialHave = Threads /\ DOMAIN stage = 1 .. 2
  BY DEF LiftInv, LiftTyped
<1>4. partial' = partial /\ partialHave' = partialHave
  BY DEF Share
<1>5. CASE t = 0
  <2>1. /\ stage' = [stage EXCEPT ![Arg(t)] = {acc[t]}]
        /\ touched' = touched \cup {Access(t, "stage", Arg(t), "Write")}
    BY <1>5 DEF Share
  <2>2. /\ DOMAIN stage' = 1 .. 2 /\ stage'[Arg(t)] # {}
        /\ \A s \in 1 .. 2 : stage[s] # {} => stage'[s] # {}
    BY <1>2, <1>3, <2>1
  <2>3. Kept
    BY <1>3, <1>4, <2>2 DEF Kept
  <2>4. Stores(t)
    BY <1>1, <1>2, <2>2 DEF Stores, Do
  <2>5. Touches(t)
    <3>1. ASSUME NEW a \in touched', a \notin touched
          PROVE  Made(Program[pc[t]], a) /\ IsSet(a, partial', partialHave', stage')
      <4>1. a = Access(t, "stage", Arg(t), "Write")
        BY <2>1, <3>1
      <4>2. a.by = 0 /\ a.array = "stage" /\ a.slot = Arg(t)
        BY <1>5, <4>1 DEF Access
      <4> QED BY <1>1, <1>2, <2>2, <4>2 DEF Made, IsSet
    <3> QED BY <3>1 DEF Touches
  <2> QED BY <1>1, <2>3, <2>4, <2>5 DEF Effect
<1>6. CASE t # 0
  <2>1. stage' = stage /\ touched' = touched
    BY <1>6 DEF Share
  <2>2. Kept
    BY <1>3, <1>4, <2>1 DEF Kept
  <2>3. Stores(t)
    BY <1>1, <1>6 DEF Stores, Do
  <2>4. Touches(t)
    BY <2>1 DEF Touches
  <2> QED BY <1>1, <2>2, <2>3, <2>4 DEF Effect
<1> QED BY <1>5, <1>6

LEMMA TakeEffect ==
  ASSUME LiftInv, NEW t \in Threads, Take(t)
  PROVE  Effect(t)
<1>1. Moves(t) /\ Program[pc[t]].do = "Take"
  BY DoingMoves DEF Take
<1>2. UNCHANGED shared
  BY DEF Take
<1>3. Kept
  BY <1>2, SharedKept
<1>4. Stores(t)
  BY <1>1 DEF Stores, Do
<1>5. Program[pc[t]].arg \in 1 .. 2 /\ stage[Program[pc[t]].arg] # {}
  BY <1>1, TakesShared
<1>6. Touches(t)
  <2>1. ASSUME NEW a \in touched', a \notin touched
        PROVE  Made(Program[pc[t]], a) /\ IsSet(a, partial', partialHave', stage')
    <3>1. a = Access(t, "stage", Arg(t), "Read")
      BY <2>1 DEF Take
    <3>2. a.array = "stage" /\ a.slot = Program[pc[t]].arg /\ a.kind = "Read"
      BY <3>1 DEF Access, Arg
    <3>3. a.slot \in DOMAIN stage' /\ stage'[a.slot] # {}
      BY <1>3, <1>5, <3>2 DEF Kept
    <3> QED BY <1>1, <3>2, <3>3 DEF Made, IsSet
  <2> QED BY <2>1 DEF Touches
<1> QED BY <1>1, <1>3, <1>4, <1>6 DEF Effect

LEMMA StepEffect ==
  ASSUME LiftInv, NEW t \in Threads, LiftStep(t)
  PROVE  Effect(t)
<1>1. CASE Slice(t)
  <2>1. Moves(t) /\ Program[pc[t]].do \notin {"Publish", "Share"} /\ UNCHANGED <<shared, touched>>
    BY <1>1, DoingMoves DEF Slice
  <2> QED BY <2>1, QuietEffect
<1>2. CASE Chunk(t)
  <2>1. Moves(t) /\ Program[pc[t]].do \notin {"Publish", "Share"} /\ UNCHANGED <<shared, touched>>
    BY <1>2, DoingMoves DEF Chunk
  <2> QED BY <2>1, QuietEffect
<1>3. CASE Write(t)
  <2>1. Moves(t) /\ Program[pc[t]].do \notin {"Publish", "Share"} /\ UNCHANGED <<shared, touched>>
    BY <1>3, DoingMoves DEF Write
  <2> QED BY <2>1, QuietEffect
<1>4. CASE Store(t)
  <2>1. Moves(t) /\ Program[pc[t]].do \notin {"Publish", "Share"} /\ UNCHANGED <<shared, touched>>
    BY <1>4, DoingMoves DEF Store
  <2> QED BY <2>1, QuietEffect
<1>5. CASE Epilogue(t)
  <2>1. Moves(t) /\ Program[pc[t]].do \notin {"Publish", "Share"} /\ UNCHANGED <<shared, touched>>
    BY <1>5, DoingMoves DEF Epilogue
  <2> QED BY <2>1, QuietEffect
<1> QED BY <1>1, <1>2, <1>3, <1>4, <1>5, PublishEffect, RoundEffect, PartnerEffect, CombineEffect,
           OffsetEffect, ShareEffect, TakeEffect DEF LiftStep

-----------------------------------------------------------------------------
(* The effect keeps the invariant.                                         *)
LEMMA EffectKeeps ==
  ASSUME LiftInv, NEW t \in Threads, Effect(t)
  PROVE  LiftInv'
<1> DEFINE P == Program
<1>1. job' = job /\ Program' = P /\ Threads' = Threads /\ HasFlag(1)' = HasFlag(1)
  <2>1. job' = job
    BY DEF Effect, Moves
  <2>2. Program' = P
    BY <2>1 DEF Program, Threads, OpOf, HasFlag, Stage, ScanRow, Rounds, TotalsScan, Levels
  <2>3. Threads' = Threads /\ HasFlag(1)' = HasFlag(1)
    BY <2>1 DEF Threads, HasFlag, OpOf
  <2> QED BY <2>1, <2>2, <2>3
<1>2. Shaped(P) /\ Len(P) \in Nat /\ Len(P) > 3
  BY StatementFacts DEF Shaped
<1>3. pc \in [Threads -> 1 .. Len(P)] /\ row \in [Threads -> Nat] /\ job \in Jobs
  BY DEF LiftInv, LiftTyped
<1>4. 0 \in Threads
  BY <1>3, JobFacts
<1>5. /\ P[pc[t]] # Barrier
      /\ IF pc[t] = Len(P)
           THEN pc' = [pc EXCEPT ![t] = 1] /\ row' = [row EXCEPT ![t] = @ + 1]
           ELSE pc' = [pc EXCEPT ![t] = @ + 1] /\ row' = row
      /\ Kept
  BY DEF Effect, Moves
<1> HIDE DEF P
<1>6. pc' \in [Threads -> 1 .. Len(P)] /\ row' \in [Threads -> Nat]
  BY <1>2, <1>3, <1>5
<1>7. ASSUME NEW u \in Threads
      PROVE  Behind(P, row'[u], pc'[u]) = Behind(P, row[u], pc[u])
  <2>1. CASE u # t
    <3>1. row'[u] = row[u] /\ pc'[u] = pc[u]
      BY <1>3, <1>5, <2>1
    <3> QED BY <3>1
  <2>2. CASE u = t /\ pc[t] = Len(P)
    <3>1. row'[u] = row[t] + 1 /\ pc'[u] = 1
      BY <1>3, <1>5, <2>2
    <3>2. row[t] \in Nat /\ pc[t] \in 1 .. Len(P)
      BY <1>3
    <3>3. Behind(P, row[t] + 1, 1) = Behind(P, row[t], pc[t])
      BY <1>2, <1>5, <2>2, <3>2, PastNoBarrier
    <3> QED BY <2>2, <3>1, <3>3
  <2>3. CASE u = t /\ pc[t] # Len(P)
    <3>1. row'[u] = row[t] /\ pc'[u] = pc[t] + 1
      BY <1>3, <1>5, <2>3
    <3>2. row[t] \in Nat /\ pc[t] \in 1 .. Len(P)
      BY <1>3
    <3>3. Behind(P, row[t], pc[t] + 1) = Behind(P, row[t], pc[t])
      BY <1>2, <1>5, <3>2, PastNoBarrier
    <3> QED BY <2>3, <3>1, <3>3
  <2> QED BY <2>1, <2>2, <2>3
<1>8. LiftTyped'
  BY <1>1, <1>3, <1>5, <1>6 DEF LiftTyped, Kept
<1>9. Together'
  <2>1. \A u, v \in Threads : Behind(P, row'[u], pc'[u]) = Behind(P, row'[v], pc'[v])
    BY <1>7 DEF LiftInv, Together, P
  <2> QED BY <1>1, <2>1 DEF Together
<1>10. TouchedHere'
  <2>1. Behind(P, row'[0], pc'[0]) = Behind(P, row[0], pc[0])
    BY <1>4, <1>7
  <2>2. ASSUME NEW a \in touched'
        PROVE  \E r \in Nat, p \in 1 .. Len(P) : Made(P[p], a) /\ Behind(P, r, p) = Behind(P, row'[0], pc'[0])
    <3>1. CASE a \in touched
      BY <2>1, <3>1 DEF LiftInv, TouchedHere, P
    <3>2. CASE a \notin touched
      <4>1. Made(P[pc[t]], a)
        BY <3>2 DEF Effect, Touches, P
      <4>2. Behind(P, row[t], pc[t]) = Behind(P, row[0], pc[0])
        BY <1>4 DEF LiftInv, Together, P
      <4> QED BY <1>3, <2>1, <4>1, <4>2
    <3> QED BY <3>1, <3>2
  <2> QED BY <1>1, <2>2 DEF TouchedHere
<1>11. AllSet'
  <2>1. ASSUME NEW a \in touched' PROVE IsSet(a, partial', partialHave', stage')
    <3>1. CASE a \in touched
      <4>1. IsSet(a, partial, partialHave, stage)
        BY <3>1 DEF LiftInv, AllSet
      <4>2. DOMAIN partial = Threads /\ DOMAIN partialHave = Threads /\ DOMAIN stage = 1 .. 2
        BY DEF LiftInv, LiftTyped
      <4> QED BY <1>5, <4>1, <4>2 DEF IsSet, Kept
    <3>2. CASE a \notin touched
      BY <3>2 DEF Effect, Touches
    <3> QED BY <3>1, <3>2
  <2> QED BY <2>1 DEF AllSet
<1>12. ASSUME NEW u \in Threads, row'[u] > 0 \/ pc'[u] > 2
       PROVE  partial'[u] # {} /\ (HasFlag(1) => partialHave'[u] # {})
  <2>1. CASE row[u] > 0 \/ pc[u] > 2
    <3>1. partial[u] # {} /\ (HasFlag(1) => partialHave[u] # {})
      BY <2>1 DEF LiftInv, Published
    <3> QED BY <1>5, <3>1 DEF Kept
  <2>2. CASE ~(row[u] > 0 \/ pc[u] > 2)
    <3>1. u = t /\ pc[t] = 2
      <4>1. u = t
        BY <1>3, <1>5, <1>12, <2>2
      <4>2. pc[t] # Len(P)
        BY <1>2, <2>2, <4>1
      <4>3. row'[t] = row[t] /\ pc'[t] = pc[t] + 1 /\ pc[t] \in Nat
        BY <1>3, <1>5, <4>2
      <4> QED BY <1>12, <2>2, <4>1, <4>3
    <3>2. P[2] = Do("Publish", 1)
      BY <1>2 DEF Shaped
    <3> QED BY <3>1, <3>2 DEF Effect, Stores, P
  <2> QED BY <2>1, <2>2
<1>13. Published'
  BY <1>1, <1>12 DEF Published
<1>14. ASSUME NEW q \in 1 .. Len(P), P[q].do = "Share", row'[0] > 0 \/ pc'[0] > q
       PROVE  stage'[P[q].arg] # {}
  <2>1. P[q].arg \in 1 .. 2 /\ q < Len(P)
    BY <1>2, <1>14 DEF Shaped, WellPlaced
  <2>2. CASE row[0] > 0 \/ pc[0] > q
    <3>1. stage[P[q].arg] # {}
      BY <1>14, <2>2 DEF LiftInv, SharedSoFar, P
    <3> QED BY <1>5, <2>1, <3>1 DEF Kept
  <2>3. CASE ~(row[0] > 0 \/ pc[0] > q)
    <3>1. t = 0
      BY <1>3, <1>4, <1>5, <1>14, <2>3
    <3>2. pc[0] # Len(P)
      BY <1>2, <2>1, <2>3
    <3>3. row'[0] = row[0] /\ pc'[0] = pc[0] + 1 /\ pc[0] \in Nat
      BY <1>3, <1>4, <1>5, <3>1, <3>2
    <3>4. pc[0] = q
      BY <1>14, <2>3, <3>3
    <3> QED BY <1>14, <3>1, <3>4 DEF Effect, Stores, P
  <2> QED BY <2>2, <2>3
<1>15. SharedSoFar'
  BY <1>1, <1>14 DEF SharedSoFar
<1> QED BY <1>8, <1>9, <1>10, <1>11, <1>13, <1>15 DEF LiftInv

(* So does a barrier: everyone goes past it, and nothing is on record.     *)
LEMMA MeetKeeps ==
  ASSUME LiftInv, Meet
  PROVE  LiftInv'
<1> DEFINE P == Program
<1>1. job' = job /\ Program' = P /\ Threads' = Threads /\ HasFlag(1)' = HasFlag(1)
  <2>1. job' = job
    BY DEF Meet
  <2>2. Program' = P
    BY <2>1 DEF Program, Threads, OpOf, HasFlag, Stage, ScanRow, Rounds, TotalsScan, Levels
  <2>3. Threads' = Threads /\ HasFlag(1)' = HasFlag(1)
    BY <2>1 DEF Threads, HasFlag, OpOf
  <2> QED BY <2>1, <2>2, <2>3
<1>2. 0 \in Threads /\ job \in Jobs
  BY JobFacts DEF LiftInv, LiftTyped
<1>3. Shaped(P) /\ Len(P) \in Nat /\ Len(P) > 3
  BY <1>2, StatementFacts DEF Shaped
<1>4. pc \in [Threads -> 1 .. Len(P)] /\ row \in [Threads -> Nat]
  BY DEF LiftInv, LiftTyped
<1>5. /\ \A t \in Threads : pc[t] = pc[0] /\ row[t] = row[0]
      /\ P[pc[0]] = Barrier /\ touched' = {}
      /\ IF pc[0] = Len(P)
           THEN pc' = [t \in Threads |-> 1] /\ row' = [t \in Threads |-> row[t] + 1]
           ELSE pc' = [t \in Threads |-> pc[t] + 1] /\ row' = row
      /\ partial' = partial /\ partialHave' = partialHave /\ stage' = stage
  BY DEF Meet, shared
<1> HIDE DEF P
<1>6. pc' \in [Threads -> 1 .. Len(P)] /\ row' \in [Threads -> Nat]
  BY <1>2, <1>3, <1>4, <1>5
<1>7. LiftTyped'
  BY <1>1, <1>2, <1>5, <1>6 DEF LiftInv, LiftTyped
<1>8. Together'
  <2>1. \A u \in Threads : pc'[u] = pc'[0] /\ row'[u] = row'[0]
    BY <1>2, <1>5
  <2>2. \A u, v \in Threads : Behind(P, row'[u], pc'[u]) = Behind(P, row'[v], pc'[v])
    BY <2>1
  <2> QED BY <1>1, <2>2 DEF Together
<1>9. TouchedHere' /\ AllSet'
  BY <1>5 DEF TouchedHere, AllSet
<1>10. ASSUME NEW u \in Threads, row'[u] > 0 \/ pc'[u] > 2
       PROVE  partial'[u] # {} /\ (HasFlag(1) => partialHave'[u] # {})
  <2>1. P[2] # Barrier
    BY <1>3 DEF Shaped, Barrier, Do
  <2>2. pc[u] # 2
    BY <1>5, <2>1
  <2>3. row[u] > 0 \/ pc[u] > 2
    BY <1>2, <1>3, <1>4, <1>5, <1>10, <2>2
  <2> QED BY <1>5, <2>3 DEF LiftInv, Published
<1>11. Published'
  BY <1>1, <1>10 DEF Published
<1>12. ASSUME NEW q \in 1 .. Len(P), P[q].do = "Share", row'[0] > 0 \/ pc'[0] > q
       PROVE  stage'[P[q].arg] # {}
  <2>1. q < Len(P)
    BY <1>3, <1>12 DEF Shaped, WellPlaced
  <2>2. pc[0] # q
    BY <1>5, <1>12 DEF Barrier, Do
  <2>3. row[0] > 0 \/ pc[0] > q
    BY <1>2, <1>3, <1>4, <1>5, <1>12, <2>1, <2>2
  <2> QED BY <1>5, <1>12, <2>3 DEF LiftInv, SharedSoFar, P
<1>13. SharedSoFar'
  BY <1>1, <1>12 DEF SharedSoFar
<1> QED BY <1>7, <1>8, <1>9, <1>11, <1>13 DEF LiftInv

LEMMA NextKeeps ==
  ASSUME LiftInv, [LiftNext]_liftVars
  PROVE  LiftInv'
<1>1. CASE LiftNext
  BY <1>1, StepEffect, EffectKeeps, MeetKeeps DEF LiftNext
<1>2. CASE UNCHANGED liftVars
  <2>1. /\ job' = job /\ pc' = pc /\ row' = row /\ touched' = touched
        /\ partial' = partial /\ partialHave' = partialHave /\ stage' = stage
    BY <1>2 DEF liftVars, shared
  <2>2. Program' = Program
    BY <2>1 DEF Program, Threads, HasFlag, OpOf, Stage, ScanRow, Rounds, TotalsScan, Levels
  <2>3. Threads' = Threads /\ HasFlag(1)' = HasFlag(1)
    BY <2>1 DEF Threads, HasFlag, OpOf
  <2> QED BY <2>1, <2>2, <2>3 DEF LiftInv, LiftTyped, Together, TouchedHere, AllSet, Published, SharedSoFar
<1> QED BY <1>1, <1>2

THEOREM LiftInvariant == LiftSpec => []LiftInv
BY InitLift, NextKeeps, PTL DEF LiftSpec

(* The kernels of block_reduce.rs, scan_launched.rs and                    *)
(* row_reduce_launched.rs have no DataRace on their Shared arrays, for     *)
(* every power of two of threads and every number of elements and of rows. *)
THEOREM LiftsHaveNoRace == LiftSpec => []NoRace
BY LiftInvariant, InvNoRace, PTL

(* And they read no Shared element that has not been stored.               *)
THEOREM LiftsLoadWhatIsStored == LiftSpec => []NeverUnset
BY LiftInvariant, InvNeverUnset, PTL

-----------------------------------------------------------------------------
(* What has been folded, as a set.                                         *)

(* v is the elements of X in some order, each once.                        *)
Gathers(v, X) ==
  /\ v \in Seq(X)
  /\ \A x \in X : \E n \in 1 .. Len(v) : v[n] = x
  /\ \A m, n \in 1 .. Len(v) : v[m] = v[n] => m = n

LEMMA GathersNothing == Gathers(<<>>, {}) /\ \A X : Gathers(<<>>, X) => X = {}
<1>1. Gathers(<<>>, {})
  BY DEF Gathers
<1>2. \A X : Gathers(<<>>, X) => X = {}
  BY DEF Gathers
<1> QED BY <1>1, <1>2

(* What two gather that have nothing in common, one after the other.       *)
LEMMA GathersBoth ==
  ASSUME NEW a, NEW X, Gathers(a, X), NEW b, NEW Y, Gathers(b, Y), X \cap Y = {}
  PROVE  Gathers(a \o b, X \cup Y)
<1> DEFINE Z == X \cup Y
<1>1. a \in Seq(Z) /\ b \in Seq(Z)
  BY DEF Gathers
<1>2. /\ a \in Seq(X) /\ Len(a) \in Nat /\ DOMAIN a = 1 .. Len(a) /\ \A i \in 1 .. Len(a) : a[i] \in X
      /\ b \in Seq(Y) /\ Len(b) \in Nat /\ DOMAIN b = 1 .. Len(b) /\ \A i \in 1 .. Len(b) : b[i] \in Y
  BY DEF Gathers
<1>3. PICK c : c = a \o b
  OBVIOUS
<1>4. /\ c \in Seq(Z) /\ Len(c) = Len(a) + Len(b)
      /\ \A i \in 1 .. Len(a) + Len(b) : c[i] = IF i <= Len(a) THEN a[i] ELSE b[i - Len(a)]
  <2> HIDE DEF Z
  <2> QED BY <1>1, <1>3, ConcatProperties
<1>5. \A i \in 1 .. Len(a) : i \in 1 .. Len(c) /\ c[i] = a[i]
  <2> TAKE i \in 1 .. Len(a)
  <2>1. i \in 1 .. Len(a) + Len(b) /\ i <= Len(a)
    BY <1>2
  <2> QED BY <1>4, <2>1
<1>6. \A i \in 1 .. Len(b) : Len(a) + i \in 1 .. Len(c) /\ c[Len(a) + i] = b[i]
  <2> TAKE i \in 1 .. Len(b)
  <2>0. PICK k : k = Len(a) + i
    OBVIOUS
  <2>1. k \in 1 .. Len(a) + Len(b) /\ ~(k <= Len(a)) /\ k - Len(a) = i
    BY <1>2, <2>0
  <2> QED BY <1>4, <2>0, <2>1
<1>7. ASSUME NEW z \in Z PROVE \E n \in 1 .. Len(c) : c[n] = z
  <2>1. CASE z \in X
    BY <1>5, <2>1 DEF Gathers
  <2>2. CASE z \in Y
    BY <1>6, <2>2 DEF Gathers
  <2> QED BY <2>1, <2>2
<1>8. ASSUME NEW k \in 1 .. Len(c)
      PROVE  \/ k \in 1 .. Len(a) /\ c[k] = a[k] /\ c[k] \in X
             \/ k - Len(a) \in 1 .. Len(b) /\ c[k] = b[k - Len(a)] /\ c[k] \in Y
  <2>1. k \in 1 .. Len(a) + Len(b) /\ (k \in 1 .. Len(a) \/ (k - Len(a) \in 1 .. Len(b) /\ ~(k <= Len(a))))
    BY <1>2, <1>4
  <2> QED BY <1>2, <1>4, <2>1
<1>9. ASSUME NEW m \in 1 .. Len(c), NEW n \in 1 .. Len(c), c[m] = c[n] PROVE m = n
  <2>1. CASE m \in 1 .. Len(a) /\ n \in 1 .. Len(a) /\ c[m] = a[m] /\ c[n] = a[n]
    BY <1>9, <2>1 DEF Gathers
  <2>2. CASE m - Len(a) \in 1 .. Len(b) /\ n - Len(a) \in 1 .. Len(b) /\ c[m] = b[m - Len(a)] /\ c[n] = b[n - Len(a)]
    <3>1. m - Len(a) = n - Len(a)
      BY <1>9, <2>2 DEF Gathers
    <3> QED BY <1>2, <1>4, <3>1
  <2> QED BY <1>8, <1>9, <2>1, <2>2
<1>10. Gathers(c, Z)
  BY <1>4, <1>7, <1>9 DEF Gathers
<1> QED BY <1>3, <1>10

(* What gathers the same is the same but for its order.                    *)
LEMMA GathersSame ==
  ASSUME NEW a, NEW b, NEW X, Gathers(a, X), Gathers(b, X)
  PROVE  Permutes(a, b)
<1>1. ASSUME NEW c, Gathers(c, X)
      PROVE  Range(c) = X /\ Len(c) = Cardinality(X)
  <2>1. c \in [1 .. Len(c) -> X] /\ Len(c) \in Nat /\ DOMAIN c = 1 .. Len(c)
    BY <1>1 DEF Gathers
  <2>2. Range(c) = X
    <3>1. Range(c) = {c[n] : n \in 1 .. Len(c)}
      BY <2>1 DEF Range
    <3>2. \A n \in 1 .. Len(c) : c[n] \in X
      BY <2>1
    <3>3. \A x \in X : \E n \in 1 .. Len(c) : c[n] = x
      BY <1>1 DEF Gathers
    <3> QED BY <3>1, <3>2, <3>3
  <2>3. c \in Bijection(1 .. Len(c), X)
    <3>1. IsInjective(c)
      BY <1>1, <2>1 DEF Gathers, IsInjective
    <3>2. c \in Injection(1 .. Len(c), X)
      BY <2>1, <3>1 DEF Injection
    <3>3. c \in Surjection(1 .. Len(c), X)
      BY <1>1, <2>1 DEF Gathers, Surjection
    <3> QED BY <3>2, <3>3 DEF Bijection
  <2>4. ExistsBijection(1 .. Len(c), X)
    BY <2>3 DEF ExistsBijection
  <2>5. Cardinality(X) = Len(c)
    BY <2>1, <2>4, FS_CountingElements
  <2> QED BY <2>2, <2>5
<1> QED BY <1>1 DEF Permutes

-----------------------------------------------------------------------------
Leaves(r, S) == {Leaf(r, i) : i \in S}
Indices == 0 .. job.extent - 1

(* What a thread holds that has folded the elements S of row r: a maximum  *)
(* of nothing is the 0 the reduction started from.                         *)
Holds(v, h, s, r, S) ==
  IF HasFlag(s) /\ S = {} THEN ~h /\ v = FoldIdentity(s)
                          ELSE (HasFlag(s) => h) /\ Gathers(v, Leaves(r, S))

LEMMA HoldsSame ==
  ASSUME NEW s, NEW r, NEW S, NEW a, NEW g, Holds(a, g, s, r, S), NEW b, NEW h, Holds(b, h, s, r, S)
  PROVE  Permutes(a, b)
<1>1. CASE HasFlag(s) /\ S = {}
  BY <1>1 DEF Holds, Permutes
<1>2. CASE ~(HasFlag(s) /\ S = {})
  <2>1. Gathers(a, Leaves(r, S)) /\ Gathers(b, Leaves(r, S))
    BY <1>2 DEF Holds
  <2> QED BY <2>1, GathersSame
<1> QED BY <1>1, <1>2

(* A partial folded into what a thread holds.                              *)
Merges(s, v, h, x, y, value, held) ==
  /\ h \in BOOLEAN /\ y \in BOOLEAN /\ held \in BOOLEAN
  /\ IF HasFlag(s) => y THEN /\ held <=> (h \/ HasFlag(s))
                             /\ value = Combined(s, h, v, x)
                        ELSE (held <=> h) /\ value = v

LEMMA HoldsBoth ==
  ASSUME NEW s, NEW r, NEW A, NEW B, A \cap B = {},
         NEW v, NEW h, Holds(v, h, s, r, A), NEW x, NEW y, Holds(x, y, s, r, B),
         NEW value, NEW held, Merges(s, v, h, x, y, value, held)
  PROVE  Holds(value, held, s, r, A \cup B)
<1>0. h \in BOOLEAN /\ y \in BOOLEAN /\ held \in BOOLEAN
  BY DEF Merges
<1>1. Leaves(r, A \cup B) = Leaves(r, A) \cup Leaves(r, B)
  BY DEF Leaves
<1>2. Leaves(r, A) \cap Leaves(r, B) = {}
  BY DEF Leaves, Leaf
<1>3. CASE ~HasFlag(s)
  <2>1. Gathers(v, Leaves(r, A)) /\ Gathers(x, Leaves(r, B)) /\ value = v \o x
    BY <1>3 DEF Holds, Merges, Combined
  <2>2. Gathers(v \o x, Leaves(r, A) \cup Leaves(r, B))
    BY <1>2, <2>1, GathersBoth
  <2> QED BY <1>1, <1>3, <2>1, <2>2 DEF Holds
<1>4. CASE HasFlag(s) /\ ~y
  <2>1. B = {} /\ value = v /\ (held <=> h) /\ A \cup B = A
    BY <1>4 DEF Holds, Merges
  <2> QED BY <2>1 DEF Holds
<1>5. CASE HasFlag(s) /\ y /\ ~h
  <2>1. A = {} /\ value = x /\ held /\ A \cup B = B /\ B # {}
    BY <1>5 DEF Holds, Merges, Combined
  <2> QED BY <1>5, <2>1 DEF Holds
<1>6. CASE HasFlag(s) /\ y /\ h
  <2>1. A # {} /\ B # {} /\ Gathers(v, Leaves(r, A)) /\ Gathers(x, Leaves(r, B)) /\ value = v \o x /\ held
    BY <1>6 DEF Holds, Merges, Combined
  <2>2. Gathers(v \o x, Leaves(r, A) \cup Leaves(r, B))
    BY <1>2, <2>1, GathersBoth
  <2>3. A \cup B # {}
    BY <2>1
  <2> QED BY <1>1, <1>6, <2>1, <2>2, <2>3 DEF Holds
<1> QED BY <1>0, <1>3, <1>4, <1>5, <1>6

(* The elements a thread folds from the start.                             *)
LEMMA HoldsFirst ==
  ASSUME NEW s, NEW r, NEW S, NEW e, Gathers(e, Leaves(r, S)),
         NEW h \in BOOLEAN, h <=> FoldHave(s, FALSE, e)
  PROVE  Holds(FoldStep(s, FALSE, FoldIdentity(s), e), h, s, r, S)
<1>1. e \in Seq(Leaves(r, S)) /\ (S = {} <=> e = <<>>)
  <2>1. S = {} <=> Leaves(r, S) = {}
    BY DEF Leaves
  <2>2. e \in Seq(Leaves(r, S))
    BY DEF Gathers
  <2>3. ASSUME Leaves(r, S) = {} PROVE e = <<>>
    <3>1. Len(e) = 0
      BY <2>2, <2>3
    <3> QED BY <2>2, <3>1
  <2> QED BY <2>1, <2>2, <2>3, GathersNothing
<1>2. CASE HasFlag(s) /\ e # <<>>
  BY <1>1, <1>2 DEF Holds, FoldStep, FoldHave
<1>3. CASE HasFlag(s) /\ e = <<>>
  <2>1. FoldIdentity(s) \o <<>> = FoldIdentity(s)
    BY <1>3 DEF FoldIdentity
  <2>2. FoldStep(s, FALSE, FoldIdentity(s), e) = FoldIdentity(s)
    BY <1>3, <2>1 DEF FoldStep
  <2>3. ~h
    BY <1>3 DEF FoldHave
  <2> QED BY <1>1, <1>3, <2>2, <2>3 DEF Holds
<1>4. CASE ~HasFlag(s)
  <2>1. FoldIdentity(s) = <<>>
    BY <1>4 DEF FoldIdentity
  <2>2. FoldStep(s, FALSE, FoldIdentity(s), e) = <<>> \o e
    BY <1>4, <2>1 DEF FoldStep
  <2>3. <<>> \o e = e
    BY <1>1
  <2> QED BY <1>4, <2>2, <2>3 DEF Holds
<1> QED BY <1>2, <1>3, <1>4

-----------------------------------------------------------------------------
(* The slices the threads take, and how two of them join.                  *)

Class(w, u) == {i \in Indices : i % w = u}

LEMMA Division ==
  ASSUME NEW x \in Nat, NEW b \in Nat, b > 0
  PROVE  /\ x \div b \in Nat /\ x % b \in 0 .. b - 1
         /\ b * (x \div b) + (x % b) = x
OBVIOUS

(* The remainder is the only one there is.                                 *)
LEMMA Remainder ==
  ASSUME NEW b \in Nat, b > 0, NEW q \in Nat, NEW t \in 0 .. b - 1
  PROVE  (b * q + t) % b = t /\ (b * q + t) \div b = q
<1>1. PICK p : p = b * q
  OBVIOUS
<1>2. p \in Nat
  BY <1>1
<1>3. PICK x : x = p + t
  OBVIOUS
<1>4. x \in Nat
  BY <1>2, <1>3
<1>5. PICK c, d : c = x \div b /\ d = x % b
  OBVIOUS
<1>6. c \in Nat /\ d \in 0 .. b - 1 /\ b * c + d = x
  BY <1>4, <1>5, Division
<1>7. b * (c - q) = t - d
  BY <1>1, <1>3, <1>6
<1>8. t - d < b /\ d - t < b
  BY <1>6
<1>9. c = q
  <2>1. CASE c > q
    <3>1. c - q >= 1 /\ b * (c - q) >= b
      BY <1>6, <2>1
    <3> QED BY <1>6, <1>7, <1>8, <3>1
  <2>2. CASE c < q
    <3>1. q - c >= 1 /\ b * (q - c) >= b
      BY <1>6, <2>2
    <3>2. b * (q - c) = d - t
      BY <1>6, <1>7
    <3> QED BY <1>6, <1>8, <3>1, <3>2
  <2> QED BY <1>6, <2>1, <2>2
<1>10. d = t
  BY <1>6, <1>7, <1>9
<1> QED BY <1>1, <1>3, <1>5, <1>9, <1>10

(* A class of numbers is two of twice the distance.                        *)
LEMMA ClassSplit ==
  ASSUME job \in Jobs, NEW w \in Nat, w > 0, NEW u \in 0 .. w - 1
  PROVE  /\ Class(w, u) = Class(2 * w, u) \cup Class(2 * w, u + w)
         /\ Class(2 * w, u) \cap Class(2 * w, u + w) = {}
<1>1. ASSUME NEW i \in Nat
      PROVE  i % w = u <=> (i % (2 * w) = u \/ i % (2 * w) = u + w)
  <2>1. PICK c, d : c = i \div w /\ d = i % w
    OBVIOUS
  <2>2. c \in Nat /\ d \in 0 .. w - 1 /\ w * c + d = i
    BY <2>1, Division
  <2>3. PICK v : v = 2 * w
    OBVIOUS
  <2>4. v \in Nat /\ v > 0
    BY <2>3
  <2>5. PICK k, e : k = i \div v /\ e = i % v
    OBVIOUS
  <2>6. k \in Nat /\ e \in 0 .. v - 1 /\ v * k + e = i
    BY <2>4, <2>5, Division
  <2>7. CASE e < w
    <3>1. w * (2 * k) + e = i /\ 2 * k \in Nat /\ e \in 0 .. w - 1
      BY <2>3, <2>6, <2>7
    <3>2. i % w = e
      BY <3>1, Remainder
    <3> QED BY <2>1, <2>3, <2>5, <2>6, <2>7, <3>2
  <2>8. CASE e >= w
    <3>1. w * (2 * k + 1) + (e - w) = i /\ 2 * k + 1 \in Nat /\ e - w \in 0 .. w - 1
      BY <2>3, <2>6, <2>8
    <3>2. i % w = e - w
      BY <3>1, Remainder
    <3> QED BY <2>1, <2>3, <2>5, <2>6, <2>8, <3>2
  <2> QED BY <2>6, <2>7, <2>8
<1>2. Indices \subseteq Nat
  BY JobsAssumption DEF Indices
<1>3. u # u + w
  OBVIOUS
<1>4. Class(w, u) = Class(2 * w, u) \cup Class(2 * w, u + w)
  BY <1>1, <1>2 DEF Class
<1>5. Class(2 * w, u) \cap Class(2 * w, u + w) = {}
  BY <1>3 DEF Class
<1> QED BY <1>4, <1>5

LEMMA ClassOne ==
  ASSUME job \in Jobs
  PROVE  Class(1, 0) = Indices
<1>1. Indices \subseteq Nat
  BY JobsAssumption DEF Indices
<1>2. \A i \in Nat : i % 1 = 0
  OBVIOUS
<1> QED BY <1>1, <1>2 DEF Class

(* The strided loop takes the elements of the thread's class.              *)
LEMMA SliceGathers ==
  ASSUME job \in Jobs, NEW t \in Threads, NEW r
  PROVE  Gathers(SliceOf(t, r), Leaves(r, Class(job.block, t)))
<1>1. PICK b, n : b = job.block /\ n = job.extent
  OBVIOUS
<1>2. b \in Nat /\ b > 0 /\ n \in Nat /\ t \in 0 .. b - 1
  BY <1>1, JobFacts, JobsAssumption DEF Threads
<1>3. PICK x : x = n - t + b - 1
  OBVIOUS
<1>4. x \in Nat /\ x = (n - t) + (b - 1)
  BY <1>2, <1>3
<1>5. PICK c : c = x \div b
  OBVIOUS
<1>6. c \in Nat /\ b * c <= x /\ x < b * c + b
  <2>1. x % b \in 0 .. b - 1 /\ b * c + (x % b) = x /\ c \in Nat
    BY <1>2, <1>4, <1>5, Division
  <2>2. PICK d : d = x % b
    OBVIOUS
  <2>3. PICK m : m = b * c
    OBVIOUS
  <2>4. m \in Nat
    BY <1>2, <2>1, <2>3
  <2>5. m + d = x /\ d \in 0 .. b - 1
    BY <2>1, <2>2, <2>3
  <2>6. m <= x /\ x < m + b
    BY <1>2, <1>4, <2>4, <2>5
  <2> QED BY <2>1, <2>3, <2>6
<1>7. PICK e : e = SliceOf(t, r)
  OBVIOUS
<1>8. e = [i \in 1 .. c |-> Leaf(r, t + (i - 1) * b)]
  BY <1>1, <1>3, <1>5, <1>7 DEF SliceOf
<1>9. Len(e) = c /\ DOMAIN e = 1 .. c /\ \A i \in 1 .. c : e[i] = Leaf(r, t + (i - 1) * b)
  BY <1>6, <1>8
<1>10. ASSUME NEW i \in 1 .. c
       PROVE  t + (i - 1) * b \in Class(b, t)
  <2>1. PICK k : k = i - 1
    OBVIOUS
  <2>2. k \in Nat /\ k <= c - 1
    BY <1>6, <2>1
  <2>3. b * k <= b * (c - 1)
    BY <1>2, <1>6, <2>2
  <2>4. PICK m, q : m = b * k /\ q = b * c
    OBVIOUS
  <2>5. m \in Nat /\ q \in Nat /\ m <= q - b /\ q <= x
    BY <1>2, <1>6, <2>2, <2>3, <2>4
  <2>6. t + m \in 0 .. n - 1
    BY <1>2, <1>3, <2>5
  <2>7. t + (i - 1) * b = b * k + t /\ b * k + t = t + m
    BY <1>2, <2>1, <2>2, <2>4, <2>5
  <2>8. (b * k + t) % b = t
    BY <1>2, <2>2, Remainder
  <2> QED BY <1>1, <2>6, <2>7, <2>8 DEF Class, Indices
<1>11. ASSUME NEW j \in Class(b, t)
       PROVE  \E i \in 1 .. c : t + (i - 1) * b = j
  <2>1. j \in 0 .. n - 1 /\ j % b = t /\ j \in Nat
    BY <1>1, <1>2, <1>11 DEF Class, Indices
  <2>2. PICK k : k = j \div b
    OBVIOUS
  <2>3. k \in Nat /\ b * k + t = j
    BY <1>2, <2>1, <2>2, Division
  <2>4. k < c
    <3>1. SUFFICES ASSUME k >= c PROVE FALSE
      BY <1>6, <2>3
    <3>2. b * k >= b * c
      BY <1>2, <1>6, <2>3, <3>1
    <3>3. PICK m, q : m = b * k /\ q = b * c
      OBVIOUS
    <3>4. m \in Nat /\ q \in Nat
      BY <1>2, <1>6, <2>3, <3>3
    <3> QED BY <1>2, <1>3, <1>6, <2>1, <2>3, <3>2, <3>3, <3>4
  <2>5. k + 1 \in 1 .. c /\ t + ((k + 1) - 1) * b = j
    BY <1>2, <1>6, <2>3, <2>4
  <2> QED BY <2>5
<1>12. ASSUME NEW i \in 1 .. c, NEW j \in 1 .. c, t + (i - 1) * b = t + (j - 1) * b
       PROVE  i = j
  <2>1. PICK k, l : k = i - 1 /\ l = j - 1
    OBVIOUS
  <2>2. k \in Nat /\ l \in Nat /\ k * b = l * b
    BY <1>2, <1>12, <2>1
  <2>3. k = l
    BY <1>2, <2>2
  <2> QED BY <2>1, <2>3
<1>13. e \in [1 .. c -> Leaves(r, Class(b, t))]
  BY <1>8, <1>10 DEF Leaves
<1>14. e \in Seq(Leaves(r, Class(b, t)))
  BY <1>6, <1>13
<1>15. \A z \in Leaves(r, Class(b, t)) : \E i \in 1 .. c : e[i] = z
  BY <1>9, <1>11 DEF Leaves
<1>16. \A i, j \in 1 .. c : e[i] = e[j] => i = j
  <2> SUFFICES ASSUME NEW i \in 1 .. c, NEW j \in 1 .. c, e[i] = e[j] PROVE i = j
    OBVIOUS
  <2>1. t + (i - 1) * b = t + (j - 1) * b
    BY <1>9 DEF Leaf
  <2> QED BY <1>12, <2>1
<1>17. Gathers(e, Leaves(r, Class(b, t)))
  BY <1>9, <1>14, <1>15, <1>16 DEF Gathers
<1> QED BY <1>1, <1>7, <1>17

(* What the serial kernel folds.                                           *)
LEMMA SerialHolds ==
  ASSUME job \in Jobs, NEW r, NEW s
  PROVE  \E h \in BOOLEAN : Holds(Serial(s, r), h, s, r, Indices)
<1>1. PICK n : n = job.extent
  OBVIOUS
<1>2. n \in Nat
  BY <1>1, JobsAssumption
<1>3. PICK e : e = Elements(r, n)
  OBVIOUS
<1>4. Len(e) = n /\ DOMAIN e = 1 .. n /\ \A i \in 1 .. n : e[i] = Leaf(r, i - 1)
  BY <1>2, <1>3 DEF Elements
<1>5. e \in [1 .. n -> Leaves(r, Indices)]
  <2>1. \A i \in 1 .. n : i - 1 \in Indices
    BY <1>1, <1>2 DEF Indices
  <2> QED BY <1>3, <2>1 DEF Elements, Leaves
<1>6. e \in Seq(Leaves(r, Indices))
  BY <1>2, <1>5
<1>7. \A z \in Leaves(r, Indices) : \E i \in 1 .. n : e[i] = z
  <2> SUFFICES ASSUME NEW j \in Indices PROVE \E i \in 1 .. n : e[i] = Leaf(r, j)
    BY DEF Leaves
  <2>1. j + 1 \in 1 .. n /\ (j + 1) - 1 = j
    BY <1>1, <1>2 DEF Indices
  <2> QED BY <1>4, <2>1
<1>8. \A i, j \in 1 .. n : e[i] = e[j] => i = j
  <2> SUFFICES ASSUME NEW i \in 1 .. n, NEW j \in 1 .. n, e[i] = e[j] PROVE i = j
    OBVIOUS
  <2>1. i - 1 = j - 1
    BY <1>4 DEF Leaf
  <2> QED BY <1>2, <2>1
<1>9. Gathers(e, Leaves(r, Indices))
  BY <1>4, <1>6, <1>7, <1>8 DEF Gathers
<1>10. PICK h \in BOOLEAN : h <=> FoldHave(s, FALSE, e)
  OBVIOUS
<1>11. Holds(FoldStep(s, FALSE, FoldIdentity(s), e), h, s, r, Indices)
  BY <1>9, <1>10, HoldsFirst
<1> QED BY <1>1, <1>3, <1>11 DEF Serial

-----------------------------------------------------------------------------
(* The text of the reductions.                                             *)

(* The statements of a reduction or of a stage, and where a stage is.      *)
StageLen == 6 + 2 * Levels
InStage(p, s, q) ==
  \/ job.lift = "reduce" /\ s = 1 /\ q \in 1 .. 4 + 2 * Levels /\ p = q
  \/ job.lift = "rowreduce" /\ s \in {1, 2} /\ q \in 1 .. StageLen /\ p = (s - 1) * StageLen + q

StatementAt(x, s, q) ==
  \/ q = 1 /\ x = Do("Slice", s)
  \/ q = 2 /\ x = Do("Publish", s)
  \/ q = 3 /\ x = Barrier
  \/ \E k \in 1 .. Levels : q = 2 + 2 * k /\ x = Do("Round", 2 ^ (Levels - k))
  \/ \E k \in 1 .. Levels : q = 3 + 2 * k /\ x = Barrier
  \/ q = 4 + 2 * Levels /\ job.lift = "reduce" /\ x = Do("Store", s)
  \/ q = 4 + 2 * Levels /\ job.lift = "rowreduce" /\ x = Do("Share", s)
  \/ q = 5 + 2 * Levels /\ job.lift = "rowreduce" /\ x = Barrier
  \/ q = 6 + 2 * Levels /\ job.lift = "rowreduce" /\ x = Do("Take", s)

LEMMA RoundAt ==
  ASSUME job \in Jobs, NEW k \in 1 .. Levels
  PROVE  Rounds[2 * k - 1] = Do("Round", 2 ^ (Levels - k)) /\ Rounds[2 * k] = Barrier
<1>1. Levels \in Nat
  BY JobFacts
<1>2. \A i \in 1 .. 2 * Levels :
        Rounds[i] = IF i % 2 = 1 THEN Do("Round", 2 ^ (Levels - (i + 1) \div 2)) ELSE Barrier
  BY DEF Rounds
<1>3. PICK i, j : i = 2 * k - 1 /\ j = 2 * k
  OBVIOUS
<1>4. /\ i \in 1 .. 2 * Levels /\ i % 2 = 1 /\ (i + 1) \div 2 = k
      /\ j \in 1 .. 2 * Levels /\ j % 2 # 1
  BY <1>1, <1>3
<1>5. Rounds[i] = Do("Round", 2 ^ (Levels - k)) /\ Rounds[j] = Barrier
  BY <1>2, <1>4, Zenon
<1> QED BY <1>3, <1>5

(* The part of a program up to the last round.                             *)
LEMMA RoundsText ==
  ASSUME job \in Jobs, NEW s \in {1, 2}, NEW P,
         P[1] = Do("Slice", s), P[2] = Do("Publish", s), P[3] = Barrier,
         \A i \in 1 .. 2 * Levels : P[3 + i] = Rounds[i],
         NEW q \in 1 .. 3 + 2 * Levels
  PROVE  StatementAt(P[q], s, q)
<1>1. Levels \in Nat
  BY JobFacts
<1>2. CASE q \in {1, 2, 3}
  BY <1>2 DEF StatementAt
<1>3. CASE q \notin {1, 2, 3}
  <2>1. PICK i : i = q - 3
    OBVIOUS
  <2>2. i \in 1 .. 2 * Levels /\ q = 3 + i /\ P[q] = Rounds[i]
    <3>1. i \in 1 .. 2 * Levels /\ q = 3 + i
      BY <1>1, <1>3, <2>1
    <3> QED BY <3>1
  <2>3. PICK k \in 1 .. Levels : i = 2 * k - 1 \/ i = 2 * k
    <3>1. (i + 1) \div 2 \in 1 .. Levels /\ (i = 2 * ((i + 1) \div 2) - 1 \/ i = 2 * ((i + 1) \div 2))
      BY <1>1, <2>2
    <3> QED BY <3>1
  <2>4. CASE i = 2 * k - 1
    <3>1. q = 2 + 2 * k
      BY <1>1, <2>2, <2>4
    <3>2. P[q] = Do("Round", 2 ^ (Levels - k))
      BY <2>2, <2>4, RoundAt
    <3> QED BY <3>1, <3>2 DEF StatementAt
  <2>5. CASE i = 2 * k
    <3>1. q = 3 + 2 * k
      BY <1>1, <2>2, <2>5
    <3>2. P[q] = Barrier
      BY <2>2, <2>5, RoundAt
    <3> QED BY <3>1, <3>2 DEF StatementAt
  <2> QED BY <2>3, <2>4, <2>5
<1> QED BY <1>2, <1>3

LEMMA ReduceText ==
  ASSUME job \in Jobs, job.lift = "reduce"
  PROVE  /\ Len(Program) = 4 + 2 * Levels
         /\ \A q \in 1 .. 4 + 2 * Levels : StatementAt(Program[q], 1, q)
<1> DEFINE rest == <<Do("Store", 1)>>
           P == <<Do("Slice", 1), Do("Publish", 1), Barrier>> \o Rounds \o rest
           n == 3 + 2 * Levels
<1>1. rest \in Seq(Statement) /\ Len(rest) = 1 /\ rest[1] = Do("Store", 1)
  BY DEF Do, Statement, Kinds
<1>2. Program = P
  BY DEF Program
<1> HIDE DEF rest
<1>3. /\ P \in Seq(Statement) /\ Len(P) = n + Len(rest)
      /\ P[1] = Do("Slice", 1) /\ P[2] = Do("Publish", 1) /\ P[3] = Barrier
      /\ \A i \in 1 .. 2 * Levels : P[3 + i] = Rounds[i]
      /\ \A i \in 1 .. Len(rest) : P[n + i] = rest[i]
  BY <1>1, WithRounds
<1> HIDE DEF P
<1>4. Levels \in Nat
  BY JobFacts
<1>5. ASSUME NEW q \in 1 .. 4 + 2 * Levels PROVE StatementAt(P[q], 1, q)
  <2>1. CASE q \in 1 .. 3 + 2 * Levels
    BY <1>3, <2>1, RoundsText
  <2>2. CASE q \notin 1 .. 3 + 2 * Levels
    <3>1. q = n + 1 /\ q = 4 + 2 * Levels
      BY <1>4, <2>2
    <3>2. P[q] = Do("Store", 1)
      BY <1>1, <1>3, <3>1
    <3> QED BY <3>1, <3>2 DEF StatementAt
  <2> QED BY <2>1, <2>2
<1>6. Len(P) = 4 + 2 * Levels
  BY <1>1, <1>3, <1>4
<1> QED BY <1>2, <1>5, <1>6

LEMMA StageText ==
  ASSUME job \in Jobs, job.lift = "rowreduce", NEW s \in {1, 2}, NEW q \in 1 .. StageLen
  PROVE  StatementAt(Stage(s)[q], s, q)
<1> DEFINE rest == <<Do("Share", s), Barrier, Do("Take", s)>>
           P == <<Do("Slice", s), Do("Publish", s), Barrier>> \o Rounds \o rest
           n == 3 + 2 * Levels
<1>1. /\ rest \in Seq(Statement) /\ Len(rest) = 3
      /\ rest[1] = Do("Share", s) /\ rest[2] = Barrier /\ rest[3] = Do("Take", s)
  BY DEF Do, Statement, Kinds, Barrier
<1>2. Stage(s) = P
  BY DEF Stage, P, rest
<1> HIDE DEF rest
<1>3. /\ P[1] = Do("Slice", s) /\ P[2] = Do("Publish", s) /\ P[3] = Barrier
      /\ \A i \in 1 .. 2 * Levels : P[3 + i] = Rounds[i]
      /\ \A i \in 1 .. Len(rest) : P[n + i] = rest[i]
  BY <1>1, WithRounds
<1> HIDE DEF P
<1>4. Levels \in Nat /\ q \in 1 .. 6 + 2 * Levels
  BY JobFacts DEF StageLen
<1>5. CASE q \in 1 .. 3 + 2 * Levels
  BY <1>2, <1>3, <1>5, RoundsText
<1>6. CASE q \notin 1 .. 3 + 2 * Levels
  <2>1. \/ q = n + 1 /\ q = 4 + 2 * Levels
        \/ q = n + 2 /\ q = 5 + 2 * Levels
        \/ q = n + 3 /\ q = 6 + 2 * Levels
    BY <1>4, <1>6
  <2>2. P[n + 1] = Do("Share", s) /\ P[n + 2] = Barrier /\ P[n + 3] = Do("Take", s)
    BY <1>1, <1>3
  <2> QED BY <1>2, <2>1, <2>2 DEF StatementAt
<1> QED BY <1>5, <1>6

LEMMA RowReduceText ==
  ASSUME job \in Jobs, job.lift = "rowreduce"
  PROVE  /\ Len(Program) = 2 * StageLen + 1 /\ Program[2 * StageLen + 1] = Do("Epilogue", 3)
         /\ \A s \in {1, 2}, q \in 1 .. StageLen : StatementAt(Program[(s - 1) * StageLen + q], s, q)
<1> DEFINE rest == <<Do("Epilogue", 3)>>
           P == Stage(1) \o Stage(2) \o rest
<1>1. rest \in Seq(Statement) /\ Len(rest) = 1 /\ rest[1] = Do("Epilogue", 3)
  BY DEF Do, Statement, Kinds
<1>2. Program = P
  BY DEF Program
<1> HIDE DEF rest
<1>3. ASSUME NEW s \in {1, 2} PROVE Stage(s) \in Seq(Statement) /\ Len(Stage(s)) = StageLen
  BY StageIs DEF StageLen
<1>4. /\ P \in Seq(Statement) /\ Len(P) = Len(Stage(1)) + Len(Stage(2)) + Len(rest)
      /\ \A i \in 1 .. Len(Stage(1)) : P[i] = Stage(1)[i]
      /\ \A i \in 1 .. Len(Stage(2)) : P[Len(Stage(1)) + i] = Stage(2)[i]
      /\ \A i \in 1 .. Len(rest) : P[Len(Stage(1)) + Len(Stage(2)) + i] = rest[i]
  <2>1. Stage(1) \in Seq(Statement) /\ Stage(2) \in Seq(Statement) /\ rest \in Seq(Statement)
    BY <1>1, <1>3
  <2> QED BY <2>1, ThreeParts
<1> HIDE DEF P
<1>5. StageLen \in Nat
  <2>1. Levels \in 0 .. 31
    BY JobFacts
  <2> QED BY <2>1 DEF StageLen
<1>6. Len(Stage(1)) = StageLen /\ Len(Stage(2)) = StageLen
  BY <1>3
<1>7. \A i \in 1 .. StageLen : P[i] = Stage(1)[i] /\ P[StageLen + i] = Stage(2)[i]
  BY <1>4, <1>6
<1>8. Len(P) = 2 * StageLen + 1 /\ StageLen + StageLen + 1 = 2 * StageLen + 1
  BY <1>1, <1>4, <1>5, <1>6
<1>9. P[2 * StageLen + 1] = Do("Epilogue", 3)
  <2>1. 1 \in 1 .. Len(rest)
    BY <1>1
  <2>2. P[Len(Stage(1)) + Len(Stage(2)) + 1] = rest[1]
    BY <1>4, <2>1
  <2> QED BY <1>1, <1>6, <1>8, <2>2
<1>10. ASSUME NEW s \in {1, 2}, NEW q \in 1 .. StageLen
       PROVE  StatementAt(P[(s - 1) * StageLen + q], s, q)
  <2>1. CASE s = 1
    <3>1. (s - 1) * StageLen + q = q
      BY <1>5, <2>1
    <3>2. P[(s - 1) * StageLen + q] = Stage(s)[q]
      BY <1>7, <2>1, <3>1
    <3> QED BY <3>2, StageText
  <2>2. CASE s = 2
    <3>1. (s - 1) * StageLen + q = StageLen + q
      BY <1>5, <2>2
    <3>2. P[(s - 1) * StageLen + q] = Stage(s)[q]
      BY <1>7, <2>2, <3>1
    <3> QED BY <3>2, StageText
  <2> QED BY <2>1, <2>2
<1> QED BY <1>2, <1>8, <1>9, <1>10

(* What stands at a place of a stage, and that there is nothing else but   *)
(* the epilogue.                                                           *)
LEMMA TextAt ==
  ASSUME job \in Jobs, NEW p, NEW s, NEW q, InStage(p, s, q)
  PROVE  StatementAt(Program[p], s, q)
<1>1. CASE job.lift = "reduce"
  BY <1>1, ReduceText DEF InStage
<1>2. CASE job.lift = "rowreduce"
  BY <1>2, RowReduceText DEF InStage
<1> QED BY <1>1, <1>2 DEF InStage

LEMMA Placed ==
  ASSUME job \in Jobs, job.lift # "scan", NEW p \in 1 .. Len(Program)
  PROVE  \/ \E s \in {1, 2}, q \in 1 .. StageLen : InStage(p, s, q)
         \/ job.lift = "rowreduce" /\ p = 2 * StageLen + 1 /\ Program[p] = Do("Epilogue", 3) /\ p = Len(Program)
<1>1. Levels \in Nat /\ StageLen \in Nat /\ StageLen = 6 + 2 * Levels
  <2>1. Levels \in 0 .. 31
    BY JobFacts
  <2> QED BY <2>1 DEF StageLen
<1>2. CASE job.lift = "reduce"
  <2>1. p \in 1 .. 4 + 2 * Levels
    BY <1>2, ReduceText
  <2>2. p \in 1 .. StageLen
    BY <1>1, <2>1
  <2> QED BY <1>2, <2>1, <2>2 DEF InStage
<1>3. CASE job.lift = "rowreduce"
  <2>1. p \in 1 .. 2 * StageLen + 1
    BY <1>3, RowReduceText
  <2>2. CASE p = 2 * StageLen + 1
    BY <1>3, <2>2, RowReduceText
  <2>3. CASE p \in 1 .. StageLen
    <3>1. InStage(p, 1, p)
      BY <1>1, <1>3, <2>3 DEF InStage
    <3> QED BY <2>3, <3>1
  <2>4. CASE p \in StageLen + 1 .. 2 * StageLen
    <3>1. PICK q : q = p - StageLen
      OBVIOUS
    <3>2. q \in 1 .. StageLen /\ p = (2 - 1) * StageLen + q
      BY <1>1, <2>4, <3>1
    <3>3. InStage(p, 2, q)
      BY <1>3, <3>2 DEF InStage
    <3> QED BY <3>2, <3>3
  <2> QED BY <1>1, <2>1, <2>2, <2>3, <2>4
<1>4. job.lift \in {"reduce", "scan", "rowreduce"}
  BY JobsAssumption
<1> QED BY <1>2, <1>3, <1>4

(* There is one such place, and the next statement is at the next.         *)
LEMMA PlaceIs ==
  ASSUME job \in Jobs, NEW p, NEW s, NEW q, InStage(p, s, q)
  PROVE  /\ job.lift # "scan" /\ s \in {1, 2} /\ q \in 1 .. StageLen /\ p \in 1 .. Len(Program) /\ p \in Nat
         /\ \A z, x : InStage(p, z, x) => z = s /\ x = q
         /\ \A z, x : InStage(p + 1, z, x) => IF q = StageLen THEN z = 2 /\ x = 1 ELSE z = s /\ x = q + 1
         /\ (job.lift = "reduce" /\ q < 4 + 2 * Levels) => InStage(p + 1, s, q + 1) /\ p # Len(Program)
         /\ job.lift = "rowreduce" => p # Len(Program) /\ (q < StageLen => InStage(p + 1, s, q + 1))
         /\ job.lift = "reduce" => s = 1 /\ q <= 4 + 2 * Levels
<1>1. Levels \in Nat /\ StageLen \in Nat /\ StageLen = 6 + 2 * Levels
  <2>1. Levels \in 0 .. 31
    BY JobFacts
  <2> QED BY <2>1 DEF StageLen
<1>2. CASE job.lift = "reduce"
  <2>1. s = 1 /\ q \in 1 .. 4 + 2 * Levels /\ p = q
    BY <1>2 DEF InStage
  <2>2. Len(Program) = 4 + 2 * Levels
    BY <1>2, ReduceText
  <2>3. \A y, z, x : InStage(y, z, x) => z = 1 /\ x \in 1 .. 4 + 2 * Levels /\ y = x
    BY <1>2 DEF InStage
  <2>4. q < 4 + 2 * Levels => InStage(p + 1, s, q + 1)
    BY <1>1, <1>2, <2>1 DEF InStage
  <2> QED BY <1>1, <1>2, <2>1, <2>2, <2>3, <2>4
<1>3. CASE job.lift = "rowreduce"
  <2>1. PICK m : m = StageLen
    OBVIOUS
  <2>2. s \in {1, 2} /\ q \in 1 .. m /\ p = (s - 1) * m + q
    BY <1>3, <2>1 DEF InStage
  <2>3. Len(Program) = 2 * m + 1
    BY <1>3, <2>1, RowReduceText
  <2>4. \A y, z, x : InStage(y, z, x) => z \in {1, 2} /\ x \in 1 .. m /\ y = (z - 1) * m + x
    BY <1>3, <2>1 DEF InStage
  <2>5. (s = 1 /\ p = q) \/ (s = 2 /\ p = m + q)
    BY <1>1, <2>1, <2>2
  <2>6. \A y, z, x : InStage(y, z, x) => x \in 1 .. m /\ ((z = 1 /\ y = x) \/ (z = 2 /\ y = m + x))
    BY <1>1, <2>1, <2>4
  <2>7. q < m => InStage(p + 1, s, q + 1)
    <3>1. q < m => q + 1 \in 1 .. m /\ p + 1 = (s - 1) * m + (q + 1)
      BY <1>1, <2>1, <2>2, <2>5
    <3> QED BY <1>3, <2>1, <2>2, <3>1 DEF InStage
  <2>8. \A z, x : InStage(p, z, x) => z = s /\ x = q
    BY <1>1, <2>1, <2>2, <2>5, <2>6
  <2>9. \A z, x : InStage(p + 1, z, x) => IF q = m THEN z = 2 /\ x = 1 ELSE z = s /\ x = q + 1
    BY <1>1, <2>1, <2>2, <2>5, <2>6
  <2>10. p \in 1 .. Len(Program) /\ p \in Nat /\ p # Len(Program)
    BY <1>1, <2>1, <2>2, <2>3, <2>5
  <2> QED BY <1>3, <2>1, <2>2, <2>7, <2>8, <2>9, <2>10
<1> QED BY <1>2, <1>3 DEF InStage

-----------------------------------------------------------------------------
(* A stage of a reduction.                                                 *)

(* After l rounds, before the next: the strides left are below             *)
(* 2 ^ (Levels - l).                                                       *)
AtLevel(q, l) == q = 3 + 2 * l \/ q = 4 + 2 * l \/ (q = 2 /\ l = 0)

Folded(s, u, l, r, v, h) ==
  LET w == 2 ^ (Levels - l)
  IN  /\ u < w => Holds(v, h, s, r, Class(w, u))
      /\ (l > 0 /\ w <= u /\ u < 2 * w) => Holds(v, h, s, r, Class(2 * w, u))

(* What thread u holds, and has published, at a place of a stage.          *)
Staged(s, q, u, r, v, h, m, mh) ==
  /\ \A l \in 0 .. Levels : AtLevel(q, l) => Folded(s, u, l, r, v, h)
  /\ q >= 3 => m = {v} /\ (HasFlag(s) => mh = {h})

LEMMA SliceStaged ==
  ASSUME job \in Jobs, NEW t \in Threads, NEW r, NEW s, NEW v, NEW h \in BOOLEAN, NEW m, NEW mh,
         v = FoldStep(s, FALSE, FoldIdentity(s), SliceOf(t, r)),
         h <=> FoldHave(s, FALSE, SliceOf(t, r))
  PROVE  Staged(s, 2, t, r, v, h, m, mh)
<1>1. Levels \in 0 .. 31 /\ 2 ^ Levels = job.block /\ Levels - 0 = Levels
  BY JobFacts
<1>2. PICK e : e = SliceOf(t, r)
  OBVIOUS
<1>3. Gathers(e, Leaves(r, Class(job.block, t)))
  BY <1>2, SliceGathers
<1>4. Holds(v, h, s, r, Class(job.block, t))
  BY <1>2, <1>3, HoldsFirst
<1>5. Folded(s, t, 0, r, v, h)
  <2>1. 2 ^ (Levels - 0) = job.block
    BY <1>1
  <2>2. ~(0 > 0)
    OBVIOUS
  <2> QED BY <1>4, <2>1, <2>2 DEF Folded
<1>6. \A l \in 0 .. Levels : AtLevel(2, l) => l = 0
  BY <1>1 DEF AtLevel
<1>7. ~(2 >= 3)
  OBVIOUS
<1> QED BY <1>5, <1>6, <1>7 DEF Staged

LEMMA PublishStaged ==
  ASSUME job \in Jobs, NEW s, NEW u, NEW r, NEW v, NEW h, NEW m, NEW mh, Staged(s, 2, u, r, v, h, m, mh),
         NEW n, n = {v}, NEW nh, HasFlag(s) => nh = {h}
  PROVE  Staged(s, 3, u, r, v, h, n, nh)
<1>1. Levels \in 0 .. 31
  BY JobFacts
<1>2. \A l \in 0 .. Levels : AtLevel(3, l) => l = 0
  BY <1>1 DEF AtLevel
<1>3. 0 \in 0 .. Levels /\ AtLevel(2, 0)
  BY <1>1 DEF AtLevel
<1> QED BY <1>2, <1>3 DEF Staged

(* The statements that leave everything as it is.                          *)
LEMMA KeptStaged ==
  ASSUME job \in Jobs, NEW s, NEW u, NEW r, NEW v, NEW h, NEW m, NEW mh, NEW q, Staged(s, q, u, r, v, h, m, mh),
         q = 3 \/ (\E k \in 1 .. Levels : q = 3 + 2 * k) \/ q = 4 + 2 * Levels \/ q = 5 + 2 * Levels
  PROVE  Staged(s, q + 1, u, r, v, h, m, mh)
<1>1. Levels \in Nat
  BY JobFacts
<1>2. q \in Nat /\ q >= 3
  BY <1>1
<1>3. ASSUME NEW l \in 0 .. Levels, AtLevel(q + 1, l) PROVE AtLevel(q, l)
  BY <1>1, <1>3 DEF AtLevel
<1> QED BY <1>2, <1>3 DEF Staged

(* What a thread finds in the Shared arrays in a round, wherever the one   *)
(* that published it is between the same barriers.                         *)
InRound(q, k) == q = 2 + 2 * k \/ q = 3 + 2 * k

LEMMA RoundReads ==
  ASSUME job \in Jobs, NEW k \in 1 .. Levels, NEW w, w = 2 ^ (Levels - k),
         NEW s, NEW q, InRound(q, k),
         NEW u \in Nat, w <= u, u < 2 * w, NEW r, NEW v, NEW h, NEW m, NEW mh, Staged(s, q, u, r, v, h, m, mh)
  PROVE  m = {v} /\ (HasFlag(s) => mh = {h}) /\ Holds(v, h, s, r, Class(2 * w, u))
<1>1. Levels \in Nat /\ Levels <= 31
  BY JobFacts
<1>2. PICK e : e = Levels - (k - 1)
  OBVIOUS
<1>3. e \in 0 .. 31 /\ e > 0 /\ e - 1 = Levels - k
  BY <1>1, <1>2
<1>4. 2 ^ e = 2 * w
  BY <1>3, PowerStep
<1>5. (q = 2 + 2 * k \/ q = 3 + 2 * k) /\ q >= 3
  BY <1>1 DEF InRound
<1>6. Holds(v, h, s, r, Class(2 * w, u))
  <2>1. CASE q = 2 + 2 * k
    <3>1. k - 1 \in 0 .. Levels /\ AtLevel(q, k - 1)
      BY <1>1, <2>1 DEF AtLevel
    <3>2. Folded(s, u, k - 1, r, v, h)
      BY <3>1 DEF Staged
    <3> QED BY <1>2, <1>4, <3>2 DEF Folded
  <2>2. CASE q = 3 + 2 * k
    <3>1. k \in 0 .. Levels /\ k > 0 /\ AtLevel(q, k)
      BY <1>1, <2>2 DEF AtLevel
    <3>2. Folded(s, u, k, r, v, h)
      BY <3>1 DEF Staged
    <3> QED BY <3>1, <3>2 DEF Folded
  <2> QED BY <1>5, <2>1, <2>2
<1> QED BY <1>5, <1>6 DEF Staged

LEMMA AfterRound ==
  ASSUME job \in Jobs, NEW k \in 1 .. Levels, NEW w, w = 2 ^ (Levels - k),
         NEW s, NEW t \in Nat, NEW r, NEW v, NEW h, NEW m, NEW mh, m = {v}, HasFlag(s) => mh = {h},
         t < w => Holds(v, h, s, r, Class(w, t)),
         (w <= t /\ t < 2 * w) => Holds(v, h, s, r, Class(2 * w, t))
  PROVE  Staged(s, 3 + 2 * k, t, r, v, h, m, mh)
<1>1. Levels \in Nat
  BY JobFacts
<1>2. \A l \in 0 .. Levels : AtLevel(3 + 2 * k, l) => l = k
  BY <1>1 DEF AtLevel
<1>3. Folded(s, t, k, r, v, h)
  BY DEF Folded
<1> QED BY <1>2, <1>3 DEF Staged

LEMMA RoundStaged ==
  ASSUME job \in Jobs, NEW k \in 1 .. Levels, NEW w, w = 2 ^ (Levels - k),
         NEW s, NEW t \in Nat, t < w, NEW r,
         NEW v, NEW h, NEW m, NEW mh, Staged(s, 2 + 2 * k, t, r, v, h, m, mh),
         NEW x, NEW y, Holds(x, y, s, r, Class(2 * w, t + w)),
         NEW value, NEW held, Merges(s, v, h, x, y, value, held),
         NEW n, n = {value}, NEW nh, HasFlag(s) => nh = {held}
  PROVE  Staged(s, 3 + 2 * k, t, r, value, held, n, nh)
<1>1. Levels \in Nat /\ Levels <= 31
  BY JobFacts
<1>2. PICK e : e = Levels - (k - 1)
  OBVIOUS
<1>3. e \in 0 .. 31 /\ e > 0 /\ e - 1 = Levels - k /\ Levels - k \in 0 .. 31
  BY <1>1, <1>2
<1>4. 2 ^ e = 2 * w /\ w \in Nat /\ w > 0
  BY <1>3, PowerStep
<1>5. Holds(v, h, s, r, Class(2 * w, t))
  <2>1. k - 1 \in 0 .. Levels /\ AtLevel(2 + 2 * k, k - 1)
    BY <1>1 DEF AtLevel
  <2>2. Folded(s, t, k - 1, r, v, h)
    BY <2>1 DEF Staged
  <2>3. t < 2 * w
    BY <1>4
  <2> QED BY <1>2, <1>4, <2>2, <2>3 DEF Folded
<1>6. Class(w, t) = Class(2 * w, t) \cup Class(2 * w, t + w) /\ Class(2 * w, t) \cap Class(2 * w, t + w) = {}
  <2>1. t \in 0 .. w - 1
    BY <1>4
  <2> QED BY <1>4, <2>1, ClassSplit
<1>7. Holds(value, held, s, r, Class(w, t))
  BY <1>5, <1>6, HoldsBoth
<1>8. ~(w <= t)
  BY <1>4
<1> QED BY <1>7, <1>8, AfterRound

LEMMA RoundIdle ==
  ASSUME job \in Jobs, NEW k \in 1 .. Levels, NEW w, w = 2 ^ (Levels - k),
         NEW s, NEW t \in Nat, ~(t < w), NEW r,
         NEW v, NEW h, NEW m, NEW mh, Staged(s, 2 + 2 * k, t, r, v, h, m, mh)
  PROVE  Staged(s, 3 + 2 * k, t, r, v, h, m, mh)
<1>1. Levels \in Nat /\ Levels <= 31
  BY JobFacts
<1>2. Levels - k \in 0 .. 31
  BY <1>1
<1>3. w \in Nat
  BY <1>2, PowerStep
<1>4. m = {v} /\ (HasFlag(s) => mh = {h})
  <2>1. 2 + 2 * k >= 3
    BY <1>1
  <2> QED BY <2>1 DEF Staged
<1>5. (w <= t /\ t < 2 * w) => Holds(v, h, s, r, Class(2 * w, t))
  <2>1. InRound(2 + 2 * k, k)
    BY DEF InRound
  <2> QED BY <2>1, RoundReads
<1> QED BY <1>4, <1>5, AfterRound

(* After the last round thread 0 has folded them all.                      *)
LEMMA FoldedAll ==
  ASSUME job \in Jobs, NEW s, NEW r, NEW v, NEW h, NEW m, NEW mh, Staged(s, 4 + 2 * Levels, 0, r, v, h, m, mh)
  PROVE  Holds(v, h, s, r, Indices)
<1>1. Levels \in 0 .. 31 /\ Levels \in 0 .. Levels /\ Levels - Levels = 0
  BY JobFacts
<1>2. Folded(s, 0, Levels, r, v, h)
  BY <1>1 DEF Staged, AtLevel
<1>3. 2 ^ (Levels - Levels) = 1
  BY <1>1
<1>4. Holds(v, h, s, r, Class(1, 0))
  BY <1>2, <1>3 DEF Folded
<1> QED BY <1>4, ClassOne

-----------------------------------------------------------------------------
(* The inductive invariant: what a thread holds, and has published, where  *)
(* it is.                                                                  *)

StageFine(u, p, r, v, h, m, mh) ==
  \A s \in {1, 2} : \A q \in 1 .. StageLen : InStage(p, s, q) => Staged(s, q, u, r, v, h, m, mh)

Taken(v, s, r) == \E h \in BOOLEAN : Holds(v, h, s, r, Indices)

(* The stage results thread u has loaded.                                  *)
RedFine(p, r, x) ==
  job.lift = "rowreduce" =>
    /\ (StageLen < p /\ p <= 2 * StageLen) => \E y : x = <<y>> /\ Taken(y, 1, r)
    /\ p > 2 * StageLen => \E y, z : x = <<y, z>> /\ Taken(y, 1, r) /\ Taken(z, 2, r)

(* A stage's result is in its place from when thread 0 shares it until it  *)
(* shares that of the next row.                                            *)
LastShared(s, p, r) == IF p > (s - 1) * StageLen + 4 + 2 * Levels THEN r ELSE r - 1

SharedFine(p, r, st) ==
  job.lift = "rowreduce" =>
    \A s \in {1, 2} : LastShared(s, p, r) >= 0 => \E v : st[s] = {v} /\ Taken(v, s, LastShared(s, p, r))

(* The scan: thread j's chunk ends where thread j + 1's begins.            *)
Bound(j) == IF j <= 0 THEN 0 ELSE IF j * ChunkSize < job.extent THEN j * ChunkSize ELSE job.extent
Span(r, a, b) == {Leaf(r, At(p)) : p \in a .. b - 1}

Scanned(v, h, r, a, b) == Gathers(v, Span(r, a, b)) /\ ((HasFlag(1) /\ ~h) => v = <<>>)

(* After l steps thread u has published its total and those of the 2 ^ l - *)
(* 1 threads before it.                                                    *)
Summed(u, l, r, m, mh) ==
  \E x, y : m = {x} /\ (HasFlag(1) => mh = {y}) /\ Scanned(x, y, r, Bound(u + 1 - 2 ^ l), Bound(u + 1))

ScanFine(u, p, r, v, h, w, m, mh) ==
  job.lift = "scan" =>
    /\ \A l \in 0 .. Levels :
         LET from == Bound(u + 1 - 2 ^ l)
         IN  /\ (p \in 3 + 4 * l .. 6 + 4 * l) => Summed(u, l, r, m, mh)
             /\ ((p \in 3 + 4 * l .. 6 + 4 * l /\ p <= 4 + 4 * Levels) \/ (p = 2 /\ l = 0)) =>
                  Scanned(v, h, r, from, Bound(u + 1))
             /\ (p \in 5 + 4 * l .. 6 + 4 * l /\ l < Levels /\ u >= 2 ^ l) =>
                  Gathers(w, Span(r, Bound(u + 1 - 2 * 2 ^ l), from))
    /\ p = 5 + 4 * Levels => Scanned(v, h, r, 0, Bound(u))

Fine(u, p, r, v, h, w, x, m, mh) ==
  /\ StageFine(u, p, r, v, h, m, mh)
  /\ RedFine(p, r, x)
  /\ ScanFine(u, p, r, v, h, w, m, mh)

OutFine(o) == \A r \in DOMAIN o : \A i \in DOMAIN o[r] : \A v \in o[r][i] : Right(r, i, v)

LocalsTyped(v, h, w, x, mh) ==
  /\ DOMAIN v = Threads /\ h \in [Threads -> BOOLEAN] /\ DOMAIN w = Threads /\ DOMAIN x = Threads
  /\ \A u \in Threads : mh[u] \in {{}, {TRUE}, {FALSE}}

RightInv ==
  /\ LiftInv
  /\ LocalsTyped(acc, have, partner, red, partialHave)
  /\ \A u \in Threads :
       Fine(u, pc[u], row[u], acc[u], have[u], partner[u], red[u], partial[u], partialHave[u])
  /\ SharedFine(pc[0], row[0], stage)
  /\ OutFine(out)

-----------------------------------------------------------------------------
(* The kernel stays the same, and with it all that is made of it.          *)
LEMMA SameJob ==
  ASSUME job' = job
  PROVE  /\ \A u, p, r, v, h, w, x, m, mh :
              Fine(u, p, r, v, h, w, x, m, mh)' <=> Fine(u, p, r, v, h, w, x, m, mh)
         /\ \A p, r, st : SharedFine(p, r, st)' <=> SharedFine(p, r, st)
         /\ \A o : OutFine(o)' <=> OutFine(o)
         /\ \A v, h, w, x, mh : LocalsTyped(v, h, w, x, mh)' <=> LocalsTyped(v, h, w, x, mh)
         /\ Threads' = Threads
<1>1. Threads' = Threads /\ Levels' = Levels /\ Indices' = Indices /\ ChunkSize' = ChunkSize
  BY DEF Threads, Levels, Indices, ChunkSize
<1>2. StageLen' = StageLen
  BY <1>1 DEF StageLen
<1>3. \A s : OpOf(s)' = OpOf(s)
  BY DEF OpOf
<1>4. \A s : HasFlag(s)' <=> HasFlag(s)
  BY <1>3 DEF HasFlag
<1>5. \A s : FoldIdentity(s)' = FoldIdentity(s)
  BY <1>4 DEF FoldIdentity
<1>6. \A v, h, s, r, S : Holds(v, h, s, r, S)' <=> Holds(v, h, s, r, S)
  BY <1>4, <1>5 DEF Holds
<1>7. \A w, u : Class(w, u)' = Class(w, u)
  BY <1>1 DEF Class
<1>8. \A s, u, l, r, v, h : Folded(s, u, l, r, v, h)' <=> Folded(s, u, l, r, v, h)
  BY <1>1, <1>6, <1>7 DEF Folded
<1>9. \A s, q, u, r, v, h, m, mh : Staged(s, q, u, r, v, h, m, mh)' <=> Staged(s, q, u, r, v, h, m, mh)
  BY <1>1, <1>4, <1>8 DEF Staged
<1>10. \A p, s, q : InStage(p, s, q)' <=> InStage(p, s, q)
  BY <1>1, <1>2 DEF InStage
<1>11. \A u, p, r, v, h, m, mh : StageFine(u, p, r, v, h, m, mh)' <=> StageFine(u, p, r, v, h, m, mh)
  BY <1>2, <1>9, <1>10 DEF StageFine
<1>12. \A v, s, r : Taken(v, s, r)' <=> Taken(v, s, r)
  BY <1>1, <1>6 DEF Taken
<1>13. \A p, r, x : RedFine(p, r, x)' <=> RedFine(p, r, x)
  BY <1>2, <1>12 DEF RedFine
<1>14. \A s, p, r : LastShared(s, p, r)' = LastShared(s, p, r)
  BY <1>1, <1>2 DEF LastShared
<1>15. \A p, r, st : SharedFine(p, r, st)' <=> SharedFine(p, r, st)
  BY <1>12, <1>14 DEF SharedFine
<1>16. \A p : At(p)' = At(p)
  BY DEF At
<1>17. \A r, a, b : Span(r, a, b)' = Span(r, a, b)
  BY <1>16 DEF Span
<1>18. \A j : Bound(j)' = Bound(j)
  BY <1>1 DEF Bound
<1>19. \A v, h, r, a, b : Scanned(v, h, r, a, b)' <=> Scanned(v, h, r, a, b)
  BY <1>4, <1>17 DEF Scanned
<1>20. \A u, p, r, v, h, w, m, mh : ScanFine(u, p, r, v, h, w, m, mh)' <=> ScanFine(u, p, r, v, h, w, m, mh)
  <2>1. \A u, l, r, m, mh : Summed(u, l, r, m, mh)' <=> Summed(u, l, r, m, mh)
    BY <1>4, <1>18, <1>19 DEF Summed
  <2> QED BY <1>1, <1>17, <1>18, <1>19, <2>1 DEF ScanFine
<1>21. \A u, p, r, v, h, w, x, m, mh :
         Fine(u, p, r, v, h, w, x, m, mh)' <=> Fine(u, p, r, v, h, w, x, m, mh)
  BY <1>11, <1>13, <1>20 DEF Fine
<1>22. \A s, v, e : FoldStep(s, FALSE, v, e)' = FoldStep(s, FALSE, v, e)
  BY <1>4 DEF FoldStep
<1>23. \A s, r : Serial(s, r)' = Serial(s, r)
  BY <1>5, <1>22 DEF Serial
<1>24. \A r, i : SerialPrefix(r, i)' = SerialPrefix(r, i)
  BY <1>16 DEF SerialPrefix
<1>25. \A r, i, v : Right(r, i, v)' <=> Right(r, i, v)
  BY <1>23, <1>24 DEF Right
<1>26. \A o : OutFine(o)' <=> OutFine(o)
  BY <1>25 DEF OutFine
<1>27. \A v, h, w, x, mh : LocalsTyped(v, h, w, x, mh)' <=> LocalsTyped(v, h, w, x, mh)
  BY <1>1 DEF LocalsTyped
<1> QED BY <1>1, <1>15, <1>21, <1>26, <1>27

(* A step changes nothing of another thread's.                             *)
Own(t) ==
  \A u \in Threads : u # t =>
    /\ pc'[u] = pc[u] /\ row'[u] = row[u]
    /\ acc'[u] = acc[u] /\ have'[u] = have[u] /\ partner'[u] = partner[u] /\ red'[u] = red[u]
    /\ partial'[u] = partial[u] /\ partialHave'[u] = partialHave[u]

(* What a step of t has to show.                                           *)
StaysRight(t) ==
  /\ job' = job
  /\ LocalsTyped(acc', have', partner', red', partialHave')
  /\ Own(t)
  /\ Fine(t, pc'[t], row'[t], acc'[t], have'[t], partner'[t], red'[t], partial'[t], partialHave'[t])
  /\ SharedFine(pc'[0], row'[0], stage')
  /\ OutFine(out')

LEMMA StepRight ==
  ASSUME RightInv, LiftInv', NEW t \in Threads, StaysRight(t)
  PROVE  RightInv'
<1>1. job' = job
  BY DEF StaysRight
<1>2. ASSUME NEW u \in Threads
      PROVE  Fine(u, pc'[u], row'[u], acc'[u], have'[u], partner'[u], red'[u], partial'[u], partialHave'[u])
  <2>1. CASE u = t
    BY <2>1 DEF StaysRight
  <2>2. CASE u # t
    <3>1. Fine(u, pc[u], row[u], acc[u], have[u], partner[u], red[u], partial[u], partialHave[u])
      BY DEF RightInv
    <3>2. /\ pc'[u] = pc[u] /\ row'[u] = row[u]
          /\ acc'[u] = acc[u] /\ have'[u] = have[u] /\ partner'[u] = partner[u] /\ red'[u] = red[u]
          /\ partial'[u] = partial[u] /\ partialHave'[u] = partialHave[u]
      BY <2>2 DEF StaysRight, Own
    <3> QED BY <3>1, <3>2
  <2> QED BY <2>1, <2>2
<1>3. \A u \in Threads' :
        Fine(u, pc[u], row[u], acc[u], have[u], partner[u], red[u], partial[u], partialHave[u])'
  BY <1>1, <1>2, SameJob
<1>4. LocalsTyped(acc, have, partner, red, partialHave)'
  BY <1>1, SameJob DEF StaysRight
<1>5. SharedFine(pc[0], row[0], stage)'
  BY <1>1, SameJob DEF StaysRight
<1>6. OutFine(out)'
  BY <1>1, SameJob DEF StaysRight
<1> QED BY <1>3, <1>4, <1>5, <1>6 DEF RightInv

-----------------------------------------------------------------------------
(* What stays as a thread moves on.                                        *)

LEMMA LengthsOf ==
  ASSUME job \in Jobs
  PROVE  Levels \in Nat /\ Levels <= 31 /\ StageLen \in Nat /\ StageLen = 6 + 2 * Levels
<1>1. Levels \in 0 .. 31
  BY JobFacts
<1> QED BY <1>1 DEF StageLen

LEMMA Moved ==
  ASSUME LiftInv, NEW t \in Threads, Moves(t)
  PROVE  /\ job' = job /\ job \in Jobs /\ 0 \in Threads
         /\ pc[t] \in 1 .. Len(Program) /\ pc[t] \in Nat /\ row[t] \in Nat
         /\ \A u \in Threads : u # t => pc'[u] = pc[u] /\ row'[u] = row[u]
         /\ IF pc[t] = Len(Program) THEN pc'[t] = 1 /\ row'[t] = row[t] + 1
                                    ELSE pc'[t] = pc[t] + 1 /\ row'[t] = row[t]
<1>1. /\ job \in Jobs /\ pc \in [Threads -> 1 .. Len(Program)] /\ row \in [Threads -> Nat]
  BY DEF LiftInv, LiftTyped
<1>2. 0 \in Threads
  BY <1>1, JobFacts
<1>3. CASE pc[t] = Len(Program)
  <2>1. pc' = [pc EXCEPT ![t] = 1] /\ row' = [row EXCEPT ![t] = @ + 1] /\ job' = job
    BY <1>3 DEF Moves
  <2> QED BY <1>1, <1>2, <1>3, <2>1
<1>4. CASE pc[t] # Len(Program)
  <2>1. pc' = [pc EXCEPT ![t] = @ + 1] /\ row' = row /\ job' = job
    BY <1>4 DEF Moves
  <2> QED BY <1>1, <1>2, <1>4, <2>1
<1> QED BY <1>3, <1>4

(* A place that is no place of a stage, and the first place of one.        *)
LEMMA FirstStaged ==
  ASSUME job \in Jobs, NEW s, NEW u, NEW r, NEW v, NEW h, NEW m, NEW mh
  PROVE  Staged(s, 1, u, r, v, h, m, mh)
<1>1. Levels \in Nat
  BY LengthsOf
<1>2. \A l \in 0 .. Levels : ~AtLevel(1, l)
  BY <1>1 DEF AtLevel
<1>3. ~(1 >= 3)
  OBVIOUS
<1> QED BY <1>2, <1>3 DEF Staged

LEMMA StageMoves ==
  ASSUME job \in Jobs, NEW p, NEW s, NEW q, InStage(p, s, q),
         NEW u, NEW r, NEW v, NEW h, NEW m, NEW mh,
         q # StageLen => Staged(s, q + 1, u, r, v, h, m, mh)
  PROVE  StageFine(u, p + 1, r, v, h, m, mh)
<1>1. ASSUME NEW z \in {1, 2}, NEW x \in 1 .. StageLen, InStage(p + 1, z, x)
      PROVE  Staged(z, x, u, r, v, h, m, mh)
  <2>1. IF q = StageLen THEN z = 2 /\ x = 1 ELSE z = s /\ x = q + 1
    <3>1. \A y, x1 : InStage(p + 1, y, x1) => IF q = StageLen THEN y = 2 /\ x1 = 1 ELSE y = s /\ x1 = q + 1
      BY PlaceIs
    <3> QED BY <1>1, <3>1, Zenon
  <2> QED BY <2>1, FirstStaged
<1> QED BY <1>1 DEF StageFine

LEMMA StageStarts ==
  ASSUME job \in Jobs, NEW u, NEW r, NEW v, NEW h, NEW m, NEW mh
  PROVE  StageFine(u, 1, r, v, h, m, mh)
<1>1. ASSUME NEW z \in {1, 2}, NEW x \in 1 .. StageLen, InStage(1, z, x)
      PROVE  x = 1
  <2>1. StageLen \in Nat /\ StageLen >= 6
    BY LengthsOf
  <2>2. (z - 1) * StageLen >= 0 /\ (z - 1) * StageLen \in Nat
    <3>1. z - 1 = 0 \/ z - 1 = 1
      OBVIOUS
    <3> QED BY <2>1, <3>1
  <2>3. 1 = x \/ 1 = (z - 1) * StageLen + x
    BY <1>1 DEF InStage
  <2> QED BY <2>2, <2>3
<1> QED BY <1>1, FirstStaged DEF StageFine

LEMMA StatementKind ==
  ASSUME NEW x, NEW s, NEW q, StatementAt(x, s, q)
  PROVE  x.do \in {"Slice", "Publish", "Barrier", "Round", "Store", "Share", "Take"}
<1>1. \/ \E w \in {"Slice", "Publish", "Store", "Share", "Take"} : x = Do(w, s)
      \/ x = Barrier
      \/ \E k \in 1 .. Levels : x = Do("Round", 2 ^ (Levels - k))
  BY DEF StatementAt
<1>2. ASSUME NEW w, NEW n, x = Do(w, n) PROVE x.do = w
  BY <1>2 DEF Do
<1>3. x = Barrier => x.do = "Barrier"
  BY DEF Barrier, Do
<1> QED BY <1>1, <1>2, <1>3

(* The statements of the scans and of the others are not the same.         *)
LEMMA StatementKinds ==
  ASSUME job \in Jobs, job.lift # "scan", NEW p \in 1 .. Len(Program)
  PROVE  Program[p].do \notin {"Chunk", "Partner", "Combine", "Offset", "Write"}
<1>1. CASE \E s \in {1, 2}, q \in 1 .. StageLen : InStage(p, s, q)
  <2>1. PICK s \in {1, 2}, q \in 1 .. StageLen : StatementAt(Program[p], s, q)
    BY <1>1, TextAt
  <2>2. Program[p].do \in {"Slice", "Publish", "Barrier", "Round", "Store", "Share", "Take"}
    BY <2>1, StatementKind
  <2> QED BY <2>2
<1>2. CASE Program[p] = Do("Epilogue", 3)
  BY <1>2 DEF Do
<1> QED BY <1>1, <1>2, Placed

(* Where the statements are that a lift has only in one place.             *)
LEMMA ShareIs ==
  ASSUME job \in Jobs, job.lift = "rowreduce", NEW s \in {1, 2}
  PROVE  /\ Program[(s - 1) * StageLen + 4 + 2 * Levels] = Do("Share", s)
         /\ Program[(s - 1) * StageLen + StageLen] = Do("Take", s)
<1>1. Levels \in Nat /\ StageLen \in Nat /\ StageLen = 6 + 2 * Levels
  BY LengthsOf
<1>2. PICK c : c = (s - 1) * StageLen
  OBVIOUS
<1>3. c \in Nat
  <2>1. s - 1 = 0 \/ s - 1 = 1
    OBVIOUS
  <2> QED BY <1>1, <1>2, <2>1
<1>4. 4 + 2 * Levels \in 1 .. StageLen /\ StageLen \in 1 .. StageLen /\ c + (4 + 2 * Levels) = c + 4 + 2 * Levels
  BY <1>1, <1>3
<1>5. StatementAt(Program[c + (4 + 2 * Levels)], s, 4 + 2 * Levels) /\ StatementAt(Program[c + StageLen], s, StageLen)
  <2>1. \A q \in 1 .. StageLen : StatementAt(Program[c + q], s, q)
    BY <1>2, RowReduceText
  <2> QED BY <1>4, <2>1
<1>6. ASSUME NEW x, StatementAt(x, s, 4 + 2 * Levels) PROVE x = Do("Share", s)
  BY <1>1, <1>6 DEF StatementAt
<1>7. ASSUME NEW x, StatementAt(x, s, StageLen) PROVE x = Do("Take", s)
  BY <1>1, <1>7 DEF StatementAt
<1>8. Program[c + 4 + 2 * Levels] = Do("Share", s) /\ Program[c + StageLen] = Do("Take", s)
  BY <1>4, <1>5, <1>6, <1>7
<1> QED BY <1>2, <1>8

(* The place a thread gets to from p.                                      *)
NextPlace(p, r, q, s) ==
  IF p = Len(Program) THEN q = 1 /\ s = r + 1 ELSE q = p + 1 /\ s = r

LEMMA SharedMoves ==
  ASSUME job \in Jobs, NEW p \in 1 .. Len(Program), NEW r \in Nat, NEW z, NEW x, NextPlace(p, r, z, x),
         NEW st, SharedFine(p, r, st), Program[p].do # "Share"
  PROVE  SharedFine(z, x, st)
<1>1. SUFFICES ASSUME job.lift = "rowreduce" PROVE SharedFine(z, x, st)
  BY DEF SharedFine
<1>2. PICK m, c : m = StageLen /\ c = 4 + 2 * Levels
  OBVIOUS
<1>3. m \in Nat /\ c \in Nat /\ c < m /\ m >= 6 /\ c >= 4
  <2>1. Levels \in Nat /\ StageLen = 6 + 2 * Levels
    BY LengthsOf
  <2> QED BY <1>2, <2>1
<1>4. Len(Program) = 2 * m + 1 /\ p \in Nat
  BY <1>1, <1>2, RowReduceText
<1>5. ASSUME NEW s \in {1, 2} PROVE LastShared(s, z, x) = LastShared(s, p, r)
  <2>1. PICK d : d = (s - 1) * m + c
    OBVIOUS
  <2>2. s - 1 = 0 \/ s - 1 = 1
    OBVIOUS
  <2>3. d \in Nat /\ d < 2 * m /\ d >= 1
    BY <1>3, <2>1, <2>2
  <2>4. (s - 1) * StageLen + 4 + 2 * Levels = d
    <3>1. (s - 1) * m \in Nat /\ Levels \in Nat
      BY <1>3, <2>2, LengthsOf
    <3> QED BY <1>2, <2>1, <3>1
  <2>5. p # d
    <3>1. Program[(s - 1) * StageLen + 4 + 2 * Levels] = Do("Share", s)
      BY <1>1, ShareIs
    <3> QED BY <2>4, <3>1 DEF Do
  <2>6. \A y, k : LastShared(s, y, k) = IF y > d THEN k ELSE k - 1
    BY <2>4 DEF LastShared
  <2>7. IF p = 2 * m + 1 THEN z = 1 /\ x = r + 1 ELSE z = p + 1 /\ x = r
    BY <1>4 DEF NextPlace
  <2> QED BY <1>3, <1>4, <2>3, <2>5, <2>6, <2>7
<1> QED BY <1>5 DEF SharedFine

LEMMA SharedStays ==
  ASSUME RightInv, NEW t \in Threads, Moves(t), stage' = stage, t # 0 \/ Program[pc[t]].do # "Share"
  PROVE  SharedFine(pc'[0], row'[0], stage')
<1>1. /\ job \in Jobs /\ 0 \in Threads /\ pc[t] \in 1 .. Len(Program) /\ row[t] \in Nat
      /\ \A u \in Threads : u # t => pc'[u] = pc[u] /\ row'[u] = row[u]
      /\ NextPlace(pc[t], row[t], pc'[t], row'[t])
  BY Moved DEF RightInv, NextPlace
<1>2. SharedFine(pc[0], row[0], stage)
  BY DEF RightInv
<1>3. CASE t # 0
  BY <1>1, <1>2, <1>3
<1>4. CASE t = 0
  <2>1. PICK p, r, z, x, st : p = pc[t] /\ r = row[t] /\ z = pc'[t] /\ x = row'[t] /\ st = stage
    OBVIOUS
  <2>2. /\ p \in 1 .. Len(Program) /\ r \in Nat /\ NextPlace(p, r, z, x) /\ SharedFine(p, r, st)
        /\ Program[p].do # "Share"
    BY <1>1, <1>2, <1>4, <2>1
  <2>3. SharedFine(z, x, st)
    BY <1>1, <2>2, SharedMoves
  <2> QED BY <1>4, <2>1, <2>3
<1> QED BY <1>3, <1>4

LEMMA RedMoves ==
  ASSUME job \in Jobs, NEW p \in 1 .. Len(Program), NEW r \in Nat, NEW z, NEW k, NextPlace(p, r, z, k),
         NEW x, RedFine(p, r, x), Program[p].do # "Take"
  PROVE  RedFine(z, k, x)
<1>1. SUFFICES ASSUME job.lift = "rowreduce" PROVE RedFine(z, k, x)
  BY DEF RedFine
<1>2. PICK m : m = StageLen
  OBVIOUS
<1>3. m \in Nat /\ m >= 6
  BY <1>2, LengthsOf
<1>4. Len(Program) = 2 * m + 1 /\ p \in Nat
  BY <1>1, <1>2, RowReduceText
<1>5. p # m /\ p # 2 * m
  <2>1. Program[(1 - 1) * StageLen + StageLen].do = "Take" /\ Program[(2 - 1) * StageLen + StageLen].do = "Take"
    BY <1>1, ShareIs DEF Do
  <2>2. (1 - 1) * StageLen + StageLen = m /\ (2 - 1) * StageLen + StageLen = 2 * m
    BY <1>2, <1>3
  <2> QED BY <2>1, <2>2
<1>6. CASE p = 2 * m + 1
  <2>1. z = 1 /\ ~(m < 1) /\ ~(1 > 2 * m)
    BY <1>3, <1>4, <1>6 DEF NextPlace
  <2> QED BY <1>2, <2>1 DEF RedFine
<1>7. CASE p # 2 * m + 1
  <2>1. z = p + 1 /\ k = r
    BY <1>4, <1>7 DEF NextPlace
  <2>2. /\ (m < z /\ z <= 2 * m) => (m < p /\ p <= 2 * m)
        /\ z > 2 * m => p > 2 * m
    BY <1>3, <1>4, <1>5, <1>7, <2>1
  <2> QED BY <1>1, <1>2, <2>1, <2>2 DEF RedFine
<1> QED BY <1>6, <1>7

LEMMA RedStays ==
  ASSUME RightInv, NEW t \in Threads, Moves(t), red'[t] = red[t], Program[pc[t]].do # "Take"
  PROVE  RedFine(pc'[t], row'[t], red'[t])
<1>1. job \in Jobs /\ pc[t] \in 1 .. Len(Program) /\ row[t] \in Nat /\ NextPlace(pc[t], row[t], pc'[t], row'[t])
  BY Moved DEF RightInv, NextPlace
<1>2. RedFine(pc[t], row[t], red[t])
  BY DEF RightInv, Fine
<1>3. PICK p, r, z, k, x : p = pc[t] /\ r = row[t] /\ z = pc'[t] /\ k = row'[t] /\ x = red[t]
  OBVIOUS
<1>4. p \in 1 .. Len(Program) /\ r \in Nat /\ NextPlace(p, r, z, k) /\ RedFine(p, r, x) /\ Program[p].do # "Take"
  BY <1>1, <1>2, <1>3
<1>5. RedFine(z, k, x)
  BY <1>1, <1>4, RedMoves
<1> QED BY <1>3, <1>5

LEMMA PublishesOwn ==
  ASSUME RightInv, NEW t \in Threads, NEW s, NEW value, NEW held \in BOOLEAN, Publishes(t, s, value, held)
  PROVE  /\ partial'[t] = {value} /\ (HasFlag(s) => partialHave'[t] = {held})
         /\ \A u \in Threads : u # t => partial'[u] = partial[u] /\ partialHave'[u] = partialHave[u]
         /\ \A u \in Threads : partialHave'[u] \in {{}, {TRUE}, {FALSE}}
         /\ stage' = stage
<1>1. DOMAIN partial = Threads /\ DOMAIN partialHave = Threads
  BY DEF RightInv, LiftInv, LiftTyped
<1>2. \A u \in Threads : partialHave[u] \in {{}, {TRUE}, {FALSE}}
  BY DEF RightInv, LocalsTyped
<1>3. stage' = stage /\ partial' = [partial EXCEPT ![t] = {value}]
  BY DEF Publishes
<1>4. partial'[t] = {value} /\ \A u \in Threads : u # t => partial'[u] = partial[u]
  BY <1>1, <1>3
<1>5. CASE HasFlag(s)
  <2>1. partialHave' = [partialHave EXCEPT ![t] = {held}]
    BY <1>5 DEF Publishes
  <2>2. partialHave'[t] = {held} /\ \A u \in Threads : u # t => partialHave'[u] = partialHave[u]
    BY <1>1, <2>1
  <2>3. {held} \in {{}, {TRUE}, {FALSE}}
    OBVIOUS
  <2> QED BY <1>2, <1>3, <1>4, <2>2, <2>3
<1>6. CASE ~HasFlag(s)
  <2>1. partialHave' = partialHave
    BY <1>6 DEF Publishes
  <2> QED BY <1>2, <1>3, <1>4, <1>6, <2>1
<1> QED BY <1>5, <1>6

-----------------------------------------------------------------------------
(* The text of a scan.                                                     *)

LEMMA StatementIs ==
  ASSUME job \in Jobs, NEW x, NEW s, NEW q, StatementAt(x, s, q)
  PROVE  /\ x.do = "Slice" => q = 1 /\ x.arg = s
         /\ x.do = "Publish" => q = 2 /\ x.arg = s
         /\ x.do = "Round" => \E k \in 1 .. Levels : q = 2 + 2 * k /\ x.arg = 2 ^ (Levels - k)
         /\ x.do = "Store" => q = 4 + 2 * Levels /\ job.lift = "reduce" /\ x.arg = s
         /\ x.do = "Share" => q = 4 + 2 * Levels /\ job.lift = "rowreduce" /\ x.arg = s
         /\ x.do = "Take" => q = StageLen /\ job.lift = "rowreduce" /\ x.arg = s
         /\ x = Barrier =>
              \/ q = 3 \/ (\E k \in 1 .. Levels : q = 3 + 2 * k)
              \/ (q = 5 + 2 * Levels /\ job.lift = "rowreduce")
<1>1. ASSUME NEW w, NEW n, x = Do(w, n) PROVE x.do = w /\ x.arg = n
  BY <1>1 DEF Do
<1>2. x = Barrier => x.do = "Barrier"
  BY DEF Barrier, Do
<1>3. CASE q = 1 /\ x = Do("Slice", s)
  <2>1. x.do = "Slice" /\ x.arg = s
    BY <1>1, <1>3
  <2> QED BY <1>2, <1>3, <2>1
<1>4. CASE q = 2 /\ x = Do("Publish", s)
  <2>1. x.do = "Publish" /\ x.arg = s
    BY <1>1, <1>4
  <2> QED BY <1>2, <1>4, <2>1
<1>5. CASE q = 3 /\ x = Barrier
  BY <1>2, <1>5
<1>6. ASSUME NEW k \in 1 .. Levels, q = 2 + 2 * k, x = Do("Round", 2 ^ (Levels - k))
      PROVE  x.do = "Round" /\ x.arg = 2 ^ (Levels - k)
  BY <1>1, <1>6
<1>7. CASE \E k \in 1 .. Levels : q = 2 + 2 * k /\ x = Do("Round", 2 ^ (Levels - k))
  <2>1. x.do = "Round" /\ \E k \in 1 .. Levels : q = 2 + 2 * k /\ x.arg = 2 ^ (Levels - k)
    BY <1>6, <1>7
  <2> QED BY <1>2, <2>1
<1>8. CASE \E k \in 1 .. Levels : q = 3 + 2 * k /\ x = Barrier
  BY <1>2, <1>8
<1>9. CASE q = 4 + 2 * Levels /\ job.lift = "reduce" /\ x = Do("Store", s)
  <2>1. x.do = "Store" /\ x.arg = s
    BY <1>1, <1>9
  <2> QED BY <1>2, <1>9, <2>1
<1>10. CASE q = 4 + 2 * Levels /\ job.lift = "rowreduce" /\ x = Do("Share", s)
  <2>1. x.do = "Share" /\ x.arg = s
    BY <1>1, <1>10
  <2> QED BY <1>2, <1>10, <2>1
<1>11. CASE q = 5 + 2 * Levels /\ job.lift = "rowreduce" /\ x = Barrier
  BY <1>2, <1>11
<1>12. CASE q = 6 + 2 * Levels /\ job.lift = "rowreduce" /\ x = Do("Take", s)
  <2>1. x.do = "Take" /\ x.arg = s /\ q = StageLen
    BY <1>1, <1>12 DEF StageLen
  <2> QED BY <1>2, <1>12, <2>1
<1> QED BY <1>3, <1>4, <1>5, <1>7, <1>8, <1>9, <1>10, <1>11, <1>12 DEF StatementAt

(* The statements of a scan's row.                                         *)
ScanAt(x, p) ==
  \/ p = 1 /\ x = Do("Chunk", 1)
  \/ p = 2 /\ x = Do("Publish", 1)
  \/ p = 3 /\ x = Barrier
  \/ \E l \in 0 .. Levels - 1 :
       \/ p = 4 + 4 * l /\ x = Do("Partner", 2 ^ l)
       \/ p = 5 + 4 * l /\ x = Barrier
       \/ p = 6 + 4 * l /\ x = Do("Combine", 2 ^ l)
       \/ p = 7 + 4 * l /\ x = Barrier
  \/ p = 4 + 4 * Levels /\ x = Do("Offset", 1)
  \/ p = 5 + 4 * Levels /\ x = Do("Write", 1)
  \/ p = 6 + 4 * Levels /\ x = Barrier

LEMMA TotalsAt ==
  ASSUME job \in Jobs, NEW l \in 0 .. Levels - 1
  PROVE  /\ TotalsScan[4 * l + 1] = Do("Partner", 2 ^ l) /\ TotalsScan[4 * l + 2] = Barrier
         /\ TotalsScan[4 * l + 3] = Do("Combine", 2 ^ l) /\ TotalsScan[4 * l + 4] = Barrier
<1>1. Levels \in Nat
  BY LengthsOf
<1>2. \A i \in 1 .. 4 * Levels :
        TotalsScan[i] = CASE i % 4 = 1 -> Do("Partner", 2 ^ (i \div 4))
                          [] i % 4 = 3 -> Do("Combine", 2 ^ (i \div 4))
                          [] OTHER     -> Barrier
  BY DEF TotalsScan
<1>3. PICK a, b, c, d : a = 4 * l + 1 /\ b = 4 * l + 2 /\ c = 4 * l + 3 /\ d = 4 * l + 4
  OBVIOUS
<1>4. /\ a \in 1 .. 4 * Levels /\ a % 4 = 1 /\ a \div 4 = l
      /\ b \in 1 .. 4 * Levels /\ b % 4 # 1 /\ b % 4 # 3
      /\ c \in 1 .. 4 * Levels /\ c % 4 # 1 /\ c % 4 = 3 /\ c \div 4 = l
      /\ d \in 1 .. 4 * Levels /\ d % 4 # 1 /\ d % 4 # 3
  BY <1>1, <1>3
<1>5. TotalsScan[a] = Do("Partner", 2 ^ l)
  <2>1. a % 4 # 3
    BY <1>4
  <2> QED BY <1>2, <1>4, <2>1, Zenon
<1>6. TotalsScan[b] = Barrier /\ TotalsScan[d] = Barrier
  BY <1>2, <1>4, Zenon
<1>7. TotalsScan[c] = Do("Combine", 2 ^ l)
  BY <1>2, <1>4, Zenon
<1> QED BY <1>3, <1>5, <1>6, <1>7

LEMMA ScanText ==
  ASSUME job \in Jobs, job.lift = "scan"
  PROVE  /\ Len(Program) = 6 + 4 * Levels
         /\ \A p \in 1 .. 6 + 4 * Levels : ScanAt(Program[p], p)
<1> DEFINE a == <<Do("Chunk", 1), Do("Publish", 1), Barrier>>
           rest == <<Do("Offset", 1), Do("Write", 1), Barrier>>
           P == a \o TotalsScan \o rest
           n == 3 + 4 * Levels
<1>1. /\ a \in Seq(Statement) /\ Len(a) = 3
      /\ a[1] = Do("Chunk", 1) /\ a[2] = Do("Publish", 1) /\ a[3] = Barrier
  BY DEF Do, Barrier, Statement, Kinds
<1>2. /\ rest \in Seq(Statement) /\ Len(rest) = 3
      /\ rest[1] = Do("Offset", 1) /\ rest[2] = Do("Write", 1) /\ rest[3] = Barrier
  BY DEF Do, Barrier, Statement, Kinds
<1>3. Program = P
  BY DEF Program, ScanRow
<1> HIDE DEF a, rest
<1>4. TotalsScan \in Seq(Statement) /\ Len(TotalsScan) = 4 * Levels
  BY TotalsScanIs
<1>5. Levels \in Nat
  BY LengthsOf
<1>6. /\ P \in Seq(Statement) /\ Len(P) = Len(a) + Len(TotalsScan) + Len(rest)
      /\ \A i \in 1 .. Len(a) : P[i] = a[i]
      /\ \A i \in 1 .. Len(TotalsScan) : P[Len(a) + i] = TotalsScan[i]
      /\ \A i \in 1 .. Len(rest) : P[Len(a) + Len(TotalsScan) + i] = rest[i]
  <2>1. a \in Seq(Statement) /\ TotalsScan \in Seq(Statement) /\ rest \in Seq(Statement)
    BY <1>1, <1>2, <1>4
  <2> QED BY <2>1, ThreeParts
<1> HIDE DEF P
<1>7. /\ Len(P) = n + 3 /\ P[1] = Do("Chunk", 1) /\ P[2] = Do("Publish", 1) /\ P[3] = Barrier
      /\ \A i \in 1 .. 4 * Levels : P[3 + i] = TotalsScan[i]
      /\ P[n + 1] = Do("Offset", 1) /\ P[n + 2] = Do("Write", 1) /\ P[n + 3] = Barrier
  BY <1>1, <1>2, <1>4, <1>5, <1>6
<1>8. ASSUME NEW p \in 1 .. 6 + 4 * Levels PROVE ScanAt(P[p], p)
  <2>1. CASE p \in {1, 2, 3}
    BY <1>7, <2>1 DEF ScanAt
  <2>2. CASE p \in 4 .. n
    <3>1. PICK l, j : l = (p - 4) \div 4 /\ j = (p - 4) % 4
      OBVIOUS
    <3>2. l \in 0 .. Levels - 1 /\ j \in 0 .. 3 /\ p = 4 + 4 * l + j
      BY <1>5, <2>2, <3>1
    <3>3. PICK i : i = 4 * l + 1 + j
      OBVIOUS
    <3>4. i \in 1 .. 4 * Levels /\ p = 3 + i
      BY <1>5, <3>2, <3>3
    <3>5. P[p] = TotalsScan[i]
      BY <1>7, <3>4
    <3>6. \/ p = 4 + 4 * l /\ i = 4 * l + 1
          \/ p = 5 + 4 * l /\ i = 4 * l + 2
          \/ p = 6 + 4 * l /\ i = 4 * l + 3
          \/ p = 7 + 4 * l /\ i = 4 * l + 4
      BY <3>2, <3>3
    <3>7. \/ p = 4 + 4 * l /\ P[p] = Do("Partner", 2 ^ l)
          \/ p = 5 + 4 * l /\ P[p] = Barrier
          \/ p = 6 + 4 * l /\ P[p] = Do("Combine", 2 ^ l)
          \/ p = 7 + 4 * l /\ P[p] = Barrier
      <4>1. /\ TotalsScan[4 * l + 1] = Do("Partner", 2 ^ l) /\ TotalsScan[4 * l + 2] = Barrier
            /\ TotalsScan[4 * l + 3] = Do("Combine", 2 ^ l) /\ TotalsScan[4 * l + 4] = Barrier
        BY <3>2, TotalsAt
      <4> QED BY <3>5, <3>6, <4>1, Zenon
    <3> QED BY <3>2, <3>7 DEF ScanAt
  <2>3. CASE p > n
    <3>1. \/ p = n + 1 /\ p = 4 + 4 * Levels
          \/ p = n + 2 /\ p = 5 + 4 * Levels
          \/ p = n + 3 /\ p = 6 + 4 * Levels
      BY <1>5, <2>3
    <3> QED BY <1>7, <3>1 DEF ScanAt
  <2> QED BY <1>5, <2>1, <2>2, <2>3
<1>9. Len(P) = 6 + 4 * Levels
  BY <1>5, <1>7
<1> QED BY <1>3, <1>8, <1>9

LEMMA ScanIs ==
  ASSUME job \in Jobs, NEW x, NEW p, ScanAt(x, p)
  PROVE  /\ x.do \in {"Chunk", "Publish", "Barrier", "Partner", "Combine", "Offset", "Write"}
         /\ x.do = "Chunk" => p = 1
         /\ x.do = "Publish" => p = 2 /\ x.arg = 1
         /\ x.do = "Partner" => \E l \in 0 .. Levels - 1 : p = 4 + 4 * l /\ x.arg = 2 ^ l
         /\ x.do = "Combine" => \E l \in 0 .. Levels - 1 : p = 6 + 4 * l /\ x.arg = 2 ^ l
         /\ x.do = "Offset" => p = 4 + 4 * Levels
         /\ x.do = "Write" => p = 5 + 4 * Levels
         /\ x = Barrier =>
              \/ p = 3 \/ (\E l \in 0 .. Levels - 1 : p = 5 + 4 * l \/ p = 7 + 4 * l)
              \/ p = 6 + 4 * Levels
<1>1. ASSUME NEW w, NEW n, x = Do(w, n) PROVE x.do = w /\ x.arg = n
  BY <1>1 DEF Do
<1>2. x = Barrier => x.do = "Barrier"
  BY DEF Barrier, Do
<1>3. CASE p = 1 /\ x = Do("Chunk", 1)
  <2>1. x.do = "Chunk"
    BY <1>1, <1>3
  <2> QED BY <1>2, <1>3, <2>1
<1>4. CASE p = 2 /\ x = Do("Publish", 1)
  <2>1. x.do = "Publish" /\ x.arg = 1
    BY <1>1, <1>4
  <2> QED BY <1>2, <1>4, <2>1
<1>5. CASE p = 3 /\ x = Barrier
  BY <1>2, <1>5
<1>6. ASSUME NEW l \in 0 .. Levels - 1,
             \/ p = 4 + 4 * l /\ x = Do("Partner", 2 ^ l)
             \/ p = 5 + 4 * l /\ x = Barrier
             \/ p = 6 + 4 * l /\ x = Do("Combine", 2 ^ l)
             \/ p = 7 + 4 * l /\ x = Barrier
      PROVE  \/ p = 4 + 4 * l /\ x.do = "Partner" /\ x.arg = 2 ^ l
             \/ p = 5 + 4 * l /\ x.do = "Barrier"
             \/ p = 6 + 4 * l /\ x.do = "Combine" /\ x.arg = 2 ^ l
             \/ p = 7 + 4 * l /\ x.do = "Barrier"
  BY <1>1, <1>2, <1>6, Zenon
<1>7. CASE \E l \in 0 .. Levels - 1 :
             \/ p = 4 + 4 * l /\ x = Do("Partner", 2 ^ l)
             \/ p = 5 + 4 * l /\ x = Barrier
             \/ p = 6 + 4 * l /\ x = Do("Combine", 2 ^ l)
             \/ p = 7 + 4 * l /\ x = Barrier
  <2>1. PICK l \in 0 .. Levels - 1 :
             \/ p = 4 + 4 * l /\ x.do = "Partner" /\ x.arg = 2 ^ l
             \/ p = 5 + 4 * l /\ x.do = "Barrier"
             \/ p = 6 + 4 * l /\ x.do = "Combine" /\ x.arg = 2 ^ l
             \/ p = 7 + 4 * l /\ x.do = "Barrier"
    BY <1>6, <1>7, Zenon
  <2> QED BY <1>2, <2>1
<1>8. CASE p = 4 + 4 * Levels /\ x = Do("Offset", 1)
  <2>1. x.do = "Offset"
    BY <1>1, <1>8
  <2> QED BY <1>2, <1>8, <2>1
<1>9. CASE p = 5 + 4 * Levels /\ x = Do("Write", 1)
  <2>1. x.do = "Write"
    BY <1>1, <1>9
  <2> QED BY <1>2, <1>9, <2>1
<1>10. CASE p = 6 + 4 * Levels /\ x = Barrier
  BY <1>2, <1>10
<1> QED BY <1>3, <1>4, <1>5, <1>7, <1>8, <1>9, <1>10 DEF ScanAt

-----------------------------------------------------------------------------
(* The steps of the reductions.                                            *)

LEMMA LoadedOne ==
  ASSUME NEW v, NEW none
  PROVE  Loaded({v}, none) = v
<1>1. Held({v}) = v
  BY DEF Held
<1> QED BY <1>1 DEF Loaded

(* A step within a stage.                                                  *)
LEMMA InStageStep ==
  ASSUME RightInv, NEW t \in Threads, Moves(t),
         \/ Program[pc[t]].do \in {"Slice", "Round", "Share", "Take"}
         \/ job.lift # "scan" /\ Program[pc[t]].do = "Publish"
  PROVE  \E s \in {1, 2}, q \in 1 .. StageLen :
           /\ InStage(pc[t], s, q) /\ StatementAt(Program[pc[t]], s, q)
           /\ pc'[t] = pc[t] + 1 /\ row'[t] = row[t] /\ job.lift # "scan"
           /\ Staged(s, q, t, row[t], acc[t], have[t], partial[t], partialHave[t])
<1>1. /\ job \in Jobs /\ pc[t] \in 1 .. Len(Program)
      /\ pc[t] # Len(Program) => pc'[t] = pc[t] + 1 /\ row'[t] = row[t]
  BY Moved DEF RightInv
<1>2. job.lift # "scan"
  <2>1. ASSUME job.lift = "scan" PROVE Program[pc[t]].do \notin {"Slice", "Round", "Share", "Take"}
    <3>1. ScanAt(Program[pc[t]], pc[t])
      BY <1>1, <2>1, ScanText
    <3>2. Program[pc[t]].do \in {"Chunk", "Publish", "Barrier", "Partner", "Combine", "Offset", "Write"}
      BY <1>1, <3>1, ScanIs
    <3> QED BY <3>2
  <2> QED BY <2>1
<1>3. Program[pc[t]] # Do("Epilogue", 3)
  BY DEF Do
<1>4. PICK s \in {1, 2}, q \in 1 .. StageLen : InStage(pc[t], s, q)
  BY <1>1, <1>2, <1>3, Placed
<1>5. StatementAt(Program[pc[t]], s, q)
  BY <1>1, <1>4, TextAt
<1>6. pc[t] # Len(Program)
  <2>1. CASE job.lift = "rowreduce"
    BY <1>1, <1>4, <2>1, PlaceIs
  <2>2. CASE job.lift = "reduce"
    <3>1. \/ q = 1 \/ q = 2 \/ \E k \in 1 .. Levels : q = 2 + 2 * k
      BY <1>1, <1>5, <2>2, StatementIs
    <3>2. q < 4 + 2 * Levels
      BY <1>1, <3>1, LengthsOf
    <3> QED BY <1>1, <1>4, <2>2, <3>2, PlaceIs
  <2> QED BY <1>1, <1>2, <2>1, <2>2, JobsAssumption
<1>7. Staged(s, q, t, row[t], acc[t], have[t], partial[t], partialHave[t])
  BY <1>4 DEF RightInv, Fine, StageFine
<1> QED BY <1>1, <1>2, <1>4, <1>5, <1>6, <1>7

LEMMA SliceRight ==
  ASSUME RightInv, NEW t \in Threads, Slice(t)
  PROVE  StaysRight(t)
<1>1. Moves(t) /\ Program[pc[t]].do = "Slice"
  BY DoingMoves DEF Slice
<1>2. PICK s \in {1, 2}, q \in 1 .. StageLen :
           /\ InStage(pc[t], s, q) /\ StatementAt(Program[pc[t]], s, q)
           /\ pc'[t] = pc[t] + 1 /\ row'[t] = row[t] /\ job.lift # "scan"
  BY <1>1, InStageStep
<1>3. /\ job' = job /\ job \in Jobs /\ \A u \in Threads : u # t => pc'[u] = pc[u] /\ row'[u] = row[u]
  BY <1>1, Moved DEF RightInv
<1>4. q = 1 /\ Arg(t) = s
  BY <1>1, <1>2, <1>3, StatementIs DEF Arg
<1>5. PICK v, h : /\ v = FoldStep(s, FALSE, FoldIdentity(s), SliceOf(t, row[t]))
                  /\ h = FoldHave(s, FALSE, SliceOf(t, row[t]))
  OBVIOUS
<1>6. h \in BOOLEAN /\ (h <=> FoldHave(s, FALSE, SliceOf(t, row[t])))
  BY <1>5 DEF FoldHave
<1>7. /\ acc' = [acc EXCEPT ![t] = v] /\ have' = [have EXCEPT ![t] = h]
      /\ partner' = partner /\ red' = red /\ partial' = partial /\ partialHave' = partialHave
      /\ stage' = stage /\ out' = out
  BY <1>4, <1>5 DEF Slice, shared
<1>8. LocalsTyped(acc, have, partner, red, partialHave)
  BY DEF RightInv
<1>9. acc'[t] = v /\ have'[t] = h /\ \A u \in Threads : u # t => acc'[u] = acc[u] /\ have'[u] = have[u]
  BY <1>7, <1>8 DEF LocalsTyped
<1>10. LocalsTyped(acc', have', partner', red', partialHave')
  BY <1>6, <1>7, <1>8 DEF LocalsTyped
<1>11. Own(t)
  BY <1>3, <1>7, <1>9 DEF Own
<1>12. Staged(s, 2, t, row[t], v, h, partial'[t], partialHave'[t])
  BY <1>3, <1>5, <1>6, SliceStaged
<1>13. StageFine(t, pc[t] + 1, row[t], v, h, partial'[t], partialHave'[t])
  <2>1. q # StageLen => q + 1 = 2
    BY <1>4
  <2> QED BY <1>2, <1>3, <1>12, <2>1, StageMoves
<1>14. RedFine(pc'[t], row'[t], red'[t])
  BY <1>1, <1>7, RedStays
<1>15. Fine(t, pc'[t], row'[t], acc'[t], have'[t], partner'[t], red'[t], partial'[t], partialHave'[t])
  BY <1>2, <1>9, <1>13, <1>14 DEF Fine, ScanFine
<1>16. SharedFine(pc'[0], row'[0], stage')
  BY <1>1, <1>7, SharedStays
<1>17. OutFine(out')
  BY <1>7 DEF RightInv
<1> QED BY <1>3, <1>10, <1>11, <1>15, <1>16, <1>17 DEF StaysRight

LEMMA PublishRightStage ==
  ASSUME RightInv, NEW t \in Threads, Publish(t), job.lift # "scan"
  PROVE  StaysRight(t)
<1>1. Moves(t) /\ Program[pc[t]].do = "Publish"
  BY DoingMoves DEF Publish
<1>2. PICK s \in {1, 2}, q \in 1 .. StageLen :
           /\ InStage(pc[t], s, q) /\ StatementAt(Program[pc[t]], s, q)
           /\ pc'[t] = pc[t] + 1 /\ row'[t] = row[t] /\ job.lift # "scan"
           /\ Staged(s, q, t, row[t], acc[t], have[t], partial[t], partialHave[t])
  BY <1>1, InStageStep
<1>3. /\ job' = job /\ job \in Jobs /\ \A u \in Threads : u # t => pc'[u] = pc[u] /\ row'[u] = row[u]
  BY <1>1, Moved DEF RightInv
<1>4. q = 2 /\ Arg(t) = s
  BY <1>1, <1>2, <1>3, StatementIs DEF Arg
<1>5. /\ Publishes(t, s, acc[t], have[t])
      /\ acc' = acc /\ have' = have /\ partner' = partner /\ red' = red /\ out' = out
  BY <1>4 DEF Publish
<1>6. LocalsTyped(acc, have, partner, red, partialHave) /\ have[t] \in BOOLEAN
  BY DEF RightInv, LocalsTyped
<1>7. /\ partial'[t] = {acc[t]} /\ (HasFlag(s) => partialHave'[t] = {have[t]})
      /\ \A u \in Threads : u # t => partial'[u] = partial[u] /\ partialHave'[u] = partialHave[u]
      /\ \A u \in Threads : partialHave'[u] \in {{}, {TRUE}, {FALSE}}
      /\ stage' = stage
  BY <1>5, <1>6, PublishesOwn
<1>8. LocalsTyped(acc', have', partner', red', partialHave')
  BY <1>5, <1>6, <1>7 DEF LocalsTyped
<1>9. Own(t)
  BY <1>3, <1>5, <1>7 DEF Own
<1>10. Staged(s, 3, t, row[t], acc[t], have[t], partial'[t], partialHave'[t])
  <2>1. Staged(s, 2, t, row[t], acc[t], have[t], partial[t], partialHave[t])
    BY <1>2, <1>4
  <2> QED BY <1>3, <1>7, <2>1, PublishStaged
<1>11. StageFine(t, pc[t] + 1, row[t], acc[t], have[t], partial'[t], partialHave'[t])
  <2>1. q # StageLen => q + 1 = 3
    BY <1>4
  <2> QED BY <1>2, <1>3, <1>10, <2>1, StageMoves
<1>12. RedFine(pc'[t], row'[t], red'[t])
  BY <1>1, <1>5, RedStays
<1>13. Fine(t, pc'[t], row'[t], acc'[t], have'[t], partner'[t], red'[t], partial'[t], partialHave'[t])
  BY <1>2, <1>5, <1>11, <1>12 DEF Fine, ScanFine
<1>14. SharedFine(pc'[0], row'[0], stage')
  BY <1>1, <1>7, SharedStays
<1>15. OutFine(out')
  BY <1>5 DEF RightInv
<1> QED BY <1>3, <1>8, <1>9, <1>13, <1>14, <1>15 DEF StaysRight

(* The stage a round belongs to.                                           *)
LEMMA StageOfIs ==
  ASSUME job \in Jobs, NEW t, NEW s, NEW q, InStage(pc[t], s, q)
  PROVE  StageOf(t) = s
<1>1. PICK p : p = pc[t]
  OBVIOUS
<1>2. s \in {1, 2} /\ q \in 1 .. StageLen /\ InStage(p, s, q)
  BY <1>1, PlaceIs
<1>3. StageLen \in Nat /\ StageLen >= 6 /\ StageLen = 6 + 2 * Levels /\ Levels \in Nat
  BY LengthsOf
<1>4. CASE s = 2
  <2>1. job.lift = "rowreduce" /\ p = (2 - 1) * StageLen + q
    BY <1>2, <1>4 DEF InStage
  <2>2. PICK i : i = StageLen + 1
    OBVIOUS
  <2>3. i \in 1 .. p /\ i = (2 - 1) * StageLen + 1 /\ 1 \in 1 .. StageLen
    BY <1>2, <1>3, <2>1, <2>2
  <2>4. StatementAt(Program[i], 2, 1)
    BY <2>1, <2>3, RowReduceText
  <2>5. Program[i] = Do("Slice", 2)
    BY <1>3, <2>4 DEF StatementAt
  <2> QED BY <1>1, <1>4, <2>3, <2>5 DEF StageOf
<1>5. CASE s = 1
  <2>1. p = q /\ p \in 1 .. StageLen
    <3>1. (1 - 1) * StageLen + q = q
      BY <1>2, <1>3
    <3> QED BY <1>2, <1>5, <3>1 DEF InStage
  <2>2. ASSUME NEW i \in 1 .. p, Program[i] = Do("Slice", 2) PROVE FALSE
    <3>1. InStage(i, 1, i)
      <4>1. (1 - 1) * StageLen + i = i /\ i \in 1 .. StageLen
        BY <1>3, <2>1
      <4>2. job.lift = "reduce" => i \in 1 .. 4 + 2 * Levels
        <5>1. job.lift = "reduce" => q \in 1 .. 4 + 2 * Levels
          BY <1>2 DEF InStage
        <5> QED BY <1>3, <2>1, <5>1
      <4>3. job.lift = "reduce" \/ job.lift = "rowreduce"
        BY <1>2 DEF InStage
      <4> QED BY <4>1, <4>2, <4>3 DEF InStage
    <3>2. StatementAt(Program[i], 1, i)
      BY <3>1, TextAt
    <3>3. Program[i].do = "Slice" /\ Program[i].arg = 2
      BY <2>2 DEF Do
    <3>4. Program[i].arg = 1
      BY <3>2, <3>3, StatementIs
    <3> QED BY <3>3, <3>4
  <2> QED BY <1>1, <1>5, <2>2 DEF StageOf
<1> QED BY <1>2, <1>4, <1>5

(* Where another thread is while t is between two barriers.                *)
LEMMA Between ==
  ASSUME NEW P, Len(P) \in Nat, NEW p \in 1 .. Len(P), p > 1, p < Len(P), P[p - 1] = Barrier, P[p + 1] = Barrier,
         NEW r \in Nat, NEW s \in Nat, NEW q \in 1 .. Len(P), Behind(P, r, p) = Behind(P, s, q)
  PROVE  s = r /\ (q = p \/ q = p + 1)
<1>1. PICK b, e : b = p - 1 /\ e = p + 1
  OBVIOUS
<1>2. b \in 1 .. Len(P) /\ b < p /\ P[b] = Barrier /\ e \in 1 .. Len(P) /\ p < e /\ P[e] = Barrier
  BY <1>1
<1>3. s = r /\ b < q /\ q <= e
  BY <1>2, Confined
<1> QED BY <1>1, <1>3

LEMMA OtherNear ==
  ASSUME RightInv, NEW t \in Threads, NEW u \in Threads,
         pc[t] > 1, pc[t] < Len(Program), Program[pc[t] - 1] = Barrier, Program[pc[t] + 1] = Barrier
  PROVE  row[u] = row[t] /\ (pc[u] = pc[t] \/ pc[u] = pc[t] + 1)
<1>1. Len(Program) \in Nat
  BY StatementFacts DEF RightInv
<1>2. /\ row[t] \in Nat /\ pc[t] \in 1 .. Len(Program) /\ row[u] \in Nat /\ pc[u] \in 1 .. Len(Program)
      /\ Behind(Program, row[t], pc[t]) = Behind(Program, row[u], pc[u])
  BY DEF RightInv, LiftInv, LiftTyped, Together
<1>3. PICK P, r, p, s, q : P = Program /\ r = row[t] /\ p = pc[t] /\ s = row[u] /\ q = pc[u]
  OBVIOUS
<1>4. /\ Len(P) \in Nat /\ p \in 1 .. Len(P) /\ p > 1 /\ p < Len(P) /\ P[p - 1] = Barrier /\ P[p + 1] = Barrier
      /\ r \in Nat /\ s \in Nat /\ q \in 1 .. Len(P) /\ Behind(P, r, p) = Behind(P, s, q)
  BY <1>1, <1>2, <1>3
<1>5. s = r /\ (q = p \/ q = p + 1)
  BY <1>4, Between, SMTT(60)
<1> QED BY <1>3, <1>5

LEMMA RoundRight ==
  ASSUME RightInv, NEW t \in Threads, Round(t)
  PROVE  StaysRight(t)
<1>1. Moves(t) /\ Program[pc[t]].do = "Round"
  BY DoingMoves DEF Round
<1>2. PICK s \in {1, 2}, q \in 1 .. StageLen :
           /\ InStage(pc[t], s, q) /\ StatementAt(Program[pc[t]], s, q)
           /\ pc'[t] = pc[t] + 1 /\ row'[t] = row[t] /\ job.lift # "scan"
           /\ Staged(s, q, t, row[t], acc[t], have[t], partial[t], partialHave[t])
  BY <1>1, InStageStep
<1>3. /\ job' = job /\ job \in Jobs /\ \A u \in Threads : u # t => pc'[u] = pc[u] /\ row'[u] = row[u]
  BY <1>1, Moved DEF RightInv
<1>4. PICK k \in 1 .. Levels : q = 2 + 2 * k /\ Program[pc[t]].arg = 2 ^ (Levels - k)
  BY <1>1, <1>2, <1>3, StatementIs
<1>5. PICK w : w = Arg(t)
  OBVIOUS
<1>6. w = 2 ^ (Levels - k) /\ w \in Nat /\ w > 0 /\ 2 * w <= job.block /\ t \in Nat /\ t < job.block
  <2>1. Levels - k \in 0 .. 31
    BY <1>3, LengthsOf
  <2>2. 2 * Program[pc[t]].arg <= job.block
    BY <1>1, StatementFacts DEF RightInv, WellPlaced
  <2>3. w = 2 ^ (Levels - k)
    BY <1>4, <1>5 DEF Arg
  <2>4. w \in Nat /\ w > 0
    BY <2>1, <2>3, PowerStep
  <2>5. t \in Nat /\ t < job.block
    BY <1>3, JobFacts DEF Threads
  <2> QED BY <1>4, <1>5, <2>2, <2>3, <2>4, <2>5 DEF Arg
<1>7. StageOf(t) = s
  BY <1>2, <1>3, StageOfIs
<1>8. /\ LocalsTyped(acc, have, partner, red, partialHave) /\ have[t] \in BOOLEAN
      /\ partner' = partner /\ red' = red /\ out' = out
  BY DEF RightInv, LocalsTyped, Round
<1>9. q # StageLen => q + 1 = 3 + 2 * k
  BY <1>4
<1>10. RedFine(pc'[t], row'[t], red'[t])
  BY <1>1, <1>8, RedStays
<1>11. CASE t < w
  <2>1. PICK u : u = t + w
    OBVIOUS
  <2>2. u \in Threads /\ u \in Nat /\ w <= u /\ u < 2 * w
    <3>1. PICK b : b = job.block
      OBVIOUS
    <3>2. b \in Nat
      BY <1>3, <3>1, JobFacts
    <3>3. u \in 0 .. b - 1 /\ u \in Nat /\ w <= u /\ u < 2 * w
      BY <1>6, <1>11, <2>1, <3>1, <3>2
    <3> QED BY <3>1, <3>3 DEF Threads
  <2>3. row[u] = row[t] /\ (pc[u] = pc[t] \/ pc[u] = pc[t] + 1)
    <3>1. WellPlaced(Program, pc[t])
      BY StatementFacts DEF RightInv
    <3>2. pc[t] > 3 /\ pc[t] < Len(Program) /\ Program[pc[t] - 1] = Barrier /\ Program[pc[t] + 1] = Barrier
      BY <1>1, <3>1 DEF WellPlaced
    <3>3. pc[t] > 1
      <4>1. pc[t] \in Nat
        BY <1>1, Moved DEF RightInv
      <4> QED BY <3>2, <4>1
    <3> QED BY <2>2, <3>2, <3>3, OtherNear
  <2>4. PICK z : (z = 2 + 2 * k \/ z = 3 + 2 * k) /\ InStage(pc[u], s, z)
    <3>1. CASE pc[u] = pc[t]
      BY <1>2, <1>4, <3>1
    <3>2. CASE pc[u] = pc[t] + 1
      <4>1. q < 4 + 2 * Levels /\ q < StageLen /\ q + 1 = 3 + 2 * k
        BY <1>3, <1>4, LengthsOf
      <4>2. job.lift = "reduce" \/ job.lift = "rowreduce"
        BY <1>2 DEF InStage
      <4>3. InStage(pc[t] + 1, s, q + 1)
        BY <1>2, <1>3, <4>1, <4>2, PlaceIs
      <4> QED BY <3>2, <4>1, <4>3
    <3> QED BY <2>3, <3>1, <3>2
  <2>5. Staged(s, z, u, row[t], acc[u], have[u], partial[u], partialHave[u])
    <3>1. StageFine(u, pc[u], row[u], acc[u], have[u], partial[u], partialHave[u])
      BY <2>2 DEF RightInv, Fine
    <3>2. z \in 1 .. StageLen
      BY <1>3, <2>4, PlaceIs
    <3> QED BY <2>3, <2>4, <3>1, <3>2 DEF StageFine
  <2>6. /\ partial[u] = {acc[u]} /\ (HasFlag(s) => partialHave[u] = {have[u]})
        /\ Holds(acc[u], have[u], s, row[t], Class(2 * w, t + w))
    <3>1. PICK rr, v, h, m, mh : rr = row[t] /\ v = acc[u] /\ h = have[u] /\ m = partial[u] /\ mh = partialHave[u]
      OBVIOUS
    <3>2. Staged(s, z, u, rr, v, h, m, mh)
      BY <2>5, <3>1
    <3>4. InRound(z, k)
      BY <2>4 DEF InRound
    <3>3. m = {v} /\ (HasFlag(s) => mh = {h}) /\ Holds(v, h, s, rr, Class(2 * w, u))
      <4>1. job \in Jobs /\ w = 2 ^ (Levels - k)
        BY <1>3, <1>6
      <4>2. u \in Nat /\ w <= u /\ u < 2 * w
        BY <2>2
      <4> QED BY <3>2, <3>4, <4>1, <4>2, RoundReads
    <3> QED BY <2>1, <3>1, <3>3
  <2>7. have[u] \in BOOLEAN
    BY <1>8, <2>2 DEF LocalsTyped
  <2>8. Carries(s, u) <=> (HasFlag(s) => have[u])
    <3>1. HasFlag(s) => Loaded(partialHave[u], FALSE) = have[u]
      BY <2>6, LoadedOne
    <3> QED BY <3>1 DEF Carries
  <2>9. Loaded(partial[u], <<>>) = acc[u]
    BY <2>6, LoadedOne
  <2>10. PICK held : held = (have[t] \/ (HasFlag(s) /\ Carries(s, u)))
    OBVIOUS
  <2>11. PICK value : value = IF Carries(s, u) THEN Combined(s, have[t], acc[t], Loaded(partial[u], <<>>)) ELSE acc[t]
    OBVIOUS
  <2>12. held \in BOOLEAN
    BY <2>10
  <2>13. Merges(s, acc[t], have[t], acc[u], have[u], value, held)
    <3>1. (held <=> (have[t] \/ (HasFlag(s) /\ Carries(s, u))))
      BY <2>10
    <3>2. value = IF Carries(s, u) THEN Combined(s, have[t], acc[t], acc[u]) ELSE acc[t]
      BY <2>9, <2>11
    <3>3. CASE Carries(s, u)
      <4>1. value = Combined(s, have[t], acc[t], acc[u]) /\ (HasFlag(s) => have[u]) /\ (held <=> (have[t] \/ HasFlag(s)))
        BY <2>8, <3>1, <3>2, <3>3
      <4> QED BY <1>8, <2>7, <2>12, <4>1 DEF Merges
    <3>4. CASE ~Carries(s, u)
      <4>1. value = acc[t] /\ ~(HasFlag(s) => have[u]) /\ (held <=> have[t])
        BY <2>8, <3>1, <3>2, <3>4
      <4> QED BY <1>8, <2>7, <2>12, <4>1 DEF Merges
    <3> QED BY <3>3, <3>4
  <2>14. /\ acc' = [acc EXCEPT ![t] = value] /\ have' = [have EXCEPT ![t] = held]
         /\ Publishes(t, s, value, held)
    BY <1>5, <1>7, <1>11, <2>1, <2>10, <2>11 DEF Round
  <2>15. /\ partial'[t] = {value} /\ (HasFlag(s) => partialHave'[t] = {held})
         /\ \A x \in Threads : x # t => partial'[x] = partial[x] /\ partialHave'[x] = partialHave[x]
         /\ \A x \in Threads : partialHave'[x] \in {{}, {TRUE}, {FALSE}}
         /\ stage' = stage
    BY <2>12, <2>14, PublishesOwn
  <2>16. /\ acc'[t] = value /\ have'[t] = held
         /\ \A x \in Threads : x # t => acc'[x] = acc[x] /\ have'[x] = have[x]
    BY <1>8, <2>14 DEF LocalsTyped
  <2>17. LocalsTyped(acc', have', partner', red', partialHave')
    BY <1>8, <2>12, <2>14, <2>15 DEF LocalsTyped
  <2>18. Own(t)
    BY <1>3, <1>8, <2>15, <2>16 DEF Own
  <2>19. Staged(s, 3 + 2 * k, t, row[t], value, held, partial'[t], partialHave'[t])
    <3>1. Staged(s, 2 + 2 * k, t, row[t], acc[t], have[t], partial[t], partialHave[t])
      BY <1>2, <1>4
    <3>2. PICK rr, v, h, m, mh : rr = row[t] /\ v = acc[t] /\ h = have[t] /\ m = partial[t] /\ mh = partialHave[t]
      OBVIOUS
    <3>3. PICK x, y, n, nh : x = acc[u] /\ y = have[u] /\ n = partial'[t] /\ nh = partialHave'[t]
      OBVIOUS
    <3>4. Staged(s, 2 + 2 * k, t, rr, v, h, m, mh) /\ Holds(x, y, s, rr, Class(2 * w, t + w))
      BY <2>6, <3>1, <3>2, <3>3
    <3>5. Merges(s, v, h, x, y, value, held) /\ n = {value} /\ (HasFlag(s) => nh = {held})
      BY <2>13, <2>15, <3>2, <3>3
    <3>7. Staged(s, 3 + 2 * k, t, rr, value, held, n, nh)
      BY <1>3, <1>6, <1>11, <3>4, <3>5, RoundStaged
    <3> QED BY <3>2, <3>3, <3>7
  <2>20. StageFine(t, pc[t] + 1, row[t], value, held, partial'[t], partialHave'[t])
    BY <1>2, <1>3, <1>9, <2>19, StageMoves
  <2>21. Fine(t, pc'[t], row'[t], acc'[t], have'[t], partner'[t], red'[t], partial'[t], partialHave'[t])
    BY <1>2, <1>10, <2>16, <2>20 DEF Fine, ScanFine
  <2>22. SharedFine(pc'[0], row'[0], stage')
    BY <1>1, <2>15, SharedStays
  <2>23. OutFine(out')
    BY <1>8 DEF RightInv
  <2> QED BY <1>3, <2>17, <2>18, <2>21, <2>22, <2>23 DEF StaysRight
<1>12. CASE ~(t < w)
  <2>1. acc' = acc /\ have' = have /\ partial' = partial /\ partialHave' = partialHave /\ stage' = stage
    BY <1>5, <1>12 DEF Round, shared
  <2>2. LocalsTyped(acc', have', partner', red', partialHave')
    BY <1>8, <2>1
  <2>3. Own(t)
    BY <1>3, <1>8, <2>1 DEF Own
  <2>4. Staged(s, 3 + 2 * k, t, row[t], acc[t], have[t], partial[t], partialHave[t])
    <3>1. Staged(s, 2 + 2 * k, t, row[t], acc[t], have[t], partial[t], partialHave[t])
      BY <1>2, <1>4
    <3> QED BY <1>3, <1>6, <1>12, <3>1, RoundIdle
  <2>5. StageFine(t, pc[t] + 1, row[t], acc[t], have[t], partial[t], partialHave[t])
    BY <1>2, <1>3, <1>9, <2>4, StageMoves
  <2>6. Fine(t, pc'[t], row'[t], acc'[t], have'[t], partner'[t], red'[t], partial'[t], partialHave'[t])
    BY <1>2, <1>10, <2>1, <2>5 DEF Fine, ScanFine
  <2>7. SharedFine(pc'[0], row'[0], stage')
    BY <1>1, <2>1, SharedStays
  <2>8. OutFine(out')
    BY <1>8 DEF RightInv
  <2> QED BY <1>3, <2>2, <2>3, <2>6, <2>7, <2>8 DEF StaysRight
<1> QED BY <1>11, <1>12

(* What a thread holds of all the elements is what the serial kernel does. *)
LEMMA HoldsRight ==
  ASSUME job \in Jobs, NEW v, NEW h, NEW s, NEW r, Holds(v, h, s, r, Indices)
  PROVE  Permutes(v, Serial(s, r))
<1>1. PICK g \in BOOLEAN : Holds(Serial(s, r), g, s, r, Indices)
  BY SerialHolds
<1> QED BY <1>1, HoldsSame

LEMMA StoreRight ==
  ASSUME RightInv, NEW t \in Threads, Store(t)
  PROVE  StaysRight(t)
<1>1. Moves(t) /\ Program[pc[t]].do = "Store"
  BY DoingMoves DEF Store
<1>2. /\ job' = job /\ job \in Jobs /\ 0 \in Threads /\ pc[t] \in 1 .. Len(Program)
      /\ \A u \in Threads : u # t => pc'[u] = pc[u] /\ row'[u] = row[u]
      /\ pc[t] = Len(Program) => pc'[t] = 1 /\ row'[t] = row[t] + 1
  BY <1>1, Moved DEF RightInv
<1>3. job.lift # "scan"
  <2>1. ASSUME job.lift = "scan" PROVE FALSE
    <3>1. ScanAt(Program[pc[t]], pc[t])
      BY <1>2, <2>1, ScanText
    <3>2. Program[pc[t]].do \in {"Chunk", "Publish", "Barrier", "Partner", "Combine", "Offset", "Write"}
      BY <1>2, <3>1, ScanIs
    <3> QED BY <1>1, <3>2
  <2> QED BY <2>1
<1>4. PICK s \in {1, 2}, q \in 1 .. StageLen : InStage(pc[t], s, q)
  <2>1. Program[pc[t]] # Do("Epilogue", 3)
    BY <1>1 DEF Do
  <2> QED BY <1>2, <1>3, <2>1, Placed
<1>5. q = 4 + 2 * Levels /\ job.lift = "reduce" /\ s = 1 /\ pc[t] = Len(Program)
  <2>1. StatementAt(Program[pc[t]], s, q)
    BY <1>2, <1>4, TextAt
  <2>2. q = 4 + 2 * Levels /\ job.lift = "reduce"
    BY <1>1, <1>2, <2>1, StatementIs
  <2>3. s = 1 /\ pc[t] = q
    BY <1>4, <2>2 DEF InStage
  <2> QED BY <1>2, <2>2, <2>3, ReduceText
<1>6. /\ LocalsTyped(acc, have, partner, red, partialHave)
      /\ acc' = acc /\ have' = have /\ partner' = partner /\ red' = red
      /\ partial' = partial /\ partialHave' = partialHave /\ stage' = stage
  BY DEF RightInv, Store, shared
<1>7. Own(t)
  BY <1>2, <1>6 DEF Own
<1>8. Fine(t, pc'[t], row'[t], acc'[t], have'[t], partner'[t], red'[t], partial'[t], partialHave'[t])
  <2>1. StageFine(t, 1, row'[t], acc'[t], have'[t], partial'[t], partialHave'[t])
    BY <1>2, StageStarts
  <2> QED BY <1>2, <1>5, <2>1 DEF Fine, RedFine, ScanFine
<1>9. SharedFine(pc'[0], row'[0], stage')
  BY <1>5 DEF SharedFine
<1>10. OutFine(out')
  <2>1. OutFine(out)
    BY DEF RightInv
  <2>2. CASE t # 0
    BY <2>1, <2>2 DEF Store
  <2>3. CASE t = 0
    <3>1. Staged(1, 4 + 2 * Levels, 0, row[0], acc[0], have[0], partial[0], partialHave[0])
      BY <1>2, <1>4, <1>5, <2>3 DEF RightInv, Fine, StageFine
    <3>2. Holds(acc[0], have[0], 1, row[0], Indices)
      BY <1>2, <3>1, FoldedAll
    <3>3. Permutes(acc[0], Serial(1, row[0]))
      BY <1>2, <3>2, HoldsRight
    <3>4. out' = [out EXCEPT ![row[0]][0] = @ \cup {acc[0]}]
      BY <2>3 DEF Store
    <3>5. PICK a, z : a = acc[0] /\ z = row[0]
      OBVIOUS
    <3>6. Permutes(a, Serial(1, z)) /\ out' = [out EXCEPT ![z][0] = @ \cup {a}]
      BY <3>3, <3>4, <3>5
    <3>7. DOMAIN out' = DOMAIN out
      BY <3>6
    <3>8. ASSUME NEW r \in DOMAIN out', NEW i \in DOMAIN out'[r], NEW v \in out'[r][i]
          PROVE  Right(r, i, v)
      <4>1. r \in DOMAIN out
        BY <3>7, <3>8
      <4>2. CASE r # z
        <5>1. out'[r] = out[r]
          BY <3>6, <4>1, <4>2
        <5> QED BY <2>1, <3>8, <4>1, <5>1 DEF OutFine
      <4>3. CASE r = z
        <5>1. out'[r] = [out[r] EXCEPT ![0] = @ \cup {a}]
          BY <3>6, <4>1, <4>3
        <5>2. i \in DOMAIN out[r]
          BY <3>8, <5>1
        <5>3. v \in out[r][i] \/ v = a
          BY <3>8, <5>1, <5>2
        <5>4. CASE v \in out[r][i]
          BY <2>1, <4>1, <5>2, <5>4 DEF OutFine
        <5>5. CASE v = a
          BY <1>5, <3>6, <4>3, <5>5 DEF Right
        <5> QED BY <5>3, <5>4, <5>5
      <4> QED BY <4>2, <4>3
    <3> QED BY <3>8 DEF OutFine
  <2> QED BY <2>2, <2>3
<1> QED BY <1>2, <1>6, <1>7, <1>8, <1>9, <1>10 DEF StaysRight

LEMMA ShareRight ==
  ASSUME RightInv, NEW t \in Threads, Share(t)
  PROVE  StaysRight(t)
<1>1. Moves(t) /\ Program[pc[t]].do = "Share"
  BY DoingMoves DEF Share
<1>2. PICK s \in {1, 2}, q \in 1 .. StageLen :
           /\ InStage(pc[t], s, q) /\ StatementAt(Program[pc[t]], s, q)
           /\ pc'[t] = pc[t] + 1 /\ row'[t] = row[t] /\ job.lift # "scan"
           /\ Staged(s, q, t, row[t], acc[t], have[t], partial[t], partialHave[t])
  BY <1>1, InStageStep
<1>3. /\ job' = job /\ job \in Jobs /\ 0 \in Threads /\ pc[t] \in Nat /\ row[t] \in Nat
      /\ \A u \in Threads : u # t => pc'[u] = pc[u] /\ row'[u] = row[u]
  BY <1>1, Moved DEF RightInv
<1>4. q = 4 + 2 * Levels /\ Arg(t) = s /\ job.lift = "rowreduce"
  BY <1>1, <1>2, <1>3, StatementIs DEF Arg
<1>5. /\ LocalsTyped(acc, have, partner, red, partialHave)
      /\ acc' = acc /\ have' = have /\ partner' = partner /\ red' = red
      /\ partial' = partial /\ partialHave' = partialHave /\ out' = out
  BY DEF RightInv, Share
<1>6. Own(t)
  BY <1>3, <1>5 DEF Own
<1>7. RedFine(pc'[t], row'[t], red'[t])
  BY <1>1, <1>5, RedStays
<1>8. Staged(s, q + 1, t, row[t], acc[t], have[t], partial[t], partialHave[t])
  BY <1>2, <1>3, <1>4, KeptStaged
<1>9. StageFine(t, pc[t] + 1, row[t], acc[t], have[t], partial[t], partialHave[t])
  BY <1>2, <1>3, <1>8, StageMoves
<1>10. Fine(t, pc'[t], row'[t], acc'[t], have'[t], partner'[t], red'[t], partial'[t], partialHave'[t])
  BY <1>2, <1>5, <1>7, <1>9 DEF Fine, ScanFine
<1>11. OutFine(out')
  BY <1>5 DEF RightInv
<1>12. SharedFine(pc'[0], row'[0], stage')
  <2>1. CASE t # 0
    <3>1. stage' = stage
      BY <2>1 DEF Share
    <3> QED BY <1>1, <2>1, <3>1, SharedStays
  <2>2. CASE t = 0
    <3>1. stage' = [stage EXCEPT ![s] = {acc[0]}]
      BY <1>4, <2>2 DEF Share
    <3>2. DOMAIN stage = 1 .. 2
      BY DEF RightInv, LiftInv, LiftTyped
    <3>3. stage'[s] = {acc[0]} /\ \A z \in {1, 2} : z # s => stage'[z] = stage[z]
      BY <3>1, <3>2
    <3>4. PICK m, c : m = StageLen /\ c = 4 + 2 * Levels
      OBVIOUS
    <3>5. m \in Nat /\ c \in Nat /\ c < m /\ c >= 4
      BY <1>3, <3>4, LengthsOf
    <3>6. pc[0] = (s - 1) * m + c
      BY <1>2, <1>4, <2>2, <3>4 DEF InStage
    <3>7. \A z \in {1, 2} : \A p, r : LastShared(z, p, r) = IF p > (z - 1) * m + c THEN r ELSE r - 1
      <4> SUFFICES ASSUME NEW z \in {1, 2}
                   PROVE  \A p, r : LastShared(z, p, r) = IF p > (z - 1) * m + c THEN r ELSE r - 1
        OBVIOUS
      <4>1. (z - 1) * StageLen + 4 + 2 * Levels = (z - 1) * m + c
        <5>1. (z - 1) * m \in Nat /\ Levels \in Nat
          <6>1. z - 1 = 0 \/ z - 1 = 1
            OBVIOUS
          <6> QED BY <1>3, <3>5, <6>1, LengthsOf
        <5> QED BY <3>4, <5>1
      <4> QED BY <4>1 DEF LastShared
    <3>8. ASSUME NEW z \in {1, 2}, LastShared(z, pc'[0], row'[0]) >= 0
          PROVE  \E v : stage'[z] = {v} /\ Taken(v, z, LastShared(z, pc'[0], row'[0]))
      <4>1. pc'[0] = (s - 1) * m + c + 1 /\ row'[0] = row[0] /\ row[0] \in Nat
        BY <1>2, <1>3, <2>2, <3>6
      <4>2. CASE z = s
        <5>1. LastShared(s, pc'[0], row'[0]) = row[0]
          <6>1. (s - 1) * m + c \in Nat
            <7>1. s - 1 = 0 \/ s - 1 = 1
              OBVIOUS
            <7> QED BY <3>5, <7>1
          <6>2. (s - 1) * m + c + 1 > (s - 1) * m + c
            BY <6>1
          <6> QED BY <3>7, <4>1, <6>2
        <5>2. Holds(acc[0], have[0], s, row[0], Indices)
          <6>1. Staged(s, 4 + 2 * Levels, 0, row[0], acc[0], have[0], partial[0], partialHave[0])
            BY <1>2, <1>4, <2>2
          <6> QED BY <1>3, <6>1, FoldedAll
        <5>3. have[0] \in BOOLEAN
          BY <1>3, <1>5 DEF LocalsTyped
        <5>4. Taken(acc[0], s, row[0])
          BY <5>2, <5>3 DEF Taken
        <5> QED BY <3>3, <4>2, <5>1, <5>4
      <4>3. CASE z # s
        <5>1. LastShared(z, pc'[0], row'[0]) = LastShared(z, pc[0], row[0])
          <6>1. (s - 1 = 0 /\ z - 1 = 1) \/ (s - 1 = 1 /\ z - 1 = 0)
            BY <4>3
          <6>2. PICK d : d = (z - 1) * m + c
            OBVIOUS
          <6>3. d \in Nat /\ (pc'[0] > d <=> pc[0] > d)
            BY <3>5, <3>6, <4>1, <6>1, <6>2
          <6> QED BY <3>7, <4>1, <6>2, <6>3
        <5>2. SharedFine(pc[0], row[0], stage)
          BY DEF RightInv
        <5> QED BY <1>4, <3>3, <3>8, <4>3, <5>1, <5>2 DEF SharedFine
      <4> QED BY <4>2, <4>3
    <3> QED BY <3>8 DEF SharedFine
  <2> QED BY <2>1, <2>2
<1> QED BY <1>3, <1>5, <1>6, <1>10, <1>11, <1>12 DEF StaysRight

(* Nobody is past the first barrier of the next row.                       *)
LEMMA NotTwoRows ==
  ASSUME NEW P, Len(P) \in Nat, 3 \in 1 .. Len(P), P[3] = Barrier,
         NEW r \in Nat, NEW p \in 1 .. Len(P), NEW s \in Nat, NEW q \in 1 .. Len(P), Behind(P, r, p) = Behind(P, s, q)
  PROVE  s <= r \/ (s = r + 1 /\ q <= 3)
<1>1. SUFFICES ASSUME s > r + 1 \/ (s = r + 1 /\ 3 < q) PROVE FALSE
  OBVIOUS
<1>2. <<r + 1, 3>> \in Behind(P, s, q)
  BY <1>1 DEF Behind
<1>3. <<r + 1, 3>> \notin Behind(P, r, p)
  BY DEF Behind
<1> QED BY <1>2, <1>3

(* Thread 0 has shared what another takes, and not yet that of the next    *)
(* row.                                                                    *)
LEMMA TakesRight ==
  ASSUME RightInv, NEW t \in Threads, job.lift = "rowreduce", NEW s \in {1, 2},
         pc[t] = (s - 1) * StageLen + StageLen, Program[pc[t] - 1] = Barrier
  PROVE  \E v : stage[s] = {v} /\ Taken(v, s, row[t])
<1>1. /\ job \in Jobs /\ row[t] \in Nat /\ pc[t] \in 1 .. Len(Program)
      /\ pc \in [Threads -> 1 .. Len(Program)] /\ row \in [Threads -> Nat]
  BY DEF RightInv, LiftInv, LiftTyped
<1>2. 0 \in Threads
  BY <1>1, JobFacts
<1>3. Behind(Program, row[t], pc[t]) = Behind(Program, row[0], pc[0])
  BY <1>2 DEF RightInv, LiftInv, Together
<1>4. Shaped(Program) /\ Len(Program) \in Nat
  BY StatementFacts DEF RightInv
<1>5. PICK P, r, p, z, q, m, c :
        /\ P = Program /\ r = row[t] /\ p = pc[t] /\ z = row[0] /\ q = pc[0]
        /\ m = StageLen /\ c = 4 + 2 * Levels
  OBVIOUS
<1>6. m \in Nat /\ c \in Nat /\ c < m /\ c >= 4 /\ m >= 6
  <2>1. Levels \in Nat /\ StageLen = 6 + 2 * Levels
    BY <1>1, LengthsOf DEF StageLen
  <2> QED BY <1>5, <2>1
<1>7. /\ Len(P) \in Nat /\ Len(P) = 2 * m + 1 /\ P[3] = Barrier
      /\ r \in Nat /\ p \in 1 .. Len(P) /\ z \in Nat /\ q \in 1 .. Len(P)
      /\ Behind(P, r, p) = Behind(P, z, q)
  BY <1>1, <1>2, <1>3, <1>4, <1>5, RowReduceText DEF Shaped
<1>8. PICK b : b = p - 1
  OBVIOUS
<1>9. p = (s - 1) * m + m /\ P[b] = Barrier
  BY <1>5, <1>8
<1>10. b \in 1 .. Len(P) /\ b < p /\ ((s = 1 /\ p = m) \/ (s = 2 /\ p = 2 * m))
  <2>1. (s = 1 /\ p = m) \/ (s = 2 /\ p = 2 * m)
    BY <1>6, <1>9
  <2> QED BY <1>6, <1>7, <1>8, <2>1
<1>11. r < z \/ (r = z /\ b < q)
  BY <1>7, <1>9, <1>10, PastBarrier, SMTT(30)
<1>12. \A y, x : LastShared(s, y, x) = IF y > (s - 1) * m + c THEN x ELSE x - 1
  <2>1. (s - 1) * StageLen + 4 + 2 * Levels = (s - 1) * m + c
    <3>1. (s - 1) * m \in Nat /\ Levels \in Nat
      <4>1. s - 1 = 0 \/ s - 1 = 1
        OBVIOUS
      <4> QED BY <1>1, <1>6, <4>1, LengthsOf
    <3> QED BY <1>5, <3>1
  <2> QED BY <2>1 DEF LastShared
<1>13. LastShared(s, q, z) = r
  <2>1. CASE s = 1
    <3>1. PICK e : e = m + 3
      OBVIOUS
    <3>2. e \in 1 .. Len(P) /\ p < e
      BY <1>6, <1>7, <1>10, <2>1, <3>1
    <3>3. P[e] = Barrier
      <4>1. StatementAt(Program[(2 - 1) * StageLen + 3], 2, 3)
        <5>1. 3 \in 1 .. StageLen
          BY <1>5, <1>6
        <5> QED BY <1>1, <5>1, RowReduceText
      <4>2. (2 - 1) * StageLen + 3 = e
        BY <1>5, <1>6, <3>1
      <4>3. StatementAt(P[e], 2, 3)
        BY <1>5, <4>1, <4>2
      <4>4. Levels \in Nat
        BY <1>1, LengthsOf
      <4>5. \A x : StatementAt(x, 2, 3) => x = Barrier
        BY <4>4 DEF StatementAt
      <4> QED BY <4>3, <4>5
    <3>4. z = r /\ b < q
      BY <1>7, <1>9, <1>10, <3>2, <3>3, Confined, SMTT(30)
    <3>5. (s - 1) * m + c = c
      BY <1>6, <2>1
    <3> QED BY <1>6, <1>7, <1>8, <1>10, <1>12, <2>1, <3>4, <3>5
  <2>2. CASE s = 2
    <3>1. z <= r \/ (z = r + 1 /\ q <= 3)
      <4>1. 3 \in 1 .. Len(P)
        BY <1>6, <1>7
      <4> QED BY <1>7, <4>1, NotTwoRows, SMTT(30)
    <3>2. (s - 1) * m + c = m + c
      BY <1>6, <2>2
    <3> QED BY <1>6, <1>7, <1>8, <1>10, <1>11, <1>12, <2>2, <3>1, <3>2
  <2> QED BY <2>1, <2>2
<1>14. SharedFine(pc[0], row[0], stage)
  BY DEF RightInv
<1> QED BY <1>5, <1>7, <1>13, <1>14 DEF SharedFine

LEMMA TakeRight ==
  ASSUME RightInv, NEW t \in Threads, Take(t)
  PROVE  StaysRight(t)
<1>1. Moves(t) /\ Program[pc[t]].do = "Take"
  BY DoingMoves DEF Take
<1>2. PICK s \in {1, 2}, q \in 1 .. StageLen :
           /\ InStage(pc[t], s, q) /\ StatementAt(Program[pc[t]], s, q)
           /\ pc'[t] = pc[t] + 1 /\ row'[t] = row[t] /\ job.lift # "scan"
  BY <1>1, InStageStep
<1>3. /\ job' = job /\ job \in Jobs /\ 0 \in Threads /\ pc[t] \in Nat /\ row[t] \in Nat
      /\ \A u \in Threads : u # t => pc'[u] = pc[u] /\ row'[u] = row[u]
  BY <1>1, Moved DEF RightInv
<1>4. q = StageLen /\ Arg(t) = s /\ job.lift = "rowreduce"
  BY <1>1, <1>2, <1>3, StatementIs DEF Arg
<1>5. pc[t] = (s - 1) * StageLen + StageLen
  BY <1>2, <1>4 DEF InStage
<1>6. PICK v : stage[s] = {v} /\ Taken(v, s, row[t])
  <2>1. Program[pc[t] - 1] = Barrier
    BY <1>1, StatementFacts DEF RightInv, WellPlaced
  <2> QED BY <1>4, <1>5, <2>1, TakesRight
<1>7. Loaded(stage[s], <<>>) = v
  BY <1>6, LoadedOne
<1>8. /\ LocalsTyped(acc, have, partner, red, partialHave)
      /\ acc' = acc /\ have' = have /\ partner' = partner /\ partial' = partial /\ partialHave' = partialHave
      /\ stage' = stage /\ out' = out
  BY DEF RightInv, Take, shared
<1>9. PICK x : x = IF s = 1 THEN <<v>> ELSE Append(red[t], v)
  OBVIOUS
<1>10. red' = [red EXCEPT ![t] = x]
  <2>1. CASE s = 1
    BY <1>4, <1>7, <1>9, <2>1 DEF Take
  <2>2. CASE s = 2
    <3>1. Arg(t) # 1 /\ Loaded(stage[2], <<>>) = v /\ x = Append(red[t], v)
      BY <1>4, <1>7, <1>9, <2>2
    <3> QED BY <3>1 DEF Take
  <2> QED BY <2>1, <2>2
<1>11. red'[t] = x /\ \A u \in Threads : u # t => red'[u] = red[u]
  BY <1>8, <1>10 DEF LocalsTyped
<1>12. LocalsTyped(acc', have', partner', red', partialHave')
  BY <1>8, <1>10 DEF LocalsTyped
<1>13. Own(t)
  BY <1>3, <1>8, <1>11 DEF Own
<1>14. StageFine(t, pc[t] + 1, row[t], acc[t], have[t], partial[t], partialHave[t])
  BY <1>2, <1>3, <1>4, StageMoves
<1>15. RedFine(pc'[t], row'[t], x)
  <2>1. PICK m : m = StageLen
    OBVIOUS
  <2>2. m \in Nat /\ m >= 6
    BY <1>3, <2>1, LengthsOf
  <2>3. CASE s = 1
    <3>1. pc[t] = m /\ x = <<v>> /\ Taken(v, 1, row[t])
      BY <1>5, <1>6, <1>9, <2>1, <2>2, <2>3
    <3>2. ~(pc'[t] > 2 * m)
      BY <1>2, <2>2, <3>1
    <3> QED BY <1>2, <2>1, <3>1, <3>2 DEF RedFine
  <2>4. CASE s = 2
    <3>1. pc[t] = 2 * m
      BY <1>5, <2>1, <2>2, <2>4
    <3>2. \E y : red[t] = <<y>> /\ Taken(y, 1, row[t])
      <4>1. RedFine(pc[t], row[t], red[t])
        BY DEF RightInv, Fine
      <4>2. m < pc[t] /\ pc[t] <= 2 * m
        BY <2>2, <3>1
      <4> QED BY <1>4, <2>1, <4>1, <4>2 DEF RedFine
    <3>3. PICK y : red[t] = <<y>> /\ Taken(y, 1, row[t])
      BY <3>2
    <3>4. x = <<y, v>> /\ Taken(v, 2, row[t])
      <4>1. x = Append(<<y>>, v)
        BY <1>9, <2>4, <3>3
      <4>2. Append(<<y>>, v) = <<y, v>>
        <5> DEFINE S == {y, v}
        <5>1. <<y>> \in Seq(S) /\ Len(<<y>>) = 1 /\ v \in S /\ <<y, v>> \in Seq(S)
          OBVIOUS
        <5>2. /\ Append(<<y>>, v) \in Seq(S) /\ Len(Append(<<y>>, v)) = 2
              /\ Append(<<y>>, v)[1] = y /\ Append(<<y>>, v)[2] = v
          BY <5>1, AppendProperties
        <5>3. Len(Append(<<y>>, v)) = Len(<<y, v>>)
          BY <5>2
        <5>4. \A i \in 1 .. Len(Append(<<y>>, v)) : Append(<<y>>, v)[i] = <<y, v>>[i]
          BY <5>2
        <5> QED BY <5>1, <5>2, <5>3, <5>4, SeqEqual
      <4>3. Taken(v, 2, row[t])
        BY <1>6, <2>4
      <4> QED BY <4>1, <4>2, <4>3
    <3>5. ~(m < pc'[t] /\ pc'[t] <= 2 * m)
      BY <1>2, <2>2, <3>1
    <3> QED BY <1>2, <2>1, <3>3, <3>4, <3>5 DEF RedFine
  <2> QED BY <2>3, <2>4
<1>16. Fine(t, pc'[t], row'[t], acc'[t], have'[t], partner'[t], red'[t], partial'[t], partialHave'[t])
  BY <1>2, <1>8, <1>11, <1>14, <1>15 DEF Fine, ScanFine
<1>17. SharedFine(pc'[0], row'[0], stage')
  BY <1>1, <1>8, SharedStays
<1>18. OutFine(out')
  BY <1>8 DEF RightInv
<1> QED BY <1>3, <1>12, <1>13, <1>16, <1>17, <1>18 DEF StaysRight

LEMMA EpilogueRight ==
  ASSUME RightInv, NEW t \in Threads, Epilogue(t)
  PROVE  StaysRight(t)
<1>1. Moves(t) /\ Program[pc[t]].do = "Epilogue"
  BY DoingMoves DEF Epilogue
<1>2. /\ job' = job /\ job \in Jobs /\ 0 \in Threads /\ pc[t] \in 1 .. Len(Program)
      /\ \A u \in Threads : u # t => pc'[u] = pc[u] /\ row'[u] = row[u]
      /\ pc[t] = Len(Program) => pc'[t] = 1 /\ row'[t] = row[t] + 1
  BY <1>1, Moved DEF RightInv
<1>3. job.lift = "rowreduce" /\ pc[t] = 2 * StageLen + 1 /\ pc[t] = Len(Program)
  <2>1. job.lift # "scan"
    <3>1. ASSUME job.lift = "scan" PROVE FALSE
      <4>1. ScanAt(Program[pc[t]], pc[t])
        BY <1>2, <3>1, ScanText
      <4>2. Program[pc[t]].do \in {"Chunk", "Publish", "Barrier", "Partner", "Combine", "Offset", "Write"}
        BY <1>2, <4>1, ScanIs
      <4> QED BY <1>1, <4>2
    <3> QED BY <3>1
  <2>2. ASSUME NEW s, NEW q, InStage(pc[t], s, q) PROVE FALSE
    <3>1. StatementAt(Program[pc[t]], s, q)
      BY <1>2, <2>2, TextAt
    <3>2. Program[pc[t]].do \in {"Slice", "Publish", "Barrier", "Round", "Store", "Share", "Take"}
      BY <3>1, StatementKind
    <3> QED BY <1>1, <3>2
  <2> QED BY <1>2, <2>1, <2>2, Placed
<1>4. /\ LocalsTyped(acc, have, partner, red, partialHave)
      /\ acc' = acc /\ have' = have /\ partner' = partner /\ red' = red
      /\ partial' = partial /\ partialHave' = partialHave /\ stage' = stage
  BY DEF RightInv, Epilogue, shared
<1>5. Own(t)
  BY <1>2, <1>4 DEF Own
<1>6. RedFine(pc'[t], row'[t], red'[t])
  BY <1>1, <1>4, RedStays
<1>7. Fine(t, pc'[t], row'[t], acc'[t], have'[t], partner'[t], red'[t], partial'[t], partialHave'[t])
  <2>1. StageFine(t, 1, row'[t], acc'[t], have'[t], partial'[t], partialHave'[t])
    BY <1>2, StageStarts
  <2> QED BY <1>2, <1>3, <1>6, <2>1 DEF Fine, ScanFine
<1>8. SharedFine(pc'[0], row'[0], stage')
  BY <1>1, <1>4, SharedStays
<1>9. PICK y, z : red[t] = <<y, z>> /\ Taken(y, 1, row[t]) /\ Taken(z, 2, row[t])
  <2>1. RedFine(pc[t], row[t], red[t])
    BY DEF RightInv, Fine
  <2>2. pc[t] > 2 * StageLen
    <3>1. StageLen \in Nat
      BY <1>2, LengthsOf
    <3> QED BY <1>3, <3>1
  <2> QED BY <1>3, <2>1, <2>2 DEF RedFine
<1>10. Permutes(y, Serial(1, row[t])) /\ Permutes(z, Serial(2, row[t]))
  BY <1>2, <1>9, HoldsRight DEF Taken
<1>11. \A i : Right(row[t], i, red[t])
  <2>1. PICK x : x = red[t]
    OBVIOUS
  <2>2. Len(x) = 2 /\ x[1] = y /\ x[2] = z
    BY <1>9, <2>1
  <2>3. \A s \in 1 .. 2 : Permutes(x[s], Serial(s, row[t]))
    <3>1. \A s \in 1 .. 2 : s = 1 \/ s = 2
      OBVIOUS
    <3> QED BY <1>10, <2>2, <3>1
  <2> QED BY <1>3, <2>1, <2>2, <2>3 DEF Right
<1>12. OutFine(out')
  <2>1. OutFine(out)
    BY DEF RightInv
  <2>2. PICK a, k, mine : a = red[t] /\ k = row[t] /\ mine = {i \in 0 .. job.extent - 1 : i % job.block = t}
    OBVIOUS
  <2>3. out' = [out EXCEPT ![k] = [i \in DOMAIN @ |-> IF i \in mine THEN @[i] \cup {a} ELSE @[i]]]
    BY <2>2 DEF Epilogue
  <2>4. DOMAIN out' = DOMAIN out
    BY <2>3
  <2>5. ASSUME NEW r \in DOMAIN out', NEW i \in DOMAIN out'[r], NEW v \in out'[r][i]
        PROVE  Right(r, i, v)
    <3>1. r \in DOMAIN out
      BY <2>4, <2>5
    <3>2. CASE r # k
      <4>1. out'[r] = out[r]
        BY <2>3, <3>1, <3>2
      <4> QED BY <2>1, <2>5, <3>1, <4>1 DEF OutFine
    <3>3. CASE r = k
      <4>1. out'[r] = [j \in DOMAIN out[r] |-> IF j \in mine THEN out[r][j] \cup {a} ELSE out[r][j]]
        BY <2>3, <3>1, <3>3
      <4>2. i \in DOMAIN out[r]
        BY <2>5, <4>1
      <4>3. v \in out[r][i] \/ v = a
        BY <2>5, <4>1, <4>2
      <4>4. CASE v \in out[r][i]
        BY <2>1, <3>1, <4>2, <4>4 DEF OutFine
      <4>5. CASE v = a
        BY <1>11, <2>2, <3>3, <4>5
      <4> QED BY <4>3, <4>4, <4>5
    <3> QED BY <3>2, <3>3
  <2> QED BY <2>5 DEF OutFine
<1> QED BY <1>2, <1>4, <1>5, <1>7, <1>8, <1>12 DEF StaysRight

-----------------------------------------------------------------------------
(* The chunks of a scan.                                                   *)

LEMMA ChunkSizeNat ==
  ASSUME job \in Jobs
  PROVE  ChunkSize \in Nat
<1>1. PICK n, b : n = job.extent /\ b = job.block
  OBVIOUS
<1>2. n \in Nat /\ b \in Nat /\ b > 0
  BY <1>1, JobFacts, JobsAssumption
<1> DEFINE S == {c \in Nat : c * b >= n}
<1>3. n \in S
  BY <1>2
<1>4. PICK c \in S : \A m \in S : c <= m
  <2>1. S \subseteq Nat /\ S # {}
    BY <1>3
  <2> HIDE DEF S
  <2> QED BY <2>1, LeastExists
<1>5. c \in 0 .. n /\ c * b >= n /\ \A d \in 0 .. c - 1 : d * b < n
  <2>1. c \in Nat /\ c <= n /\ c * b >= n
    BY <1>2, <1>3, <1>4
  <2>2. ASSUME NEW d \in 0 .. c - 1 PROVE d * b < n
    <3>1. d \in Nat /\ ~(c <= d) /\ d * b \in Nat
      BY <1>2, <2>1
    <3>2. d \notin S
      BY <1>4, <3>1
    <3> QED BY <1>2, <3>1, <3>2
  <2> QED BY <1>2, <2>1, <2>2
<1>6. ChunkSize = CHOOSE x \in 0 .. n : x * b >= n /\ \A d \in 0 .. x - 1 : d * b < n
  BY <1>1 DEF ChunkSize
<1>7. ChunkSize \in 0 .. n
  BY <1>5, <1>6
<1> QED BY <1>2, <1>7

(* The chunks follow one another.                                          *)
LEMMA BoundsGrow ==
  ASSUME job \in Jobs, NEW j \in Int, NEW k \in Int, j <= k
  PROVE  Bound(j) \in Nat /\ Bound(k) \in Nat /\ Bound(j) <= Bound(k) /\ Bound(k) <= job.extent
<1>1. PICK n, c : n = job.extent /\ c = ChunkSize
  OBVIOUS
<1>2. n \in Nat /\ c \in Nat
  BY <1>1, ChunkSizeNat, JobsAssumption
<1>3. \A i : Bound(i) = IF i <= 0 THEN 0 ELSE IF i * c < n THEN i * c ELSE n
  BY <1>1 DEF Bound
<1>4. \A i \in Int : i > 0 => i * c \in Nat
  BY <1>2
<1>5. 0 < j => j * c <= k * c
  <2>1. PICK d : d = k - j
    OBVIOUS
  <2>2. d \in Nat /\ k = j + d /\ d * c \in Nat
    BY <1>2, <2>1
  <2>3. k * c = j * c + d * c
    BY <1>2, <2>2
  <2> QED BY <1>2, <2>2, <2>3
<1> QED BY <1>1, <1>2, <1>3, <1>4, <1>5

LEMMA BoundOf ==
  ASSUME job \in Jobs, NEW t \in Threads
  PROVE  /\ Lo(t) \in Nat /\ Hi(t) \in Nat /\ Hi(t) <= job.extent
         /\ Lo(t) < Hi(t) => Bound(t) = Lo(t) /\ Bound(t + 1) = Hi(t)
         /\ ~(Lo(t) < Hi(t)) => Bound(t) = Bound(t + 1)
<1>1. PICK n, c, a : n = job.extent /\ c = ChunkSize /\ a = t * c
  OBVIOUS
<1>2. n \in Nat /\ c \in Nat /\ t \in Nat
  BY <1>1, ChunkSizeNat, JobsAssumption, JobFacts DEF Threads
<1>3. a \in Nat /\ (t + 1) * c = a + c /\ (t = 0 => a = 0)
  BY <1>1, <1>2
<1>4. Lo(t) = a /\ Hi(t) = IF a + c < n THEN a + c ELSE n
  BY <1>1 DEF Lo, Hi
<1>5. Bound(t) = (IF t <= 0 THEN 0 ELSE IF a < n THEN a ELSE n)
  BY <1>1 DEF Bound
<1>6. Bound(t + 1) = (IF t + 1 <= 0 THEN 0 ELSE IF a + c < n THEN a + c ELSE n)
  BY <1>1, <1>3 DEF Bound
<1> QED BY <1>1, <1>2, <1>3, <1>4, <1>5, <1>6

(* The direction of a scan gives each position its element.                *)
LEMMA AtTurns ==
  ASSUME job \in Jobs, NEW p \in 0 .. job.extent - 1
  PROVE  At(p) \in 0 .. job.extent - 1 /\ At(At(p)) = p
<1>1. job.extent \in Nat
  BY JobsAssumption
<1> QED BY <1>1 DEF At

LEMMA SpanBoth ==
  ASSUME job \in Jobs, NEW r, NEW a \in Nat, NEW b \in Nat, NEW c \in Nat, a <= b, b <= c, c <= job.extent
  PROVE  Span(r, a, b) \cup Span(r, b, c) = Span(r, a, c) /\ Span(r, a, b) \cap Span(r, b, c) = {}
<1>1. job.extent \in Nat
  BY JobsAssumption
<1>2. a .. c - 1 = (a .. b - 1) \cup (b .. c - 1)
  OBVIOUS
<1>3. Span(r, a, b) \cup Span(r, b, c) = Span(r, a, c)
  BY <1>2 DEF Span
<1>4. ASSUME NEW p \in a .. b - 1, NEW q \in b .. c - 1, Leaf(r, At(p)) = Leaf(r, At(q)) PROVE FALSE
  <2>1. At(p) = At(q)
    BY <1>4 DEF Leaf
  <2>2. p \in 0 .. job.extent - 1 /\ q \in 0 .. job.extent - 1 /\ p # q
    BY <1>1
  <2> QED BY <2>1, <2>2, AtTurns
<1>5. Span(r, a, b) \cap Span(r, b, c) = {}
  <2>1. ASSUME NEW x \in Span(r, a, b), x \in Span(r, b, c) PROVE FALSE
    <3>1. PICK p \in a .. b - 1 : x = Leaf(r, At(p))
      BY DEF Span
    <3>2. PICK q \in b .. c - 1 : x = Leaf(r, At(q))
      BY <2>1 DEF Span
    <3> QED BY <1>4, <3>1, <3>2
  <2> QED BY <2>1
<1> QED BY <1>3, <1>5

LEMMA SpanNone ==
  ASSUME NEW r, NEW a \in Nat, NEW b \in Nat, ~(a < b)
  PROVE  Span(r, a, b) = {}
<1>1. a .. b - 1 = {}
  OBVIOUS
<1> QED BY <1>1 DEF Span

LEMMA WalkGathers ==
  ASSUME job \in Jobs, NEW r, NEW lo \in Nat, NEW hi \in Nat, hi <= job.extent
  PROVE  Gathers(Walk(r, lo, hi), Span(r, lo, hi))
<1>1. PICK n : n = IF hi > lo THEN hi - lo ELSE 0
  OBVIOUS
<1>2. n \in Nat /\ job.extent \in Nat
  BY <1>1, JobsAssumption
<1>3. PICK v : v = [i \in 1 .. n |-> Leaf(r, At(lo + i - 1))]
  OBVIOUS
<1>4. Walk(r, lo, hi) = v
  BY <1>1, <1>3 DEF Walk
<1>5. \A i \in 1 .. n : lo + i - 1 \in lo .. hi - 1 /\ lo + i - 1 \in 0 .. job.extent - 1
  BY <1>1, <1>2
<1>6. \A i \in 1 .. n : v[i] = Leaf(r, At(lo + i - 1)) /\ v[i] \in Span(r, lo, hi)
  BY <1>3, <1>5 DEF Span
<1>7. v \in Seq(Span(r, lo, hi)) /\ Len(v) = n
  <2>1. v \in [1 .. n -> Span(r, lo, hi)]
    BY <1>3, <1>6
  <2> QED BY <1>2, <2>1
<1>8. ASSUME NEW x \in Span(r, lo, hi) PROVE \E i \in 1 .. Len(v) : v[i] = x
  <2>1. PICK p \in lo .. hi - 1 : x = Leaf(r, At(p))
    BY DEF Span
  <2>2. PICK i : i = p - lo + 1
    OBVIOUS
  <2>3. i \in 1 .. n /\ lo + i - 1 = p
    BY <1>1, <2>2
  <2> QED BY <1>6, <1>7, <2>1, <2>3
<1>9. ASSUME NEW i \in 1 .. Len(v), NEW j \in 1 .. Len(v), v[i] = v[j] PROVE i = j
  <2>1. i \in 1 .. n /\ j \in 1 .. n
    BY <1>7
  <2>2. PICK p, q : p = lo + i - 1 /\ q = lo + j - 1
    OBVIOUS
  <2>3. p \in 0 .. job.extent - 1 /\ q \in 0 .. job.extent - 1 /\ At(p) = At(q)
    BY <1>5, <1>6, <1>9, <2>1, <2>2 DEF Leaf
  <2>4. p = q
    BY <2>3, AtTurns
  <2> QED BY <2>1, <2>2, <2>4
<1> QED BY <1>4, <1>7, <1>8, <1>9 DEF Gathers

LEMMA EmptyConcat ==
  ASSUME NEW X, NEW v \in Seq(X)
  PROVE  <<>> \o v = v
BY ConcatEmptySeq

(* What a scan folds is joined to what it holds, a flag down only while it *)
(* holds nothing.                                                          *)
LEMMA ScanJoins ==
  ASSUME NEW v, NEW X, Gathers(v, X), NEW w, NEW Y, Gathers(w, Y), X \cap Y = {},
         NEW value, value = v \o w \/ (v = <<>> /\ value = w)
  PROVE  Gathers(value, X \cup Y)
<1>1. CASE value = v \o w
  BY <1>1, GathersBoth
<1>2. CASE v = <<>> /\ value = w
  <2>1. X = {} /\ X \cup Y = Y
    BY <1>2, GathersNothing
  <2> QED BY <1>2, <2>1
<1> QED BY <1>1, <1>2

LEMMA ScannedMore ==
  ASSUME job \in Jobs, NEW r, NEW a \in Nat, NEW b \in Nat, NEW c \in Nat, a <= b, b <= c, c <= job.extent,
         NEW v, NEW h \in BOOLEAN, Scanned(v, h, r, a, b), NEW e, Gathers(e, Span(r, b, c))
  PROVE  Scanned(FoldStep(1, h, v, e), FoldHave(1, h, e), r, a, c)
<1>1. Gathers(v, Span(r, a, b)) /\ ((HasFlag(1) /\ ~h) => v = <<>>)
  BY DEF Scanned
<1>2. PICK value : value = FoldStep(1, h, v, e)
  OBVIOUS
<1>3. value = v \o e \/ (v = <<>> /\ value = e)
  BY <1>1, <1>2 DEF FoldStep
<1>4. Span(r, a, b) \cup Span(r, b, c) = Span(r, a, c) /\ Span(r, a, b) \cap Span(r, b, c) = {}
  BY SpanBoth
<1>5. Gathers(value, Span(r, a, c))
  <2>1. Gathers(value, Span(r, a, b) \cup Span(r, b, c))
    BY <1>1, <1>3, <1>4, ScanJoins
  <2> QED BY <1>4, <2>1
<1>6. ASSUME HasFlag(1), ~FoldHave(1, h, e) PROVE value = <<>>
  <2>1. ~h /\ e = <<>>
    BY <1>6 DEF FoldHave
  <2>2. v = <<>> /\ value = v \o e
    BY <1>1, <1>2, <1>6, <2>1 DEF FoldStep
  <2>3. <<>> \o <<>> = <<>>
    OBVIOUS
  <2> QED BY <2>1, <2>2, <2>3
<1> QED BY <1>2, <1>5, <1>6 DEF Scanned

-----------------------------------------------------------------------------
(* The steps of a scan.                                                    *)

LEMMA ScanOnly ==
  ASSUME job.lift = "scan"
  PROVE  /\ \A u, p, r, v, h, m, mh : StageFine(u, p, r, v, h, m, mh)
         /\ \A p, r, x : RedFine(p, r, x)
         /\ \A p, r, st : SharedFine(p, r, st)
BY DEF StageFine, InStage, RedFine, SharedFine

(* A step of a scan.                                                       *)
LEMMA ScanStep ==
  ASSUME RightInv, NEW t \in Threads, Moves(t),
         \/ Program[pc[t]].do \in {"Chunk", "Partner", "Combine", "Offset", "Write"}
         \/ job.lift = "scan" /\ Program[pc[t]].do = "Publish"
  PROVE  /\ job.lift = "scan" /\ ScanAt(Program[pc[t]], pc[t]) /\ job \in Jobs /\ job' = job
         /\ \A u \in Threads : u # t => pc'[u] = pc[u] /\ row'[u] = row[u]
         /\ pc'[t] = pc[t] + 1 /\ row'[t] = row[t] /\ pc[t] \in Nat
         /\ ScanFine(t, pc[t], row[t], acc[t], have[t], partner[t], partial[t], partialHave[t])
         /\ have[t] \in BOOLEAN
<1>1. /\ job \in Jobs /\ job' = job /\ pc[t] \in 1 .. Len(Program) /\ pc[t] \in Nat
      /\ \A u \in Threads : u # t => pc'[u] = pc[u] /\ row'[u] = row[u]
      /\ pc[t] # Len(Program) => pc'[t] = pc[t] + 1 /\ row'[t] = row[t]
  BY Moved DEF RightInv
<1>2. job.lift = "scan"
  BY <1>1, StatementKinds
<1>3. ScanAt(Program[pc[t]], pc[t]) /\ Len(Program) = 6 + 4 * Levels
  BY <1>1, <1>2, ScanText
<1>4. pc[t] # Len(Program)
  <2>1. Levels \in Nat
    BY <1>1, LengthsOf
  <2>2. \/ pc[t] = 1 \/ pc[t] = 2 \/ pc[t] = 4 + 4 * Levels \/ pc[t] = 5 + 4 * Levels
        \/ \E l \in 0 .. Levels - 1 : pc[t] = 4 + 4 * l \/ pc[t] = 6 + 4 * l
    BY <1>1, <1>3, ScanIs
  <2> QED BY <1>3, <2>1, <2>2
<1>5. ScanFine(t, pc[t], row[t], acc[t], have[t], partner[t], partial[t], partialHave[t])
  BY DEF RightInv, Fine
<1>6. have[t] \in BOOLEAN
  BY DEF RightInv, LocalsTyped
<1> QED BY <1>1, <1>2, <1>3, <1>4, <1>5, <1>6

(* What is to be shown of the place a scan gets to.                        *)
LEMMA ScanFineAt ==
  ASSUME job \in Jobs, NEW l \in 0 .. Levels, NEW p \in 3 + 4 * l .. 6 + 4 * l, NEW u \in Nat, NEW r,
         NEW v, NEW h, NEW w, NEW m, NEW mh,
         Summed(u, l, r, m, mh),
         p <= 4 + 4 * Levels => Scanned(v, h, r, Bound(u + 1 - 2 ^ l), Bound(u + 1)),
         (p >= 5 + 4 * l /\ l < Levels /\ u >= 2 ^ l) =>
           Gathers(w, Span(r, Bound(u + 1 - 2 * 2 ^ l), Bound(u + 1 - 2 ^ l))),
         p = 5 + 4 * Levels => Scanned(v, h, r, 0, Bound(u))
  PROVE  ScanFine(u, p, r, v, h, w, m, mh)
<1>1. Levels \in Nat
  BY LengthsOf
<1>2. ASSUME NEW k \in 0 .. Levels, p \in 3 + 4 * k .. 6 + 4 * k PROVE k = l
  BY <1>1, <1>2
<1>3. \A k \in 0 .. Levels : p \in 5 + 4 * k .. 6 + 4 * k => p \in 3 + 4 * k .. 6 + 4 * k /\ p >= 5 + 4 * k
  BY <1>1
<1>4. p # 2
  BY <1>1
<1>5. ASSUME NEW k \in 0 .. Levels
      PROVE  LET from == Bound(u + 1 - 2 ^ k)
             IN  /\ (p \in 3 + 4 * k .. 6 + 4 * k) => Summed(u, k, r, m, mh)
                 /\ ((p \in 3 + 4 * k .. 6 + 4 * k /\ p <= 4 + 4 * Levels) \/ (p = 2 /\ k = 0)) =>
                      Scanned(v, h, r, from, Bound(u + 1))
                 /\ (p \in 5 + 4 * k .. 6 + 4 * k /\ k < Levels /\ u >= 2 ^ k) =>
                      Gathers(w, Span(r, Bound(u + 1 - 2 * 2 ^ k), from))
  BY <1>2, <1>3, <1>4
<1> QED BY <1>5 DEF ScanFine

(* What is known at a place of a scan.                                     *)
LEMMA ScanFineOf ==
  ASSUME job.lift = "scan", NEW u, NEW p, NEW r, NEW v, NEW h, NEW w, NEW m, NEW mh,
         ScanFine(u, p, r, v, h, w, m, mh), NEW l \in 0 .. Levels
  PROVE  /\ p \in 3 + 4 * l .. 6 + 4 * l => Summed(u, l, r, m, mh)
         /\ (p \in 3 + 4 * l .. 6 + 4 * l /\ p <= 4 + 4 * Levels) =>
              Scanned(v, h, r, Bound(u + 1 - 2 ^ l), Bound(u + 1))
         /\ (p \in 5 + 4 * l .. 6 + 4 * l /\ l < Levels /\ u >= 2 ^ l) =>
              Gathers(w, Span(r, Bound(u + 1 - 2 * 2 ^ l), Bound(u + 1 - 2 ^ l)))
         /\ (p = 2 /\ l = 0) => Scanned(v, h, r, Bound(u + 1 - 2 ^ l), Bound(u + 1))
         /\ p = 5 + 4 * Levels => Scanned(v, h, r, 0, Bound(u))
BY DEF ScanFine

LEMMA KeptScan ==
  ASSUME job \in Jobs, job.lift = "scan", NEW u \in Nat, NEW p, NEW r, NEW v, NEW h, NEW w, NEW m, NEW mh,
         ScanFine(u, p, r, v, h, w, m, mh), NEW l \in 0 .. Levels, p = 3 + 4 * l \/ (p = 5 + 4 * l /\ l < Levels)
  PROVE  ScanFine(u, p + 1, r, v, h, w, m, mh)
<1>1. Levels \in Nat
  BY LengthsOf
<1>2. /\ p \in 3 + 4 * l .. 6 + 4 * l /\ p + 1 \in 3 + 4 * l .. 6 + 4 * l
      /\ p <= 4 + 4 * Levels /\ p + 1 # 5 + 4 * Levels
      /\ p + 1 >= 5 + 4 * l => p \in 5 + 4 * l .. 6 + 4 * l
  BY <1>1
<1>3. /\ Summed(u, l, r, m, mh) /\ Scanned(v, h, r, Bound(u + 1 - 2 ^ l), Bound(u + 1))
      /\ (p \in 5 + 4 * l .. 6 + 4 * l /\ l < Levels /\ u >= 2 ^ l) =>
           Gathers(w, Span(r, Bound(u + 1 - 2 * 2 ^ l), Bound(u + 1 - 2 ^ l)))
  BY <1>2, ScanFineOf
<1>4. (p + 1 >= 5 + 4 * l /\ l < Levels /\ u >= 2 ^ l) =>
           Gathers(w, Span(r, Bound(u + 1 - 2 * 2 ^ l), Bound(u + 1 - 2 ^ l)))
  BY <1>2, <1>3
<1>5. PICK z : z = p + 1
  OBVIOUS
<1>6. ScanFine(u, z, r, v, h, w, m, mh)
  <2>1. /\ z \in 3 + 4 * l .. 6 + 4 * l
        /\ z <= 4 + 4 * Levels => Scanned(v, h, r, Bound(u + 1 - 2 ^ l), Bound(u + 1))
        /\ (z >= 5 + 4 * l /\ l < Levels /\ u >= 2 ^ l) =>
             Gathers(w, Span(r, Bound(u + 1 - 2 * 2 ^ l), Bound(u + 1 - 2 ^ l)))
        /\ z = 5 + 4 * Levels => Scanned(v, h, r, 0, Bound(u))
    BY <1>2, <1>3, <1>4, <1>5
  <2> QED BY <1>3, <2>1, ScanFineAt
<1> QED BY <1>5, <1>6

(* Before the first thread there is nothing.                               *)
LEMMA BoundZero ==
  ASSUME NEW j \in Int, j <= 0
  PROVE  Bound(j) = 0
BY DEF Bound

LEMMA ChunkGathers ==
  ASSUME job \in Jobs, NEW t \in Threads, NEW r
  PROVE  Gathers(Walk(r, Lo(t), Hi(t)), Span(r, Bound(t), Bound(t + 1)))
<1>1. PICK a, b, lo, hi : a = Bound(t) /\ b = Bound(t + 1) /\ lo = Lo(t) /\ hi = Hi(t)
  OBVIOUS
<1>2. /\ lo \in Nat /\ hi \in Nat /\ hi <= job.extent
      /\ lo < hi => a = lo /\ b = hi
      /\ ~(lo < hi) => a = b
  BY <1>1, BoundOf
<1>3. a \in Nat /\ b \in Nat
  <2>1. t \in Int /\ t + 1 \in Int /\ t <= t + 1
    BY JobFacts DEF Threads
  <2> QED BY <1>1, <2>1, BoundsGrow
<1>4. Gathers(Walk(r, lo, hi), Span(r, lo, hi))
  BY <1>2, WalkGathers
<1>5. Span(r, lo, hi) = Span(r, a, b)
  <2>1. CASE lo < hi
    BY <1>2, <2>1
  <2>2. CASE ~(lo < hi)
    <3>1. ~(a < b)
      BY <1>2, <1>3, <2>2
    <3>2. Span(r, lo, hi) = {}
      BY <1>2, <2>2, SpanNone
    <3>3. Span(r, a, b) = {}
      BY <1>3, <3>1, SpanNone
    <3> QED BY <3>2, <3>3
  <2> QED BY <2>1, <2>2
<1> QED BY <1>1, <1>4, <1>5

LEMMA ThreadNat ==
  ASSUME job \in Jobs, NEW t \in Threads
  PROVE  t \in Nat /\ t + 1 \in Nat /\ t < job.block /\ job.block \in Nat
BY JobFacts DEF Threads

LEMMA ChunkRight ==
  ASSUME RightInv, NEW t \in Threads, Chunk(t)
  PROVE  StaysRight(t)
<1>1. Moves(t) /\ Program[pc[t]].do = "Chunk"
  BY DoingMoves DEF Chunk
<1>2. /\ job.lift = "scan" /\ ScanAt(Program[pc[t]], pc[t]) /\ job \in Jobs /\ job' = job
      /\ \A u \in Threads : u # t => pc'[u] = pc[u] /\ row'[u] = row[u]
      /\ pc'[t] = pc[t] + 1 /\ row'[t] = row[t]
  BY <1>1, ScanStep
<1>3. pc[t] = 1
  BY <1>1, <1>2, ScanIs
<1>4. PICK e, r : e = Walk(row[t], Lo(t), Hi(t)) /\ r = row[t]
  OBVIOUS
<1>5. PICK v, h : v = FoldStep(1, FALSE, <<>>, e) /\ h = FoldHave(1, FALSE, e)
  OBVIOUS
<1>6. h \in BOOLEAN
  BY <1>5 DEF FoldHave
<1>7. /\ acc' = [acc EXCEPT ![t] = v] /\ have' = [have EXCEPT ![t] = h]
      /\ partner' = [partner EXCEPT ![t] = <<>>]
      /\ red' = red /\ partial' = partial /\ partialHave' = partialHave /\ stage' = stage /\ out' = out
  BY <1>4, <1>5 DEF Chunk, shared
<1>8. LocalsTyped(acc, have, partner, red, partialHave)
  BY DEF RightInv
<1>9. /\ acc'[t] = v /\ have'[t] = h
      /\ \A u \in Threads : u # t => acc'[u] = acc[u] /\ have'[u] = have[u] /\ partner'[u] = partner[u]
  BY <1>7, <1>8 DEF LocalsTyped
<1>10. LocalsTyped(acc', have', partner', red', partialHave')
  BY <1>6, <1>7, <1>8 DEF LocalsTyped
<1>11. Own(t)
  BY <1>2, <1>7, <1>9 DEF Own
<1>12. Scanned(v, h, r, Bound(t), Bound(t + 1))
  <2>1. PICK a, b, n : a = Bound(t) /\ b = Bound(t + 1) /\ n = <<>>
    OBVIOUS
  <2>2. a \in Nat /\ b \in Nat /\ a <= b /\ b <= job.extent
    <3>1. t \in Int /\ t + 1 \in Int /\ t <= t + 1
      BY <1>2, ThreadNat
    <3> QED BY <1>2, <2>1, <3>1, BoundsGrow
  <2>3. Gathers(e, Span(r, a, b))
    BY <1>2, <1>4, <2>1, ChunkGathers
  <2>4. Scanned(n, FALSE, r, a, a)
    <3>1. ~(a < a)
      BY <2>2
    <3>2. Span(r, a, a) = {}
      BY <2>2, <3>1, SpanNone
    <3> QED BY <2>1, <3>2, GathersNothing DEF Scanned
  <2>5. a <= a
    BY <2>2
  <2>6. Scanned(FoldStep(1, FALSE, n, e), FoldHave(1, FALSE, e), r, a, b)
    BY <1>2, <2>2, <2>3, <2>4, <2>5, ScannedMore
  <2> QED BY <1>5, <2>1, <2>6
<1>13. ScanFine(t, 2, r, v, h, partner'[t], partial'[t], partialHave'[t])
  <2>1. t + 1 - 2 ^ 0 = t
    BY <1>2, ThreadNat
  <2>2. Levels \in Nat
    BY <1>2, LengthsOf
  <2>3. \A l \in 0 .. Levels : 2 \notin 3 + 4 * l .. 6 + 4 * l /\ 2 \notin 5 + 4 * l .. 6 + 4 * l
    BY <2>2
  <2>4. 2 # 5 + 4 * Levels
    BY <2>2
  <2> QED BY <1>12, <2>1, <2>3, <2>4 DEF ScanFine
<1>14. Fine(t, pc'[t], row'[t], acc'[t], have'[t], partner'[t], red'[t], partial'[t], partialHave'[t])
  <2>1. pc'[t] = 2 /\ row'[t] = r
    BY <1>2, <1>3, <1>4
  <2> QED BY <1>2, <1>9, <1>13, <2>1, ScanOnly DEF Fine
<1>15. SharedFine(pc'[0], row'[0], stage')
  BY <1>2, ScanOnly
<1>16. OutFine(out')
  BY <1>7 DEF RightInv
<1> QED BY <1>2, <1>10, <1>11, <1>14, <1>15, <1>16 DEF StaysRight

LEMMA PublishRightScan ==
  ASSUME RightInv, NEW t \in Threads, Publish(t), job.lift = "scan"
  PROVE  StaysRight(t)
<1>1. Moves(t) /\ Program[pc[t]].do = "Publish"
  BY DoingMoves DEF Publish
<1>2. /\ ScanAt(Program[pc[t]], pc[t]) /\ job \in Jobs /\ job' = job
      /\ \A u \in Threads : u # t => pc'[u] = pc[u] /\ row'[u] = row[u]
      /\ pc'[t] = pc[t] + 1 /\ row'[t] = row[t] /\ have[t] \in BOOLEAN
      /\ ScanFine(t, pc[t], row[t], acc[t], have[t], partner[t], partial[t], partialHave[t])
  BY <1>1, ScanStep
<1>3. pc[t] = 2 /\ Arg(t) = 1
  BY <1>1, <1>2, ScanIs DEF Arg
<1>5. /\ Publishes(t, 1, acc[t], have[t])
      /\ acc' = acc /\ have' = have /\ partner' = partner /\ red' = red /\ out' = out
  BY <1>3 DEF Publish
<1>6. LocalsTyped(acc, have, partner, red, partialHave)
  BY DEF RightInv
<1>7. /\ partial'[t] = {acc[t]} /\ (HasFlag(1) => partialHave'[t] = {have[t]})
      /\ \A u \in Threads : u # t => partial'[u] = partial[u] /\ partialHave'[u] = partialHave[u]
      /\ \A u \in Threads : partialHave'[u] \in {{}, {TRUE}, {FALSE}}
      /\ stage' = stage
  BY <1>2, <1>5, PublishesOwn
<1>8. LocalsTyped(acc', have', partner', red', partialHave')
  BY <1>5, <1>6, <1>7 DEF LocalsTyped
<1>9. Own(t)
  BY <1>2, <1>5, <1>7 DEF Own
<1>10. PICK r, v, h, w, m, mh :
         /\ r = row[t] /\ v = acc[t] /\ h = have[t] /\ w = partner[t]
         /\ m = partial'[t] /\ mh = partialHave'[t]
  OBVIOUS
<1>11. Levels \in Nat /\ 0 \in 0 .. Levels /\ t \in Nat
  BY <1>2, LengthsOf, ThreadNat
<1>12. Scanned(v, h, r, Bound(t + 1 - 2 ^ 0), Bound(t + 1))
  <2>1. PICK m0, h0 : m0 = partial[t] /\ h0 = partialHave[t]
    OBVIOUS
  <2>2. ScanFine(t, 2, r, v, h, w, m0, h0)
    BY <1>2, <1>3, <1>10, <2>1
  <2> QED BY <1>11, <2>2, ScanFineOf
<1>13. Summed(t, 0, r, m, mh)
  BY <1>7, <1>10, <1>12 DEF Summed
<1>14. ScanFine(t, 3, r, v, h, w, m, mh)
  <2>1. 3 \in 3 + 4 * 0 .. 6 + 4 * 0 /\ ~(3 >= 5 + 4 * 0) /\ 3 # 5 + 4 * Levels
    BY <1>11
  <2> QED BY <1>2, <1>11, <1>12, <1>13, <2>1, ScanFineAt
<1>15. Fine(t, pc'[t], row'[t], acc'[t], have'[t], partner'[t], red'[t], partial'[t], partialHave'[t])
  <2>1. pc'[t] = 3
    BY <1>2, <1>3
  <2>2. ScanFine(t, pc'[t], row'[t], acc'[t], have'[t], partner'[t], partial'[t], partialHave'[t])
    BY <1>2, <1>5, <1>10, <1>14, <2>1
  <2> QED BY <2>2, ScanOnly DEF Fine
<1>16. SharedFine(pc'[0], row'[0], stage')
  BY ScanOnly
<1>17. OutFine(out')
  BY <1>5 DEF RightInv
<1> QED BY <1>2, <1>8, <1>9, <1>15, <1>16, <1>17 DEF StaysRight

(* A read finds the total, with its flag, of where the reader is.          *)
LEMMA SummedOne ==
  ASSUME NEW u, NEW l, NEW r, NEW m, NEW mh, Summed(u, l, r, m, mh), mh \in {{}, {TRUE}, {FALSE}}
  PROVE  /\ Scanned(Loaded(m, <<>>), Loaded(mh, FALSE), r, Bound(u + 1 - 2 ^ l), Bound(u + 1))
         /\ Loaded(mh, FALSE) \in BOOLEAN
<1>1. PICK x, y : m = {x} /\ (HasFlag(1) => mh = {y}) /\ Scanned(x, y, r, Bound(u + 1 - 2 ^ l), Bound(u + 1))
  BY DEF Summed
<1>2. Loaded(m, <<>>) = x
  BY <1>1, LoadedOne
<1>3. HasFlag(1) => Loaded(mh, FALSE) = y
  BY <1>1, LoadedOne
<1>4. Loaded(mh, FALSE) \in BOOLEAN
  <2>1. mh = {} => Loaded(mh, FALSE) = FALSE
    BY DEF Loaded
  <2>2. Loaded({TRUE}, FALSE) = TRUE /\ Loaded({FALSE}, FALSE) = FALSE
    BY LoadedOne
  <2> QED BY <2>1, <2>2
<1>5. Scanned(x, Loaded(mh, FALSE), r, Bound(u + 1 - 2 ^ l), Bound(u + 1))
  BY <1>1, <1>3 DEF Scanned
<1> QED BY <1>2, <1>4, <1>5

LEMMA PartnerSummed ==
  ASSUME RightInv, NEW t \in Threads, NEW u \in Threads, Program[pc[t]].do = "Partner",
         job.lift = "scan", NEW l \in 0 .. Levels - 1, pc[t] = 4 + 4 * l
  PROVE  Summed(u, l, row[t], partial[u], partialHave[u])
<1>1. job \in Jobs
  BY DEF RightInv, LiftInv, LiftTyped
<1>2. Levels \in Nat
  BY <1>1, LengthsOf
<1>3. row[u] = row[t] /\ (pc[u] = pc[t] \/ pc[u] = pc[t] + 1)
  <2>1. WellPlaced(Program, pc[t])
    BY StatementFacts DEF RightInv
  <2>2. pc[t] < Len(Program) /\ Program[pc[t] - 1] = Barrier /\ Program[pc[t] + 1] = Barrier
    BY <2>1 DEF WellPlaced
  <2>3. pc[t] > 1
    BY <1>2
  <2> QED BY <2>2, <2>3, OtherNear
<1>4. l \in 0 .. Levels /\ pc[u] \in 3 + 4 * l .. 6 + 4 * l
  BY <1>2, <1>3
<1>5. ScanFine(u, pc[u], row[u], acc[u], have[u], partner[u], partial[u], partialHave[u])
  BY DEF RightInv, Fine
<1>6. PICK p, r, v, h, w, m, mh :
        /\ p = pc[u] /\ r = row[u] /\ v = acc[u] /\ h = have[u] /\ w = partner[u]
        /\ m = partial[u] /\ mh = partialHave[u]
  OBVIOUS
<1>7. ScanFine(u, p, r, v, h, w, m, mh) /\ p \in 3 + 4 * l .. 6 + 4 * l /\ l \in 0 .. Levels
  BY <1>4, <1>5, <1>6
<1>8. Summed(u, l, r, m, mh)
  BY <1>7, ScanFineOf
<1> QED BY <1>3, <1>6, <1>8

LEMMA PartnerRight ==
  ASSUME RightInv, NEW t \in Threads, Partner(t)
  PROVE  StaysRight(t)
<1>1. Moves(t) /\ Program[pc[t]].do = "Partner"
  BY DoingMoves DEF Partner
<1>2. /\ job.lift = "scan" /\ ScanAt(Program[pc[t]], pc[t]) /\ job \in Jobs /\ job' = job
      /\ \A u \in Threads : u # t => pc'[u] = pc[u] /\ row'[u] = row[u]
      /\ pc'[t] = pc[t] + 1 /\ row'[t] = row[t]
      /\ ScanFine(t, pc[t], row[t], acc[t], have[t], partner[t], partial[t], partialHave[t])
  BY <1>1, ScanStep
<1>3. PICK l \in 0 .. Levels - 1 : pc[t] = 4 + 4 * l /\ Program[pc[t]].arg = 2 ^ l
  BY <1>1, <1>2, ScanIs
<1>4. Levels \in Nat /\ Levels <= 31 /\ l \in 0 .. Levels /\ l < Levels /\ t \in Nat
  BY <1>2, LengthsOf, ThreadNat
<1>5. PICK d : d = 2 ^ l
  OBVIOUS
<1>6. d \in Nat /\ d > 0 /\ Arg(t) = d
  <2>1. l \in 0 .. 31
    BY <1>4
  <2> QED BY <1>3, <1>5, <2>1, PowerStep DEF Arg
<1>7. /\ LocalsTyped(acc, have, partner, red, partialHave)
      /\ acc' = acc /\ have' = have /\ red' = red /\ out' = out
      /\ partial' = partial /\ partialHave' = partialHave /\ stage' = stage
  BY DEF RightInv, Partner, shared
<1>8. \E w : /\ partner'[t] = w /\ \A u \in Threads : u # t => partner'[u] = partner[u]
             /\ DOMAIN partner' = Threads
             /\ t >= d => Gathers(w, Span(row[t], Bound(t + 1 - 2 * d), Bound(t + 1 - d)))
  <2>1. CASE t >= d
    <3>1. PICK u : u = t - d
      OBVIOUS
    <3>2. u \in Threads
      <4>1. t < job.block /\ job.block \in Nat
        BY <1>2, ThreadNat
      <4>2. u \in 0 .. job.block - 1
        BY <1>4, <1>6, <2>1, <3>1, <4>1
      <4> QED BY <4>2 DEF Threads
    <3>3. Summed(u, l, row[t], partial[u], partialHave[u])
      BY <1>1, <1>2, <1>3, <3>2, PartnerSummed
    <3>4. partialHave[u] \in {{}, {TRUE}, {FALSE}}
      BY <1>7, <3>2 DEF LocalsTyped
    <3>5. Gathers(Loaded(partial[u], <<>>), Span(row[t], Bound(u + 1 - 2 ^ l), Bound(u + 1)))
      BY <3>3, <3>4, SummedOne DEF Scanned
    <3>6. u + 1 - 2 ^ l = t + 1 - 2 * d /\ u + 1 = t + 1 - d
      BY <1>4, <1>5, <1>6, <3>1
    <3>7. partner' = [partner EXCEPT ![t] = Loaded(partial[u], <<>>)]
      BY <1>6, <2>1, <3>1 DEF Partner
    <3>8. /\ partner'[t] = Loaded(partial[u], <<>>)
          /\ \A z \in Threads : z # t => partner'[z] = partner[z]
          /\ DOMAIN partner' = Threads
      BY <1>7, <3>7 DEF LocalsTyped
    <3> QED BY <3>5, <3>6, <3>8
  <2>2. CASE ~(t >= d)
    <3>1. partner' = partner
      BY <1>6, <2>2 DEF Partner
    <3> QED BY <1>7, <2>2, <3>1 DEF LocalsTyped
  <2> QED BY <2>1, <2>2
<1>9. PICK w : /\ partner'[t] = w /\ \A u \in Threads : u # t => partner'[u] = partner[u]
               /\ DOMAIN partner' = Threads
               /\ t >= d => Gathers(w, Span(row[t], Bound(t + 1 - 2 * d), Bound(t + 1 - d)))
  BY <1>8
<1>10. partner'[t] = w /\ \A u \in Threads : u # t => partner'[u] = partner[u]
  BY <1>9
<1>11. LocalsTyped(acc', have', partner', red', partialHave')
  BY <1>7, <1>9 DEF LocalsTyped
<1>12. Own(t)
  BY <1>2, <1>7, <1>10 DEF Own
<1>13. PICK p, r, v, h, m, mh :
         /\ p = pc[t] + 1 /\ r = row[t] /\ v = acc[t] /\ h = have[t]
         /\ m = partial[t] /\ mh = partialHave[t]
  OBVIOUS
<1>14. Summed(t, l, r, m, mh) /\ Scanned(v, h, r, Bound(t + 1 - d), Bound(t + 1))
  <2>1. PICK q, w0 : q = pc[t] /\ w0 = partner[t]
    OBVIOUS
  <2>2. ScanFine(t, q, r, v, h, w0, m, mh)
    BY <1>2, <1>13, <2>1
  <2>3. q \in 3 + 4 * l .. 6 + 4 * l /\ q <= 4 + 4 * Levels
    BY <1>3, <1>4, <2>1
  <2>4. /\ q \in 3 + 4 * l .. 6 + 4 * l => Summed(t, l, r, m, mh)
        /\ (q \in 3 + 4 * l .. 6 + 4 * l /\ q <= 4 + 4 * Levels) =>
             Scanned(v, h, r, Bound(t + 1 - 2 ^ l), Bound(t + 1))
    BY <1>2, <1>4, <2>2, ScanFineOf
  <2> QED BY <1>5, <2>3, <2>4
<1>15. ScanFine(t, p, r, v, h, w, m, mh)
  <2>1. p \in 3 + 4 * l .. 6 + 4 * l /\ p # 5 + 4 * Levels
    BY <1>3, <1>4, <1>13
  <2>2. Scanned(v, h, r, Bound(t + 1 - 2 ^ l), Bound(t + 1))
    BY <1>5, <1>14
  <2>3. t >= 2 ^ l => Gathers(w, Span(r, Bound(t + 1 - 2 * 2 ^ l), Bound(t + 1 - 2 ^ l)))
    BY <1>5, <1>9, <1>13
  <2> QED BY <1>2, <1>4, <1>14, <2>1, <2>2, <2>3, ScanFineAt
<1>16. Fine(t, pc'[t], row'[t], acc'[t], have'[t], partner'[t], red'[t], partial'[t], partialHave'[t])
  <2>1. ScanFine(t, pc'[t], row'[t], acc'[t], have'[t], partner'[t], partial'[t], partialHave'[t])
    BY <1>2, <1>7, <1>10, <1>13, <1>15
  <2> QED BY <1>2, <2>1, ScanOnly DEF Fine
<1>17. SharedFine(pc'[0], row'[0], stage')
  BY <1>2, ScanOnly
<1>18. OutFine(out')
  BY <1>7 DEF RightInv
<1> QED BY <1>2, <1>11, <1>12, <1>16, <1>17, <1>18 DEF StaysRight

(* A thread's total once its partner's is joined to it.                    *)
LEMMA Doubled ==
  ASSUME job \in Jobs, NEW t \in Nat, NEW d \in Nat, NEW r,
         NEW v, NEW h \in BOOLEAN, Scanned(v, h, r, Bound(t + 1 - d), Bound(t + 1)),
         NEW w, Gathers(w, Span(r, Bound(t + 1 - 2 * d), Bound(t + 1 - d)))
  PROVE  Scanned(Combined(1, h, v, w), h \/ HasFlag(1), r, Bound(t + 1 - 2 * d), Bound(t + 1))
<1>1. PICK i, j, k : i = t + 1 - 2 * d /\ j = t + 1 - d /\ k = t + 1
  OBVIOUS
<1>2. i \in Int /\ j \in Int /\ k \in Int /\ i <= j /\ j <= k
  BY <1>1
<1>3. PICK a, b, c : a = Bound(i) /\ b = Bound(j) /\ c = Bound(k)
  OBVIOUS
<1>4. a \in Nat /\ b \in Nat /\ c \in Nat /\ a <= b /\ b <= c /\ c <= job.extent
  <2>1. a \in Nat /\ b \in Nat /\ a <= b
    BY <1>2, <1>3, BoundsGrow
  <2>2. c \in Nat /\ b <= c /\ c <= job.extent
    BY <1>2, <1>3, BoundsGrow
  <2> QED BY <2>1, <2>2
<1>5. Span(r, a, b) \cup Span(r, b, c) = Span(r, a, c) /\ Span(r, a, b) \cap Span(r, b, c) = {}
  BY <1>4, SpanBoth
<1>6. Gathers(v, Span(r, b, c)) /\ ((HasFlag(1) /\ ~h) => v = <<>>) /\ Gathers(w, Span(r, a, b))
  BY <1>1, <1>3 DEF Scanned
<1>7. PICK value : value = Combined(1, h, v, w)
  OBVIOUS
<1>8. value = v \o w \/ (v = <<>> /\ value = w)
  BY <1>6, <1>7 DEF Combined
<1>9. Gathers(value, Span(r, b, c) \cup Span(r, a, b))
  <2>1. Span(r, b, c) \cap Span(r, a, b) = {}
    BY <1>5
  <2> QED BY <1>6, <1>8, <2>1, ScanJoins
<1>10. Gathers(value, Span(r, a, c))
  <2>1. Span(r, b, c) \cup Span(r, a, b) = Span(r, a, c)
    BY <1>5
  <2> QED BY <1>9, <2>1
<1> QED BY <1>1, <1>3, <1>7, <1>10 DEF Scanned

LEMMA CombineRight ==
  ASSUME RightInv, NEW t \in Threads, Combine(t)
  PROVE  StaysRight(t)
<1>1. Moves(t) /\ Program[pc[t]].do = "Combine"
  BY DoingMoves DEF Combine
<1>2. /\ job.lift = "scan" /\ ScanAt(Program[pc[t]], pc[t]) /\ job \in Jobs /\ job' = job
      /\ \A u \in Threads : u # t => pc'[u] = pc[u] /\ row'[u] = row[u]
      /\ pc'[t] = pc[t] + 1 /\ row'[t] = row[t] /\ have[t] \in BOOLEAN
      /\ ScanFine(t, pc[t], row[t], acc[t], have[t], partner[t], partial[t], partialHave[t])
  BY <1>1, ScanStep
<1>3. PICK l \in 0 .. Levels - 1 : pc[t] = 6 + 4 * l /\ Program[pc[t]].arg = 2 ^ l
  BY <1>1, <1>2, ScanIs
<1>4. Levels \in Nat /\ Levels <= 31 /\ l \in 0 .. Levels /\ l < Levels /\ t \in Nat
  BY <1>2, LengthsOf, ThreadNat
<1>5. PICK d, n : d = 2 ^ l /\ n = l + 1
  OBVIOUS
<1>6. d \in Nat /\ d > 0 /\ Arg(t) = d /\ n \in 0 .. Levels /\ 2 ^ n = 2 * d
  <2>1. l \in 0 .. 31 /\ n \in 0 .. 31 /\ n > 0 /\ n - 1 = l /\ n \in 0 .. Levels
    BY <1>4, <1>5
  <2>2. 2 * 2 ^ (n - 1) = 2 ^ n
    BY <2>1, PowerStep
  <2> QED BY <1>3, <1>5, <2>1, <2>2, PowerStep DEF Arg
<1>7. /\ LocalsTyped(acc, have, partner, red, partialHave)
      /\ partner' = partner /\ red' = red /\ out' = out
  BY DEF RightInv, Combine
<1>8. PICK p, r, v, h, w, m, mh :
         /\ p = pc[t] /\ r = row[t] /\ v = acc[t] /\ h = have[t] /\ w = partner[t]
         /\ m = partial[t] /\ mh = partialHave[t]
  OBVIOUS
<1>9. /\ Summed(t, l, r, m, mh) /\ Scanned(v, h, r, Bound(t + 1 - d), Bound(t + 1))
      /\ t >= d => Gathers(w, Span(r, Bound(t + 1 - 2 * d), Bound(t + 1 - d)))
  <2>1. ScanFine(t, p, r, v, h, w, m, mh)
    BY <1>2, <1>8
  <2>2. p \in 3 + 4 * l .. 6 + 4 * l /\ p \in 5 + 4 * l .. 6 + 4 * l /\ p <= 4 + 4 * Levels
    BY <1>3, <1>4, <1>8
  <2>3. /\ p \in 3 + 4 * l .. 6 + 4 * l => Summed(t, l, r, m, mh)
        /\ (p \in 3 + 4 * l .. 6 + 4 * l /\ p <= 4 + 4 * Levels) =>
             Scanned(v, h, r, Bound(t + 1 - 2 ^ l), Bound(t + 1))
        /\ (p \in 5 + 4 * l .. 6 + 4 * l /\ l < Levels /\ t >= 2 ^ l) =>
             Gathers(w, Span(r, Bound(t + 1 - 2 * 2 ^ l), Bound(t + 1 - 2 ^ l)))
    BY <1>2, <1>4, <2>1, ScanFineOf
  <2> QED BY <1>4, <1>5, <2>2, <2>3
<1>10. ASSUME NEW value, NEW held, NEW x, NEW y,
              Summed(t, n, r, x, y), Scanned(value, held, r, Bound(t + 1 - 2 * d), Bound(t + 1)),
              acc'[t] = value, have'[t] = held, partial'[t] = x, partialHave'[t] = y
       PROVE  Fine(t, pc'[t], row'[t], acc'[t], have'[t], partner'[t], red'[t], partial'[t], partialHave'[t])
  <2>1. PICK q : q = p + 1
    OBVIOUS
  <2>2. q \in 3 + 4 * n .. 6 + 4 * n /\ ~(q >= 5 + 4 * n) /\ q # 5 + 4 * Levels
    BY <1>3, <1>4, <1>5, <1>8, <2>1
  <2>3. Scanned(value, held, r, Bound(t + 1 - 2 ^ n), Bound(t + 1))
    BY <1>6, <1>10
  <2>4. Summed(t, n, r, x, y)
    BY <1>10
  <2>5. n \in 0 .. Levels
    BY <1>6
  <2>6. ScanFine(t, q, r, value, held, w, x, y)
    BY <1>2, <1>4, <2>2, <2>3, <2>4, <2>5, ScanFineAt
  <2>7. ScanFine(t, pc'[t], row'[t], acc'[t], have'[t], partner'[t], partial'[t], partialHave'[t])
    BY <1>2, <1>7, <1>8, <1>10, <2>1, <2>6
  <2> QED BY <1>2, <2>7, ScanOnly DEF Fine
<1>11. SharedFine(pc'[0], row'[0], stage')
  BY <1>2, ScanOnly
<1>12. OutFine(out')
  BY <1>7 DEF RightInv
<1>13. CASE t >= d
  <2>1. PICK value, held : value = Combined(1, h, v, w) /\ held = (h \/ HasFlag(1))
    OBVIOUS
  <2>2. held \in BOOLEAN
    BY <2>1
  <2>3. /\ acc' = [acc EXCEPT ![t] = value] /\ have' = [have EXCEPT ![t] = held]
        /\ Publishes(t, 1, value, held)
    BY <1>6, <1>8, <1>13, <2>1 DEF Combine
  <2>4. /\ partial'[t] = {value} /\ (HasFlag(1) => partialHave'[t] = {held})
        /\ \A u \in Threads : u # t => partial'[u] = partial[u] /\ partialHave'[u] = partialHave[u]
        /\ \A u \in Threads : partialHave'[u] \in {{}, {TRUE}, {FALSE}}
        /\ stage' = stage
    BY <2>2, <2>3, PublishesOwn
  <2>5. acc'[t] = value /\ have'[t] = held /\ \A u \in Threads : u # t => acc'[u] = acc[u] /\ have'[u] = have[u]
    BY <1>7, <2>3 DEF LocalsTyped
  <2>6. LocalsTyped(acc', have', partner', red', partialHave')
    BY <1>7, <2>2, <2>3, <2>4 DEF LocalsTyped
  <2>7. Own(t)
    BY <1>2, <1>7, <2>4, <2>5 DEF Own
  <2>8. Scanned(value, held, r, Bound(t + 1 - 2 * d), Bound(t + 1))
    <3>1. /\ Scanned(v, h, r, Bound(t + 1 - d), Bound(t + 1)) /\ h \in BOOLEAN
          /\ Gathers(w, Span(r, Bound(t + 1 - 2 * d), Bound(t + 1 - d)))
      BY <1>2, <1>8, <1>9, <1>13
    <3>2. Scanned(Combined(1, h, v, w), h \/ HasFlag(1), r, Bound(t + 1 - 2 * d), Bound(t + 1))
      BY <1>2, <1>4, <1>6, <3>1, Doubled
    <3> QED BY <2>1, <3>2
  <2>9. Summed(t, n, r, partial'[t], partialHave'[t])
    BY <1>6, <2>4, <2>8 DEF Summed
  <2>10. Fine(t, pc'[t], row'[t], acc'[t], have'[t], partner'[t], red'[t], partial'[t], partialHave'[t])
    BY <1>10, <2>5, <2>8, <2>9
  <2> QED BY <1>2, <1>11, <1>12, <2>6, <2>7, <2>10 DEF StaysRight
<1>14. CASE ~(t >= d)
  <2>1. acc' = acc /\ have' = have /\ partial' = partial /\ partialHave' = partialHave /\ stage' = stage
    BY <1>6, <1>14 DEF Combine, shared
  <2>2. LocalsTyped(acc', have', partner', red', partialHave')
    BY <1>7, <2>1
  <2>3. Own(t)
    BY <1>2, <1>7, <2>1 DEF Own
  <2>4. Bound(t + 1 - d) = 0 /\ Bound(t + 1 - 2 * d) = 0
    <3>1. t + 1 - d \in Int /\ t + 1 - d <= 0 /\ t + 1 - 2 * d \in Int /\ t + 1 - 2 * d <= 0
      BY <1>4, <1>6, <1>14
    <3> QED BY <3>1, BoundZero
  <2>5. Scanned(v, h, r, Bound(t + 1 - 2 * d), Bound(t + 1))
    BY <1>9, <2>4
  <2>6. Summed(t, n, r, m, mh)
    <3>1. Summed(t, l, r, m, mh) /\ Bound(t + 1 - 2 ^ l) = Bound(t + 1 - 2 ^ n)
      BY <1>5, <1>6, <1>9, <2>4
    <3> QED BY <3>1 DEF Summed
  <2>7. Fine(t, pc'[t], row'[t], acc'[t], have'[t], partner'[t], red'[t], partial'[t], partialHave'[t])
    <3>1. acc'[t] = v /\ have'[t] = h /\ partial'[t] = m /\ partialHave'[t] = mh
      BY <1>8, <2>1
    <3> QED BY <1>10, <2>5, <2>6, <3>1
  <2> QED BY <1>2, <1>11, <1>12, <2>2, <2>3, <2>7 DEF StaysRight
<1> QED BY <1>4, <1>6, <1>13, <1>14

(* When a thread takes its offset every other has published its last       *)
(* total.                                                                  *)
LEMMA OffsetSummed ==
  ASSUME RightInv, NEW t \in Threads, NEW u \in Threads, job.lift = "scan",
         pc[t] = 4 + 4 * Levels, Program[pc[t]].do = "Offset"
  PROVE  Summed(u, Levels, row[t], partial[u], partialHave[u])
<1>1. /\ job \in Jobs
      /\ row[t] \in Nat /\ pc[t] \in 1 .. Len(Program) /\ row[u] \in Nat /\ pc[u] \in 1 .. Len(Program)
      /\ Behind(Program, row[t], pc[t]) = Behind(Program, row[u], pc[u])
  BY DEF RightInv, LiftInv, LiftTyped, Together
<1>2. Levels \in Nat /\ Levels \in 0 .. Levels
  BY <1>1, LengthsOf
<1>3. Len(Program) = 6 + 4 * Levels
  BY <1>1, ScanText
<1>4. Program[pc[t] - 1] = Barrier /\ Program[pc[t] + 2] = Barrier
  BY StatementFacts DEF RightInv, WellPlaced
<1>5. PICK P, r, p, s, q, b, e :
        /\ P = Program /\ r = row[t] /\ p = pc[t] /\ s = row[u] /\ q = pc[u] /\ b = p - 1 /\ e = p + 2
  OBVIOUS
<1>6. /\ Len(P) \in Nat /\ r \in Nat /\ p \in 1 .. Len(P) /\ s \in Nat /\ q \in 1 .. Len(P)
      /\ Behind(P, r, p) = Behind(P, s, q)
      /\ b \in 1 .. Len(P) /\ b < p /\ P[b] = Barrier /\ e \in 1 .. Len(P) /\ p < e /\ P[e] = Barrier
  BY <1>1, <1>2, <1>3, <1>4, <1>5
<1>7. s = r /\ b < q /\ q <= e
  BY <1>6, Confined, SMTT(30)
<1>8. q \in 3 + 4 * Levels .. 6 + 4 * Levels
  BY <1>2, <1>5, <1>6, <1>7
<1>9. PICK v, h, w, m, mh :
        v = acc[u] /\ h = have[u] /\ w = partner[u] /\ m = partial[u] /\ mh = partialHave[u]
  OBVIOUS
<1>10. ScanFine(u, q, s, v, h, w, m, mh)
  BY <1>5, <1>9 DEF RightInv, Fine
<1>11. Summed(u, Levels, s, m, mh)
  BY <1>2, <1>8, <1>10, ScanFineOf
<1> QED BY <1>5, <1>7, <1>9, <1>11

LEMMA OffsetRight ==
  ASSUME RightInv, NEW t \in Threads, Offset(t)
  PROVE  StaysRight(t)
<1>1. Moves(t) /\ Program[pc[t]].do = "Offset"
  BY DoingMoves DEF Offset
<1>2. /\ job.lift = "scan" /\ ScanAt(Program[pc[t]], pc[t]) /\ job \in Jobs /\ job' = job
      /\ \A u \in Threads : u # t => pc'[u] = pc[u] /\ row'[u] = row[u]
      /\ pc'[t] = pc[t] + 1 /\ row'[t] = row[t] /\ have[t] \in BOOLEAN
      /\ ScanFine(t, pc[t], row[t], acc[t], have[t], partner[t], partial[t], partialHave[t])
  BY <1>1, ScanStep
<1>3. pc[t] = 4 + 4 * Levels
  BY <1>1, <1>2, ScanIs
<1>4. Levels \in Nat /\ Levels \in 0 .. Levels /\ t \in Nat
  BY <1>2, LengthsOf, ThreadNat
<1>5. /\ LocalsTyped(acc, have, partner, red, partialHave)
      /\ partner' = partner /\ red' = red /\ out' = out
      /\ partial' = partial /\ partialHave' = partialHave /\ stage' = stage
  BY DEF RightInv, Offset, shared
<1>6. \E v, h : /\ h \in BOOLEAN /\ Scanned(v, h, row[t], 0, Bound(t))
                /\ acc' = [acc EXCEPT ![t] = v]
                /\ have' = [have EXCEPT ![t] = h]
  <2>1. CASE t = 0
    <3>1. acc' = [acc EXCEPT ![t] = <<>>] /\ have' = [have EXCEPT ![t] = FALSE]
      BY <2>1 DEF Offset
    <3>2. Bound(t) = 0
      BY <2>1, BoundZero
    <3>3. Span(row[t], 0, 0) = {}
      BY SpanNone
    <3>4. Scanned(<<>>, FALSE, row[t], 0, Bound(t))
      BY <3>2, <3>3, GathersNothing DEF Scanned
    <3>5. FALSE \in BOOLEAN
      OBVIOUS
    <3> QED BY <3>1, <3>4, <3>5
  <2>2. CASE t # 0
    <3>1. PICK u : u = t - 1
      OBVIOUS
    <3>2. u \in Threads /\ u + 1 = t /\ u \in Nat
      <4>1. t < job.block /\ job.block \in Nat
        BY <1>2, ThreadNat
      <4>2. u \in 0 .. job.block - 1 /\ u + 1 = t
        BY <1>4, <2>2, <3>1, <4>1
      <4> QED BY <4>2 DEF Threads
    <3>3. PICK r, m, mh : r = row[t] /\ m = partial[u] /\ mh = partialHave[u]
      OBVIOUS
    <3>4. Summed(u, Levels, r, m, mh) /\ mh \in {{}, {TRUE}, {FALSE}}
      BY <1>1, <1>2, <1>3, <1>5, <3>2, <3>3, OffsetSummed DEF LocalsTyped
    <3>5. PICK v, x : v = Loaded(m, <<>>) /\ x = Loaded(mh, FALSE)
      OBVIOUS
    <3>6. Scanned(v, x, r, Bound(u + 1 - 2 ^ Levels), Bound(u + 1)) /\ x \in BOOLEAN
      BY <3>4, <3>5, SummedOne
    <3>7. Bound(u + 1 - 2 ^ Levels) = 0
      <4>1. 2 ^ Levels = job.block
        BY <1>2, JobFacts
      <4>2. u + 1 - job.block \in Int /\ u + 1 - job.block <= 0
        BY <1>2, <1>4, <3>2, ThreadNat
      <4> QED BY <4>1, <4>2, BoundZero
    <3>8. Scanned(v, x, r, 0, Bound(t))
      BY <3>2, <3>6, <3>7
    <3>9. acc' = [acc EXCEPT ![t] = v]
      BY <2>2, <3>1, <3>3, <3>5 DEF Offset
    <3>10. CASE HasFlag(1)
      <4>1. have' = [have EXCEPT ![t] = x]
        BY <2>2, <3>1, <3>3, <3>5, <3>10 DEF Offset
      <4> QED BY <3>3, <3>6, <3>8, <3>9, <4>1
    <3>11. CASE ~HasFlag(1)
      <4>1. have' = have
        BY <2>2, <3>11 DEF Offset
      <4>2. have' = [have EXCEPT ![t] = have[t]]
        BY <1>5, <4>1 DEF LocalsTyped
      <4>3. Scanned(v, have[t], r, 0, Bound(t))
        BY <3>8, <3>11 DEF Scanned
      <4> QED BY <1>2, <3>3, <3>9, <4>2, <4>3
    <3> QED BY <3>10, <3>11
  <2> QED BY <2>1, <2>2
<1>7. PICK v, h : /\ h \in BOOLEAN /\ Scanned(v, h, row[t], 0, Bound(t))
                  /\ acc' = [acc EXCEPT ![t] = v]
                  /\ have' = [have EXCEPT ![t] = h]
  BY <1>6
<1>8. acc'[t] = v /\ have'[t] = h /\ \A u \in Threads : u # t => acc'[u] = acc[u] /\ have'[u] = have[u]
  BY <1>5, <1>7 DEF LocalsTyped
<1>9. LocalsTyped(acc', have', partner', red', partialHave')
  BY <1>5, <1>7 DEF LocalsTyped
<1>10. Own(t)
  BY <1>2, <1>5, <1>8 DEF Own
<1>11. PICK p, r, w, m, mh :
         /\ p = pc[t] + 1 /\ r = row[t] /\ w = partner[t] /\ m = partial[t] /\ mh = partialHave[t]
  OBVIOUS
<1>12. Summed(t, Levels, r, m, mh)
  BY <1>1, <1>2, <1>3, <1>11, OffsetSummed
<1>13. ScanFine(t, p, r, v, h, w, m, mh)
  <2>1. p \in 3 + 4 * Levels .. 6 + 4 * Levels /\ ~(p <= 4 + 4 * Levels) /\ ~(Levels < Levels)
    BY <1>3, <1>4, <1>11
  <2>2. Scanned(v, h, r, 0, Bound(t))
    BY <1>7, <1>11
  <2> QED BY <1>2, <1>4, <1>12, <2>1, <2>2, ScanFineAt
<1>14. Fine(t, pc'[t], row'[t], acc'[t], have'[t], partner'[t], red'[t], partial'[t], partialHave'[t])
  <2>1. ScanFine(t, pc'[t], row'[t], acc'[t], have'[t], partner'[t], partial'[t], partialHave'[t])
    BY <1>2, <1>5, <1>8, <1>11, <1>13
  <2> QED BY <1>2, <2>1, ScanOnly DEF Fine
<1>15. SharedFine(pc'[0], row'[0], stage')
  BY <1>2, ScanOnly
<1>16. OutFine(out')
  BY <1>5 DEF RightInv
<1> QED BY <1>2, <1>9, <1>10, <1>14, <1>15, <1>16 DEF StaysRight

LEMMA SerialPrefixGathers ==
  ASSUME job \in Jobs, NEW r, NEW p \in 0 .. job.extent - 1, NEW k, k = IF job.exclusive THEN p ELSE p + 1
  PROVE  Gathers(SerialPrefix(r, At(p)), Span(r, 0, k))
<1>1. job.extent \in Nat
  BY JobsAssumption
<1>2. k \in Nat /\ k <= job.extent /\ 0 \in Nat
  BY <1>1
<1>3. At(At(p)) = p
  BY AtTurns
<1>4. SerialPrefix(r, At(p)) = [n \in 1 .. k |-> Leaf(r, At(n - 1))]
  BY <1>3 DEF SerialPrefix
<1>5. Walk(r, 0, k) = [n \in 1 .. k |-> Leaf(r, At(n - 1))]
  <2>1. (IF k > 0 THEN k - 0 ELSE 0) = k
    BY <1>2
  <2>2. Walk(r, 0, k) = [n \in 1 .. k |-> Leaf(r, At(0 + n - 1))]
    BY <2>1 DEF Walk
  <2>3. \A n \in 1 .. k : 0 + n - 1 = n - 1
    BY <1>2
  <2> QED BY <2>2, <2>3
<1> QED BY <1>2, <1>4, <1>5, WalkGathers

LEMMA PrefixRight ==
  ASSUME job \in Jobs, job.lift = "scan", NEW t \in Threads, NEW r, NEW v, NEW h \in BOOLEAN,
         Scanned(v, h, r, 0, Bound(t)),
         NEW p \in 0 .. job.extent - 1, Lo(t) <= p, p < Hi(t)
  PROVE  Right(r, At(p), FoldStep(1, h, v, Walk(r, Lo(t), IF job.exclusive THEN p ELSE p + 1)))
<1>1. PICK lo, hi, k : lo = Lo(t) /\ hi = Hi(t) /\ k = IF job.exclusive THEN p ELSE p + 1
  OBVIOUS
<1>2. lo \in Nat /\ hi \in Nat /\ hi <= job.extent /\ job.extent \in Nat /\ (lo < hi => Bound(t) = lo)
  BY <1>1, BoundOf, JobsAssumption
<1>3. Bound(t) = lo /\ k \in Nat /\ lo <= k /\ k <= job.extent /\ 0 \in Nat /\ 0 <= lo
  BY <1>1, <1>2
<1>4. PICK e : e = Walk(r, lo, k)
  OBVIOUS
<1>5. Gathers(e, Span(r, lo, k))
  BY <1>2, <1>3, <1>4, WalkGathers
<1>6. Scanned(v, h, r, 0, lo)
  BY <1>3
<1>7. Scanned(FoldStep(1, h, v, e), FoldHave(1, h, e), r, 0, k)
  BY <1>2, <1>3, <1>5, <1>6, ScannedMore
<1>8. Gathers(SerialPrefix(r, At(p)), Span(r, 0, k))
  BY <1>1, SerialPrefixGathers
<1>9. Permutes(FoldStep(1, h, v, e), SerialPrefix(r, At(p)))
  BY <1>7, <1>8, GathersSame DEF Scanned
<1> QED BY <1>1, <1>4, <1>9 DEF Right

LEMMA WriteRight ==
  ASSUME RightInv, NEW t \in Threads, Write(t)
  PROVE  StaysRight(t)
<1>1. Moves(t) /\ Program[pc[t]].do = "Write"
  BY DoingMoves DEF Write
<1>2. /\ job.lift = "scan" /\ ScanAt(Program[pc[t]], pc[t]) /\ job \in Jobs /\ job' = job
      /\ \A u \in Threads : u # t => pc'[u] = pc[u] /\ row'[u] = row[u]
      /\ pc'[t] = pc[t] + 1 /\ row'[t] = row[t] /\ have[t] \in BOOLEAN
      /\ ScanFine(t, pc[t], row[t], acc[t], have[t], partner[t], partial[t], partialHave[t])
  BY <1>1, ScanStep
<1>3. pc[t] = 5 + 4 * Levels
  BY <1>1, <1>2, ScanIs
<1>4. Levels \in Nat /\ Levels \in 0 .. Levels /\ t \in Nat
  BY <1>2, LengthsOf, ThreadNat
<1>5. /\ LocalsTyped(acc, have, partner, red, partialHave)
      /\ partner' = partner /\ red' = red
      /\ partial' = partial /\ partialHave' = partialHave /\ stage' = stage
  BY DEF RightInv, Write, shared
<1>6. PICK v, h : /\ v = FoldStep(1, have[t], acc[t], Walk(row[t], Lo(t), Hi(t)))
                  /\ h = FoldHave(1, have[t], Walk(row[t], Lo(t), Hi(t)))
  OBVIOUS
<1>7. h \in BOOLEAN /\ acc' = [acc EXCEPT ![t] = v] /\ have' = [have EXCEPT ![t] = h]
  BY <1>6 DEF Write, FoldHave
<1>8. acc'[t] = v /\ have'[t] = h /\ \A u \in Threads : u # t => acc'[u] = acc[u] /\ have'[u] = have[u]
  BY <1>5, <1>7 DEF LocalsTyped
<1>9. LocalsTyped(acc', have', partner', red', partialHave')
  BY <1>5, <1>7 DEF LocalsTyped
<1>10. Own(t)
  BY <1>2, <1>5, <1>8 DEF Own
<1>11. PICK p, r, a, f, w, m, mh :
         /\ p = pc[t] /\ r = row[t] /\ a = acc[t] /\ f = have[t] /\ w = partner[t]
         /\ m = partial[t] /\ mh = partialHave[t]
  OBVIOUS
<1>12. Summed(t, Levels, r, m, mh) /\ Scanned(a, f, r, 0, Bound(t))
  <2>1. ScanFine(t, p, r, a, f, w, m, mh)
    BY <1>2, <1>11
  <2>2. p \in 3 + 4 * Levels .. 6 + 4 * Levels /\ p = 5 + 4 * Levels
    BY <1>3, <1>4, <1>11
  <2> QED BY <1>2, <1>4, <2>1, <2>2, ScanFineOf
<1>13. ScanFine(t, pc'[t], row'[t], acc'[t], have'[t], partner'[t], partial'[t], partialHave'[t])
  <2>1. PICK q : q = p + 1
    OBVIOUS
  <2>2. /\ q \in 3 + 4 * Levels .. 6 + 4 * Levels /\ ~(q <= 4 + 4 * Levels) /\ ~(Levels < Levels)
        /\ q # 5 + 4 * Levels
    BY <1>3, <1>4, <1>11, <2>1
  <2>3. ScanFine(t, q, r, v, h, w, m, mh)
    BY <1>2, <1>4, <1>12, <2>2, ScanFineAt
  <2> QED BY <1>2, <1>5, <1>8, <1>11, <2>1, <2>3
<1>14. Fine(t, pc'[t], row'[t], acc'[t], have'[t], partner'[t], red'[t], partial'[t], partialHave'[t])
  BY <1>2, <1>13, ScanOnly DEF Fine
<1>15. SharedFine(pc'[0], row'[0], stage')
  BY <1>2, ScanOnly
<1>16. OutFine(out')
  <2> DEFINE prefix(x) == FoldStep(1, f, a, Walk(r, Lo(t), IF job.exclusive THEN x ELSE x + 1))
             mine == {x \in 0 .. job.extent - 1 : Lo(t) <= x /\ x < Hi(t)}
  <2>1. out' = [out EXCEPT ![r] = [i \in DOMAIN @ |-> @[i] \cup {prefix(x) : x \in {y \in mine : At(y) = i}}]]
    BY <1>11 DEF Write
  <2>2. ASSUME NEW x \in mine PROVE Right(r, At(x), prefix(x))
    <3>1. f \in BOOLEAN
      BY <1>2, <1>11
    <3> QED BY <1>2, <1>12, <3>1, PrefixRight
  <2> HIDE DEF prefix, mine
  <2>3. OutFine(out)
    BY DEF RightInv
  <2>4. DOMAIN out' = DOMAIN out
    BY <2>1
  <2>5. ASSUME NEW s \in DOMAIN out', NEW i \in DOMAIN out'[s], NEW z \in out'[s][i]
        PROVE  Right(s, i, z)
    <3>1. s \in DOMAIN out
      BY <2>4, <2>5
    <3>2. CASE s # r
      <4>1. out'[s] = out[s]
        BY <2>1, <3>1, <3>2
      <4> QED BY <2>3, <2>5, <3>1, <4>1 DEF OutFine
    <3>3. CASE s = r
      <4>1. out'[s] = [j \in DOMAIN out[s] |-> out[s][j] \cup {prefix(x) : x \in {y \in mine : At(y) = j}}]
        BY <2>1, <3>1, <3>3
      <4>2. i \in DOMAIN out[s]
        BY <2>5, <4>1
      <4>3. z \in out[s][i] \/ \E x \in mine : At(x) = i /\ z = prefix(x)
        BY <2>5, <4>1, <4>2
      <4>4. CASE z \in out[s][i]
        BY <2>3, <3>1, <4>2, <4>4 DEF OutFine
      <4>5. CASE \E x \in mine : At(x) = i /\ z = prefix(x)
        BY <2>2, <3>3, <4>5
      <4> QED BY <4>3, <4>4, <4>5
    <3> QED BY <3>2, <3>3
  <2> QED BY <2>5 DEF OutFine
<1> QED BY <1>2, <1>9, <1>10, <1>14, <1>15, <1>16 DEF StaysRight

-----------------------------------------------------------------------------
(* The barriers.                                                           *)

LEMMA ScanStarts ==
  ASSUME job \in Jobs, NEW u, NEW r, NEW v, NEW h, NEW w, NEW m, NEW mh
  PROVE  ScanFine(u, 1, r, v, h, w, m, mh)
<1>1. Levels \in Nat
  BY LengthsOf
<1>2. \A l \in 0 .. Levels : 1 \notin 3 + 4 * l .. 6 + 4 * l /\ 1 \notin 5 + 4 * l .. 6 + 4 * l
  BY <1>1
<1>3. 1 # 5 + 4 * Levels /\ 1 # 2
  BY <1>1
<1> QED BY <1>2, <1>3 DEF ScanFine

LEMMA BarrierStage ==
  ASSUME job \in Jobs, job.lift # "scan", NEW p \in 1 .. Len(Program), Program[p] = Barrier,
         NEW u, NEW r, NEW v, NEW h, NEW m, NEW mh, StageFine(u, p, r, v, h, m, mh)
  PROVE  StageFine(u, p + 1, r, v, h, m, mh) /\ p # Len(Program)
<1>1. Program[p] # Do("Epilogue", 3)
  BY DEF Do, Barrier
<1>2. PICK s \in {1, 2}, q \in 1 .. StageLen : InStage(p, s, q)
  BY <1>1, Placed
<1>3. StatementAt(Program[p], s, q)
  BY <1>2, TextAt
<1>4. q = 3 \/ (\E k \in 1 .. Levels : q = 3 + 2 * k) \/ (q = 5 + 2 * Levels /\ job.lift = "rowreduce")
  BY <1>3, StatementIs
<1>5. Staged(s, q, u, r, v, h, m, mh)
  BY <1>2 DEF StageFine
<1>6. Staged(s, q + 1, u, r, v, h, m, mh)
  BY <1>4, <1>5, KeptStaged
<1>7. StageFine(u, p + 1, r, v, h, m, mh)
  BY <1>2, <1>6, StageMoves
<1>8. p # Len(Program)
  <2>1. CASE job.lift = "rowreduce"
    BY <1>2, <2>1, PlaceIs
  <2>2. CASE job.lift = "reduce"
    <3>1. q < 4 + 2 * Levels
      <4>1. Levels \in Nat
        BY LengthsOf
      <4> QED BY <1>4, <2>2, <4>1
    <3> QED BY <1>2, <2>2, <3>1, PlaceIs
  <2> QED BY <2>1, <2>2, JobsAssumption
<1> QED BY <1>7, <1>8

LEMMA BarrierScan ==
  ASSUME job \in Jobs, job.lift = "scan", NEW p \in 1 .. Len(Program), Program[p] = Barrier,
         NEW u \in Nat, NEW r, NEW v, NEW h, NEW w, NEW m, NEW mh, ScanFine(u, p, r, v, h, w, m, mh),
         p # Len(Program)
  PROVE  ScanFine(u, p + 1, r, v, h, w, m, mh)
<1>1. Levels \in Nat
  BY LengthsOf
<1>2. ScanAt(Program[p], p) /\ Len(Program) = 6 + 4 * Levels
  BY ScanText
<1>3. p = 3 \/ \E l \in 0 .. Levels - 1 : p = 5 + 4 * l \/ p = 7 + 4 * l
  BY <1>2, ScanIs
<1>4. \E l \in 0 .. Levels : p = 3 + 4 * l \/ (p = 5 + 4 * l /\ l < Levels)
  <2>1. CASE p = 3
    <3>1. 0 \in 0 .. Levels /\ p = 3 + 4 * 0
      BY <1>1, <2>1
    <3> QED BY <3>1
  <2>2. ASSUME NEW l \in 0 .. Levels - 1, p = 5 + 4 * l \/ p = 7 + 4 * l
        PROVE  \E k \in 0 .. Levels : p = 3 + 4 * k \/ (p = 5 + 4 * k /\ k < Levels)
    <3>1. CASE p = 5 + 4 * l
      <4>1. l \in 0 .. Levels /\ l < Levels
        BY <1>1
      <4> QED BY <3>1, <4>1
    <3>2. CASE p = 7 + 4 * l
      <4>1. l + 1 \in 0 .. Levels /\ p = 3 + 4 * (l + 1)
        BY <1>1, <3>2
      <4> QED BY <4>1
    <3> QED BY <2>2, <3>1, <3>2
  <2> QED BY <1>3, <2>1, <2>2
<1>5. PICK l \in 0 .. Levels : p = 3 + 4 * l \/ (p = 5 + 4 * l /\ l < Levels)
  BY <1>4
<1> QED BY <1>5, KeptScan

(* What a thread holds and has published passes a barrier with it.         *)
LEMMA BarrierFine ==
  ASSUME job \in Jobs, NEW u \in Threads, NEW p \in 1 .. Len(Program), Program[p] = Barrier,
         NEW r \in Nat, NEW z, NEW k, NextPlace(p, r, z, k),
         NEW v, NEW h, NEW w, NEW x, NEW m, NEW mh, Fine(u, p, r, v, h, w, x, m, mh)
  PROVE  Fine(u, z, k, v, h, w, x, m, mh)
<1>1. StageFine(u, p, r, v, h, m, mh) /\ RedFine(p, r, x) /\ ScanFine(u, p, r, v, h, w, m, mh)
  BY DEF Fine
<1>2. RedFine(z, k, x)
  <2>1. Program[p].do # "Take"
    BY DEF Barrier, Do
  <2> QED BY <1>1, <2>1, RedMoves
<1>3. CASE job.lift # "scan"
  <2>1. StageFine(u, p + 1, r, v, h, m, mh) /\ p # Len(Program)
    BY <1>1, <1>3, BarrierStage
  <2>2. z = p + 1 /\ k = r
    BY <2>1 DEF NextPlace
  <2> QED BY <1>2, <1>3, <2>1, <2>2 DEF Fine, ScanFine
<1>4. CASE job.lift = "scan" /\ p # Len(Program)
  <2>1. u \in Nat
    BY ThreadNat
  <2>2. ScanFine(u, p + 1, r, v, h, w, m, mh)
    BY <1>1, <1>4, <2>1, BarrierScan
  <2>3. z = p + 1 /\ k = r
    BY <1>4 DEF NextPlace
  <2>4. StageFine(u, z, k, v, h, m, mh)
    BY <1>4, ScanOnly
  <2> QED BY <1>2, <2>2, <2>3, <2>4 DEF Fine
<1>5. CASE job.lift = "scan" /\ p = Len(Program)
  <2>1. z = 1
    BY <1>5 DEF NextPlace
  <2>2. ScanFine(u, z, k, v, h, w, m, mh)
    BY <2>1, ScanStarts
  <2>3. StageFine(u, z, k, v, h, m, mh)
    BY <1>5, ScanOnly
  <2> QED BY <1>2, <2>2, <2>3 DEF Fine
<1> QED BY <1>3, <1>4, <1>5

LEMMA MeetRight ==
  ASSUME RightInv, LiftInv', Meet
  PROVE  RightInv'
<1>1. /\ job \in Jobs /\ pc \in [Threads -> 1 .. Len(Program)] /\ row \in [Threads -> Nat]
      /\ job' = job
  BY DEF RightInv, LiftInv, LiftTyped, Meet
<1>2. 0 \in Threads
  BY <1>1, JobFacts
<1>3. ASSUME NEW u \in Threads
      PROVE  /\ pc[u] \in 1 .. Len(Program) /\ row[u] \in Nat /\ Program[pc[u]] = Barrier
             /\ NextPlace(pc[u], row[u], pc'[u], row'[u])
  <2>1. pc[u] = pc[0] /\ Program[pc[0]] = Barrier
    BY DEF Meet
  <2>2. NextPlace(pc[u], row[u], pc'[u], row'[u])
    <3>1. CASE pc[0] = Len(Program)
      <4>1. pc' = [t \in Threads |-> 1] /\ row' = [t \in Threads |-> row[t] + 1]
        BY <3>1 DEF Meet
      <4> QED BY <2>1, <3>1, <4>1 DEF NextPlace
    <3>2. CASE pc[0] # Len(Program)
      <4>1. pc' = [t \in Threads |-> pc[t] + 1] /\ row' = row
        BY <3>2 DEF Meet
      <4> QED BY <2>1, <3>2, <4>1 DEF NextPlace
    <3> QED BY <3>1, <3>2
  <2> QED BY <1>1, <2>1, <2>2
<1>4. /\ acc' = acc /\ have' = have /\ partner' = partner /\ red' = red
      /\ partial' = partial /\ partialHave' = partialHave /\ stage' = stage /\ out' = out
  BY DEF Meet, shared
<1>5. ASSUME NEW u \in Threads
      PROVE  Fine(u, pc'[u], row'[u], acc'[u], have'[u], partner'[u], red'[u], partial'[u], partialHave'[u])
  <2>1. PICK p, r, z, k, v, h, w, x, m, mh :
          /\ p = pc[u] /\ r = row[u] /\ z = pc'[u] /\ k = row'[u] /\ v = acc[u] /\ h = have[u]
          /\ w = partner[u] /\ x = red[u] /\ m = partial[u] /\ mh = partialHave[u]
    OBVIOUS
  <2>2. Fine(u, p, r, v, h, w, x, m, mh)
    BY <2>1 DEF RightInv
  <2>3. p \in 1 .. Len(Program) /\ r \in Nat /\ Program[p] = Barrier /\ NextPlace(p, r, z, k)
    BY <1>3, <2>1
  <2>4. Fine(u, z, k, v, h, w, x, m, mh)
    BY <1>1, <2>2, <2>3, BarrierFine
  <2> QED BY <1>4, <2>1, <2>4
<1>6. SharedFine(pc'[0], row'[0], stage')
  <2>1. PICK p, r, z, k, st : p = pc[0] /\ r = row[0] /\ z = pc'[0] /\ k = row'[0] /\ st = stage
    OBVIOUS
  <2>2. SharedFine(p, r, st)
    BY <2>1 DEF RightInv
  <2>3. p \in 1 .. Len(Program) /\ r \in Nat /\ NextPlace(p, r, z, k) /\ Program[p].do # "Share"
    <3>1. Program[p] = Barrier
      BY <1>2, <1>3, <2>1
    <3>2. Program[p].do # "Share"
      BY <3>1 DEF Barrier, Do
    <3> QED BY <1>2, <1>3, <2>1, <3>2
  <2>4. SharedFine(z, k, st)
    BY <1>1, <2>2, <2>3, SharedMoves
  <2> QED BY <1>4, <2>1, <2>4
<1>7. \A u \in Threads' :
        Fine(u, pc[u], row[u], acc[u], have[u], partner[u], red[u], partial[u], partialHave[u])'
  BY <1>1, <1>5, SameJob
<1>8. LocalsTyped(acc, have, partner, red, partialHave)'
  <2>1. LocalsTyped(acc', have', partner', red', partialHave')
    BY <1>4 DEF RightInv
  <2> QED BY <1>1, <2>1, SameJob
<1>9. SharedFine(pc[0], row[0], stage)'
  BY <1>1, <1>6, SameJob
<1>10. OutFine(out)'
  <2>1. OutFine(out')
    BY <1>4 DEF RightInv
  <2> QED BY <1>1, <2>1, SameJob
<1> QED BY <1>7, <1>8, <1>9, <1>10 DEF RightInv

LEMMA UnmovedRight ==
  ASSUME RightInv, LiftInv', UNCHANGED liftVars
  PROVE  RightInv'
<1>1. /\ job' = job /\ pc' = pc /\ row' = row /\ acc' = acc /\ have' = have /\ partner' = partner /\ red' = red
      /\ partial' = partial /\ partialHave' = partialHave /\ stage' = stage /\ out' = out
  BY DEF liftVars, shared
<1>2. \A u \in Threads' :
        Fine(u, pc[u], row[u], acc[u], have[u], partner[u], red[u], partial[u], partialHave[u])'
  <2>1. \A u \in Threads :
          Fine(u, pc'[u], row'[u], acc'[u], have'[u], partner'[u], red'[u], partial'[u], partialHave'[u])
    BY <1>1 DEF RightInv
  <2> QED BY <1>1, <2>1, SameJob
<1>3. LocalsTyped(acc, have, partner, red, partialHave)'
  <2>1. LocalsTyped(acc', have', partner', red', partialHave')
    BY <1>1 DEF RightInv
  <2> QED BY <1>1, <2>1, SameJob
<1>4. SharedFine(pc[0], row[0], stage)'
  <2>1. SharedFine(pc'[0], row'[0], stage')
    BY <1>1 DEF RightInv
  <2> QED BY <1>1, <2>1, SameJob
<1>5. OutFine(out)'
  <2>1. OutFine(out')
    BY <1>1 DEF RightInv
  <2> QED BY <1>1, <2>1, SameJob
<1> QED BY <1>2, <1>3, <1>4, <1>5 DEF RightInv

LEMMA InitRight ==
  ASSUME LiftInit
  PROVE  RightInv
<1>1. LiftInv
  BY InitLift
<1>2. /\ job \in Jobs /\ pc = [t \in Threads |-> 1] /\ row = [t \in Threads |-> 0]
      /\ acc = [t \in Threads |-> <<>>] /\ have = [t \in Threads |-> FALSE]
      /\ partner = [t \in Threads |-> <<>>] /\ red = [t \in Threads |-> <<>>]
      /\ partialHave = [t \in Threads |-> {}]
      /\ out = [r \in 0 .. Rows - 1 |-> [i \in 0 .. job.extent |-> {}]]
  BY DEF LiftInit
<1>3. LocalsTyped(acc, have, partner, red, partialHave)
  BY <1>2 DEF LocalsTyped
<1>4. Levels \in Nat /\ StageLen \in Nat /\ StageLen = 6 + 2 * Levels /\ 0 \in Threads
  BY <1>2, LengthsOf, JobFacts
<1>5. \A r, x : RedFine(1, r, x)
  <2>1. ~(StageLen < 1) /\ ~(1 > 2 * StageLen)
    BY <1>4
  <2> QED BY <2>1 DEF RedFine
<1>6. \A u, r, v, h, w, x, m, mh : Fine(u, 1, r, v, h, w, x, m, mh)
  BY <1>2, <1>5, StageStarts, ScanStarts DEF Fine
<1>7. SharedFine(1, 0, stage)
  <2>1. ASSUME NEW s \in {1, 2} PROVE ~(LastShared(s, 1, 0) >= 0)
    <3>1. s - 1 = 0 \/ s - 1 = 1
      OBVIOUS
    <3>2. PICK n : n = (s - 1) * StageLen
      OBVIOUS
    <3>3. n \in Nat
      BY <1>4, <3>1, <3>2
    <3>4. ~(1 > n + 4 + 2 * Levels)
      BY <1>4, <3>3
    <3>5. LastShared(s, 1, 0) = 0 - 1
      BY <3>2, <3>4 DEF LastShared
    <3> QED BY <3>5
  <2> QED BY <2>1 DEF SharedFine
<1>8. OutFine(out)
  BY <1>2 DEF OutFine
<1>9. \A u \in Threads :
        Fine(u, pc[u], row[u], acc[u], have[u], partner[u], red[u], partial[u], partialHave[u])
  <2>1. \A u \in Threads : pc[u] = 1
    BY <1>2
  <2> QED BY <1>6, <2>1
<1>10. SharedFine(pc[0], row[0], stage)
  BY <1>2, <1>4, <1>7
<1> QED BY <1>1, <1>3, <1>8, <1>9, <1>10 DEF RightInv

LEMMA StepsStay ==
  ASSUME RightInv, NEW t \in Threads, LiftStep(t)
  PROVE  StaysRight(t)
<1>1. CASE Slice(t)
  BY <1>1, SliceRight
<1>2. CASE Chunk(t)
  BY <1>2, ChunkRight
<1>3. CASE Publish(t)
  BY <1>3, PublishRightStage, PublishRightScan
<1>4. CASE Round(t)
  BY <1>4, RoundRight
<1>5. CASE Partner(t)
  BY <1>5, PartnerRight
<1>6. CASE Combine(t)
  BY <1>6, CombineRight
<1>7. CASE Offset(t)
  BY <1>7, OffsetRight
<1>8. CASE Write(t)
  BY <1>8, WriteRight
<1>9. CASE Store(t)
  BY <1>9, StoreRight
<1>10. CASE Share(t)
  BY <1>10, ShareRight
<1>11. CASE Take(t)
  BY <1>11, TakeRight
<1>12. CASE Epilogue(t)
  BY <1>12, EpilogueRight
<1> QED BY <1>1, <1>2, <1>3, <1>4, <1>5, <1>6, <1>7, <1>8, <1>9, <1>10, <1>11, <1>12 DEF LiftStep

LEMMA NextRight ==
  ASSUME RightInv, [LiftNext]_liftVars
  PROVE  RightInv'
<1>1. LiftInv'
  BY NextKeeps DEF RightInv
<1>2. CASE \E t \in Threads : LiftStep(t)
  BY <1>1, <1>2, StepsStay, StepRight
<1>3. CASE Meet
  BY <1>1, <1>3, MeetRight
<1>4. CASE UNCHANGED liftVars
  BY <1>1, <1>4, UnmovedRight
<1> QED BY <1>2, <1>3, <1>4 DEF LiftNext

(* What the cooperative kernels store is what the serial kernels fold, but *)
(* for the order.                                                          *)
THEOREM LiftsAreSerial == LiftSpec => []OutputsRight
<1>1. RightInv => OutputsRight
  BY DEF RightInv, OutFine, OutputsRight
<1> QED BY <1>1, InitRight, NextRight, PTL DEF LiftSpec

-----------------------------------------------------------------------------
(* The order a sum is added in.                                            *)

(* The tree of the sums of row r, up to level n.                           *)
IsTree(g, r, n) ==
  g = [l \in 0 .. n |->
         [t \in 0 .. 2 ^ (Levels - l) - 1 |->
            IF l = 0 THEN SliceOf(t, r) ELSE g[l - 1][t] \o g[l - 1][t + 2 ^ (Levels - l)]]]

TreeOf(r) == CHOOSE g : IsTree(g, r, Levels)

LEMMA TreeFirst ==
  ASSUME NEW r
  PROVE  \E g : IsTree(g, r, 0)
<1> DEFINE g == [l \in 0 .. 0 |-> [t \in 0 .. 2 ^ (Levels - l) - 1 |-> SliceOf(t, r)]]
<1>1. g = [l \in 0 .. 0 |->
         [t \in 0 .. 2 ^ (Levels - l) - 1 |->
            IF l = 0 THEN SliceOf(t, r) ELSE g[l - 1][t] \o g[l - 1][t + 2 ^ (Levels - l)]]]
  <2>1. \A l \in 0 .. 0 : l = 0
    OBVIOUS
  <2> QED BY <2>1
<1> QED BY <1>1 DEF IsTree

LEMMA TreeNext ==
  ASSUME NEW r, NEW n \in Nat, NEW g, IsTree(g, r, n)
  PROVE  \E h : IsTree(h, r, n + 1)
<1> DEFINE row1(f, l) == [t \in 0 .. 2 ^ (Levels - l) - 1 |->
                           IF l = 0 THEN SliceOf(t, r) ELSE f[l - 1][t] \o f[l - 1][t + 2 ^ (Levels - l)]]
           h == [l \in 0 .. n + 1 |-> IF l = n + 1 THEN row1(g, l) ELSE g[l]]
<1>1. g = [l \in 0 .. n |-> row1(g, l)]
  BY DEF IsTree
<1>2. \A l \in 0 .. n : h[l] = g[l]
  OBVIOUS
<1>3. \A a, b, l : a[l - 1] = b[l - 1] => row1(a, l) = row1(b, l)
  OBVIOUS
<1>4. \A a, b : row1(a, 0) = row1(b, 0)
  OBVIOUS
<1>5. \A l \in 0 .. n + 1 : h[l] = IF l = n + 1 THEN row1(g, l) ELSE g[l]
  OBVIOUS
<1>6. h = [l \in 0 .. n + 1 |-> h[l]]
  OBVIOUS
<1> HIDE DEF h, row1
<1>7. ASSUME NEW l \in 0 .. n + 1 PROVE h[l] = row1(h, l)
  <2>1. CASE l = 0
    BY <1>1, <1>2, <1>4, <2>1
  <2>2. CASE l # 0
    <3>1. h[l - 1] = g[l - 1]
      <4>1. l - 1 \in 0 .. n
        BY <2>2
      <4> QED BY <1>2, <4>1
    <3>2. row1(h, l) = row1(g, l)
      BY <1>3, <3>1
    <3>3. h[l] = row1(g, l)
      <4>1. CASE l = n + 1
        BY <1>5, <4>1
      <4>2. CASE l # n + 1
        <5>1. l \in 0 .. n
          BY <4>2
        <5> QED BY <1>1, <1>2, <5>1
      <4> QED BY <4>1, <4>2
    <3> QED BY <3>2, <3>3
  <2> QED BY <2>1, <2>2
<1>8. h = [l \in 0 .. n + 1 |-> row1(h, l)]
  BY <1>6, <1>7
<1>9. IsTree(h, r, n + 1)
  BY <1>8 DEF IsTree, row1
<1> QED BY <1>9

(* It exists: no level is the first that cannot be built.                  *)
LEMMA TreeExists ==
  ASSUME job \in Jobs, NEW r
  PROVE  IsTree(TreeOf(r), r, Levels)
<1>1. Levels \in Nat
  BY LengthsOf
<1> DEFINE S == {n \in Nat : ~\E g : IsTree(g, r, n)}
<1>2. S = {}
  <2> SUFFICES ASSUME S # {} PROVE FALSE
    OBVIOUS
  <2>1. PICK n \in S : \A k \in S : n <= k
    <3>1. S \subseteq Nat
      OBVIOUS
    <3> HIDE DEF S
    <3> QED BY <3>1, LeastExists
  <2>2. n \in Nat /\ ~\E g : IsTree(g, r, n)
    OBVIOUS
  <2>3. n # 0
    BY <2>2, TreeFirst
  <2>4. PICK k : k = n - 1
    OBVIOUS
  <2>5. k \in Nat /\ k + 1 = n /\ ~(n <= k)
    BY <2>2, <2>3, <2>4
  <2>6. k \notin S
    BY <2>1, <2>5
  <2>7. \E g : IsTree(g, r, k)
    BY <2>5, <2>6
  <2> QED BY <2>2, <2>5, <2>7, TreeNext
<1>3. \E g : IsTree(g, r, Levels)
  BY <1>1, <1>2
<1> QED BY <1>3 DEF TreeOf

LEMMA TreeIs ==
  ASSUME job \in Jobs, NEW r
  PROVE  /\ \A t \in Threads : TreeOf(r)[0][t] = SliceOf(t, r)
         /\ \A l \in 1 .. Levels : \A t \in Nat :
              t < 2 ^ (Levels - l) =>
                TreeOf(r)[l][t] = TreeOf(r)[l - 1][t] \o TreeOf(r)[l - 1][t + 2 ^ (Levels - l)]
<1>1. PICK g : g = TreeOf(r)
  OBVIOUS
<1>2. Levels \in Nat /\ Levels <= 31
  BY LengthsOf
<1>3. \A l \in 0 .. Levels :
        g[l] = [t \in 0 .. 2 ^ (Levels - l) - 1 |->
            IF l = 0 THEN SliceOf(t, r) ELSE g[l - 1][t] \o g[l - 1][t + 2 ^ (Levels - l)]]
  <2>1. IsTree(g, r, Levels)
    BY <1>1, TreeExists
  <2> QED BY <2>1 DEF IsTree
<1>4. \A t \in Threads : g[0][t] = SliceOf(t, r)
  <2>1. 0 \in 0 .. Levels /\ Levels - 0 = Levels
    BY <1>2
  <2>2. g[0] = [t \in 0 .. 2 ^ (Levels - 0) - 1 |-> SliceOf(t, r)]
    BY <1>3, <2>1
  <2>3. 0 .. 2 ^ (Levels - 0) - 1 = Threads
    BY <2>1, JobFacts DEF Threads
  <2> QED BY <2>2, <2>3
<1>5. ASSUME NEW l \in 1 .. Levels, NEW t \in Nat, t < 2 ^ (Levels - l)
      PROVE  g[l][t] = g[l - 1][t] \o g[l - 1][t + 2 ^ (Levels - l)]
  <2>1. l \in 0 .. Levels /\ l # 0 /\ Levels - l \in 0 .. 31
    BY <1>2
  <2>2. 2 ^ (Levels - l) \in Nat
    BY <2>1, PowerStep
  <2>3. t \in 0 .. 2 ^ (Levels - l) - 1
    BY <1>5, <2>2
  <2>4. g[l] = [x \in 0 .. 2 ^ (Levels - l) - 1 |-> g[l - 1][x] \o g[l - 1][x + 2 ^ (Levels - l)]]
    BY <1>3, <2>1
  <2> QED BY <2>3, <2>4
<1> QED BY <1>1, <1>4, <1>5

LEMMA TreeOrderIs ==
  ASSUME NEW r
  PROVE  TreeOrder(r) = TreeOf(r)[Levels][0]
BY DEF TreeOrder, TreeOf, IsTree

Sums == job.lift = "reduce" /\ job.op = "Sum"

(* The sum thread u holds after l rounds is a node of the tree.            *)
Ordered(u, q, r, v) ==
  \A l \in 0 .. Levels : AtLevel(q, l) =>
    LET w == 2 ^ (Levels - l)
    IN  /\ u < w => v = TreeOf(r)[l][u]
        /\ (l > 0 /\ w <= u /\ u < 2 * w) => v = TreeOf(r)[l - 1][u]

OutOrdered(o) == \A r \in DOMAIN o : 0 \in DOMAIN o[r] /\ \A v \in o[r][0] : v = TreeOrder(r)

OrderInv ==
  /\ RightInv
  /\ Sums => /\ \A u \in Threads : Ordered(u, pc[u], row[u], acc[u])
             /\ OutOrdered(out)

LEMMA SameOrder ==
  ASSUME job' = job
  PROVE  /\ Sums' <=> Sums
         /\ \A u, q, r, v : Ordered(u, q, r, v)' <=> Ordered(u, q, r, v)
         /\ \A o : OutOrdered(o)' <=> OutOrdered(o)
<1>1. Levels' = Levels
  BY DEF Levels
<1>2. \A t, r : SliceOf(t, r)' = SliceOf(t, r)
  BY DEF SliceOf
<1>3. \A g, r, n : IsTree(g, r, n)' <=> IsTree(g, r, n)
  <2> TAKE g, r, n
  <2>1. IsTree(g, r, n)' <=>
          g = [l \in 0 .. n |->
                 [t \in 0 .. 2 ^ (Levels' - l) - 1 |->
                    IF l = 0 THEN SliceOf(t, r)' ELSE g[l - 1][t] \o g[l - 1][t + 2 ^ (Levels' - l)]]]
    BY DEF IsTree
  <2>2. ASSUME NEW l
        PROVE  [t \in 0 .. 2 ^ (Levels - l) - 1 |->
                  IF l = 0 THEN SliceOf(t, r)' ELSE g[l - 1][t] \o g[l - 1][t + 2 ^ (Levels - l)]]
             = [t \in 0 .. 2 ^ (Levels - l) - 1 |->
                  IF l = 0 THEN SliceOf(t, r) ELSE g[l - 1][t] \o g[l - 1][t + 2 ^ (Levels - l)]]
    BY <1>2
  <2> QED BY <1>1, <2>1, <2>2 DEF IsTree
<1>4. \A r : TreeOf(r)' = TreeOf(r)
  BY <1>1, <1>3 DEF TreeOf
<1>5. \A r : TreeOrder(r)' = TreeOrder(r)
  <2>1. \A r : TreeOrder(r) = TreeOf(r)[Levels][0]
    BY TreeOrderIs
  <2>2. \A r : TreeOrder(r)' = TreeOf(r)'[Levels'][0]
    BY DEF TreeOrder, TreeOf, IsTree
  <2> QED BY <1>1, <1>4, <2>1, <2>2
<1>6. Sums' <=> Sums
  BY DEF Sums
<1>7. \A u, q, r, v : Ordered(u, q, r, v)' <=> Ordered(u, q, r, v)
  BY <1>1, <1>4 DEF Ordered, AtLevel
<1>8. \A o : OutOrdered(o)' <=> OutOrdered(o)
  BY <1>5 DEF OutOrdered
<1> QED BY <1>6, <1>7, <1>8

LEMMA SumAt ==
  ASSUME RightInv, Sums, NEW t \in Threads
  PROVE  /\ job \in Jobs /\ ~HasFlag(1) /\ Len(Program) = 4 + 2 * Levels /\ Levels \in Nat
         /\ pc[t] \in 1 .. 4 + 2 * Levels /\ pc[t] \in 1 .. StageLen /\ InStage(pc[t], 1, pc[t])
         /\ StatementAt(Program[pc[t]], 1, pc[t])
         /\ t \in Nat /\ t < job.block
<1>1. job \in Jobs /\ job.lift = "reduce" /\ job.op = "Sum" /\ pc[t] \in 1 .. Len(Program)
  BY DEF RightInv, LiftInv, LiftTyped, Sums
<1>2. ~HasFlag(1)
  BY <1>1 DEF HasFlag, OpOf
<1>3. Len(Program) = 4 + 2 * Levels /\ pc[t] \in 1 .. 4 + 2 * Levels
  BY <1>1, ReduceText
<1>4. InStage(pc[t], 1, pc[t])
  BY <1>1, <1>3 DEF InStage
<1>5. Levels \in Nat /\ StageLen = 6 + 2 * Levels
  BY <1>1, LengthsOf
<1>6. pc[t] \in 1 .. StageLen
  BY <1>3, <1>5
<1> QED BY <1>1, <1>2, <1>3, <1>4, <1>5, <1>6, TextAt, ThreadNat

(* The statements a sum has, and where.                                    *)
LEMMA SumStep ==
  ASSUME RightInv, Sums, NEW t \in Threads, LiftStep(t)
  PROVE  \/ Slice(t) /\ pc[t] = 1 /\ Arg(t) = 1
         \/ Publish(t) /\ pc[t] = 2
         \/ Round(t) /\ \E k \in 1 .. Levels : pc[t] = 2 + 2 * k /\ Arg(t) = 2 ^ (Levels - k)
         \/ Store(t) /\ pc[t] = 4 + 2 * Levels
<1>1. job \in Jobs /\ StatementAt(Program[pc[t]], 1, pc[t]) /\ job.lift = "reduce"
  BY SumAt DEF Sums
<1>2. Program[pc[t]].do \in {"Slice", "Publish", "Barrier", "Round", "Store", "Share", "Take"}
  BY <1>1, StatementKind
<1>3. Program[pc[t]].do \notin {"Share", "Take"}
  BY <1>1, StatementIs
<1>4. ASSUME Slice(t) PROVE pc[t] = 1 /\ Arg(t) = 1
  <2>1. Program[pc[t]].do = "Slice"
    BY <1>4 DEF Slice, Doing
  <2> QED BY <1>1, <2>1, StatementIs DEF Arg
<1>5. ASSUME Publish(t) PROVE pc[t] = 2
  <2>1. Program[pc[t]].do = "Publish"
    BY <1>5 DEF Publish, Doing
  <2> QED BY <1>1, <2>1, StatementIs
<1>6. ASSUME Round(t) PROVE \E k \in 1 .. Levels : pc[t] = 2 + 2 * k /\ Arg(t) = 2 ^ (Levels - k)
  <2>1. Program[pc[t]].do = "Round"
    BY <1>6 DEF Round, Doing
  <2> QED BY <1>1, <2>1, StatementIs DEF Arg
<1>7. ASSUME Store(t) PROVE pc[t] = 4 + 2 * Levels
  <2>1. Program[pc[t]].do = "Store"
    BY <1>7 DEF Store, Doing
  <2> QED BY <1>1, <2>1, StatementIs
<1>8. ~Chunk(t) /\ ~Partner(t) /\ ~Combine(t) /\ ~Offset(t) /\ ~Write(t) /\ ~Epilogue(t)
  <2>1. Program[pc[t]].do \notin {"Chunk", "Partner", "Combine", "Offset", "Write", "Epilogue"}
    BY <1>2
  <2> QED BY <2>1 DEF Chunk, Partner, Combine, Offset, Write, Epilogue, Doing
<1>9. ~Share(t) /\ ~Take(t)
  BY <1>3 DEF Share, Take, Doing
<1> QED BY <1>4, <1>5, <1>6, <1>7, <1>8, <1>9 DEF LiftStep

(* What a step of a sum has to show.                                       *)
KeepsOrder(t) == Ordered(t, pc'[t], row'[t], acc'[t]) /\ OutOrdered(out')

LEMMA OrderStarts ==
  ASSUME job \in Jobs, NEW u, NEW r, NEW v
  PROVE  Ordered(u, 1, r, v)
<1>1. Levels \in Nat
  BY LengthsOf
<1>2. \A l \in 0 .. Levels : ~AtLevel(1, l)
  BY <1>1 DEF AtLevel
<1> QED BY <1>2 DEF Ordered

LEMMA KeptOrdered ==
  ASSUME job \in Jobs, NEW u, NEW q, NEW r, NEW v, Ordered(u, q, r, v),
         q = 2 \/ q = 3 \/ (\E k \in 1 .. Levels : q = 3 + 2 * k)
  PROVE  Ordered(u, q + 1, r, v)
<1>1. Levels \in Nat
  BY LengthsOf
<1>2. ASSUME NEW l \in 0 .. Levels, AtLevel(q + 1, l) PROVE AtLevel(q, l)
  BY <1>1, <1>2 DEF AtLevel
<1> QED BY <1>2 DEF Ordered

LEMMA SliceOrder ==
  ASSUME RightInv, Sums, OutOrdered(out), NEW t \in Threads, Slice(t), pc[t] = 1, Arg(t) = 1
  PROVE  KeepsOrder(t)
<1>1. /\ job \in Jobs /\ ~HasFlag(1) /\ Len(Program) = 4 + 2 * Levels /\ Levels \in Nat /\ t \in Nat
      /\ t < job.block
  BY SumAt
<1>2. Moves(t)
  BY DoingMoves DEF Slice
<1>3. pc'[t] = 2 /\ row'[t] = row[t]
  <2>1. pc[t] # Len(Program)
    BY <1>1
  <2>2. pc'[t] = pc[t] + 1 /\ row'[t] = row[t]
    BY <1>2, <2>1, Moved DEF RightInv
  <2> QED BY <2>2
<1>4. PICK e : e = SliceOf(t, row[t])
  OBVIOUS
<1>5. acc'[t] = e
  <2>1. acc' = [acc EXCEPT ![t] = FoldStep(1, FALSE, FoldIdentity(1), e)]
    BY <1>4 DEF Slice
  <2>2. DOMAIN acc = Threads
    BY DEF RightInv, LocalsTyped
  <2>3. Gathers(e, Leaves(row[t], Class(job.block, t)))
    BY <1>1, <1>4, SliceGathers
  <2>4. FoldStep(1, FALSE, FoldIdentity(1), e) = <<>> \o e
    BY <1>1 DEF FoldStep, FoldIdentity
  <2>5. <<>> \o e = e
    BY <2>3, EmptyConcat DEF Gathers
  <2> QED BY <2>1, <2>2, <2>4, <2>5
<1>6. Ordered(t, 2, row[t], e)
  <2>1. \A l \in 0 .. Levels : AtLevel(2, l) => l = 0
    BY <1>1 DEF AtLevel
  <2>2. e = TreeOf(row[t])[0][t]
    BY <1>1, <1>4, TreeIs
  <2> QED BY <2>1, <2>2 DEF Ordered
<1>7. OutOrdered(out')
  BY DEF Slice
<1> QED BY <1>3, <1>5, <1>6, <1>7 DEF KeepsOrder

LEMMA PublishOrder ==
  ASSUME RightInv, Sums, OutOrdered(out), NEW t \in Threads, Publish(t), pc[t] = 2,
         Ordered(t, pc[t], row[t], acc[t])
  PROVE  KeepsOrder(t)
<1>1. job \in Jobs /\ Len(Program) = 4 + 2 * Levels /\ Levels \in Nat
  BY SumAt
<1>2. Moves(t)
  BY DoingMoves DEF Publish
<1>3. pc'[t] = pc[t] + 1 /\ row'[t] = row[t]
  <2>1. pc[t] # Len(Program)
    BY <1>1
  <2> QED BY <1>2, <2>1, Moved DEF RightInv
<1>4. acc' = acc /\ out' = out
  BY DEF Publish
<1>5. Ordered(t, pc[t] + 1, row[t], acc[t])
  BY <1>1, KeptOrdered
<1> QED BY <1>3, <1>4, <1>5 DEF KeepsOrder

(* What a round finds: the right operand of its node of the tree.          *)
LEMMA RoundFinds ==
  ASSUME RightInv, Sums, NEW t \in Threads, Round(t), NEW k \in 1 .. Levels, pc[t] = 2 + 2 * k,
         NEW w, w = 2 ^ (Levels - k), w \in Nat, t < w, NEW u, u = t + w,
         NEW y, Ordered(u, pc[u], row[u], y), y = acc[u]
  PROVE  u \in Threads /\ partial[u] = {y} /\ y = TreeOf(row[t])[k - 1][u]
<1>1. /\ job \in Jobs /\ ~HasFlag(1) /\ Len(Program) = 4 + 2 * Levels /\ Levels \in Nat /\ t \in Nat
  BY SumAt
<1>2. Levels <= 31
  BY <1>1, LengthsOf
<1>3. Moves(t) /\ Program[pc[t]].do = "Round"
  BY DoingMoves DEF Round
<1>4. WellPlaced(Program, pc[t])
  BY StatementFacts DEF RightInv
<1>5. u \in Threads /\ u \in Nat /\ w <= u /\ u < 2 * w
  <2>1. PICK e : e = Levels - k
    OBVIOUS
  <2>2. e \in 0 .. 31 /\ e + 1 \in 0 .. 31 /\ e + 1 > 0 /\ e + 1 <= Levels /\ Levels \in 0 .. 31 /\ (e + 1) - 1 = e
    BY <1>1, <1>2, <2>1
  <2>3. 2 * 2 ^ ((e + 1) - 1) = 2 ^ (e + 1)
    BY <2>2, PowerStep
  <2>4. 2 ^ (e + 1) <= 2 ^ Levels
    BY <2>2, PowersGrow
  <2>5. 2 ^ Levels = job.block /\ job.block \in Nat
    BY <1>1, JobFacts
  <2>6. 2 * w <= job.block
    BY <2>1, <2>2, <2>3, <2>4, <2>5
  <2>7. u \in 0 .. job.block - 1 /\ u \in Nat /\ w <= u /\ u < 2 * w
    BY <1>1, <2>5, <2>6
  <2> QED BY <2>7 DEF Threads
<1>6. row[u] = row[t] /\ (pc[u] = pc[t] \/ pc[u] = pc[t] + 1)
  <2>1. pc[t] > 3 /\ pc[t] < Len(Program) /\ Program[pc[t] - 1] = Barrier /\ Program[pc[t] + 1] = Barrier
    BY <1>3, <1>4 DEF WellPlaced
  <2>2. pc[t] > 1
    BY <1>1
  <2> QED BY <1>5, <2>1, <2>2, OtherNear
<1>7. partial[u] = {y}
  <2>1. InStage(pc[u], 1, pc[u]) /\ pc[u] \in 1 .. StageLen
    BY <1>5, SumAt
  <2>2. Staged(1, pc[u], u, row[u], acc[u], have[u], partial[u], partialHave[u])
    BY <1>5, <2>1 DEF RightInv, Fine, StageFine
  <2>3. pc[u] >= 3
    BY <1>1, <1>6
  <2> QED BY <2>2, <2>3 DEF Staged
<1>8. y = TreeOf(row[t])[k - 1][u]
  <2>1. PICK q, r : q = pc[u] /\ r = row[t]
    OBVIOUS
  <2>2. Ordered(u, q, r, y) /\ (q = 2 + 2 * k \/ q = 3 + 2 * k)
    BY <1>1, <1>6, <2>1
  <2>3. CASE q = 2 + 2 * k
    <3>1. k - 1 \in 0 .. Levels /\ AtLevel(q, k - 1)
      BY <1>1, <2>3 DEF AtLevel
    <3>2. u < 2 ^ (Levels - (k - 1))
      <4>1. PICK e : e = Levels - (k - 1)
        OBVIOUS
      <4>2. e \in 0 .. 31 /\ e > 0 /\ e - 1 = Levels - k
        BY <1>1, <1>2, <4>1
      <4>3. 2 * 2 ^ (e - 1) = 2 ^ e
        BY <4>2, PowerStep
      <4> QED BY <1>5, <4>1, <4>2, <4>3
    <3> QED BY <2>1, <2>2, <3>1, <3>2 DEF Ordered
  <2>4. CASE q = 3 + 2 * k
    <3>1. k \in 0 .. Levels /\ k > 0 /\ AtLevel(q, k)
      BY <1>1, <2>4 DEF AtLevel
    <3> QED BY <1>5, <2>1, <2>2, <3>1 DEF Ordered
  <2> QED BY <2>2, <2>3, <2>4
<1> QED BY <1>5, <1>7, <1>8

(* What a sum holds after round k.                                         *)
LEMMA AfterSum ==
  ASSUME job \in Jobs, NEW k \in 1 .. Levels, NEW w, w = 2 ^ (Levels - k), NEW t \in Nat, NEW r, NEW v,
         t < w => v = TreeOf(r)[k][t],
         (w <= t /\ t < 2 * w) => v = TreeOf(r)[k - 1][t]
  PROVE  Ordered(t, 3 + 2 * k, r, v)
<1>1. Levels \in Nat
  BY LengthsOf
<1>2. \A l \in 0 .. Levels : AtLevel(3 + 2 * k, l) => l = k
  BY <1>1 DEF AtLevel
<1> QED BY <1>2 DEF Ordered

LEMMA RoundOrder ==
  ASSUME RightInv, Sums, OutOrdered(out), NEW t \in Threads, Round(t),
         NEW k \in 1 .. Levels, pc[t] = 2 + 2 * k, Arg(t) = 2 ^ (Levels - k),
         \A u \in Threads : Ordered(u, pc[u], row[u], acc[u])
  PROVE  KeepsOrder(t)
<1>1. /\ job \in Jobs /\ ~HasFlag(1) /\ Len(Program) = 4 + 2 * Levels /\ Levels \in Nat /\ t \in Nat
      /\ InStage(pc[t], 1, pc[t])
  BY SumAt
<1>2. Levels <= 31
  BY <1>1, LengthsOf
<1>3. Moves(t)
  BY DoingMoves DEF Round
<1>4. PICK w, r, v : w = 2 ^ (Levels - k) /\ r = row[t] /\ v = acc[t]
  OBVIOUS
<1>5. w \in Nat /\ w > 0 /\ 2 ^ (Levels - (k - 1)) = 2 * w
  <2>1. PICK e : e = Levels - (k - 1)
    OBVIOUS
  <2>2. e \in 0 .. 31 /\ e > 0 /\ e - 1 = Levels - k /\ Levels - k \in 0 .. 31
    BY <1>1, <1>2, <2>1
  <2> QED BY <1>4, <2>1, <2>2, PowerStep
<1>6. pc'[t] = 3 + 2 * k /\ row'[t] = r
  <2>1. pc[t] # Len(Program)
    BY <1>1
  <2>2. pc'[t] = pc[t] + 1 /\ row'[t] = row[t]
    BY <1>3, <2>1, Moved DEF RightInv
  <2>3. pc[t] + 1 = 3 + 2 * k
    OBVIOUS
  <2> QED BY <1>4, <2>2, <2>3
<1>7. t < 2 * w => v = TreeOf(r)[k - 1][t]
  <2>1. PICK q : q = pc[t]
    OBVIOUS
  <2>2. Ordered(t, q, r, v) /\ q = 2 + 2 * k
    BY <1>4, <2>1
  <2>3. k - 1 \in 0 .. Levels /\ AtLevel(q, k - 1)
    BY <1>1, <2>2 DEF AtLevel
  <2> QED BY <1>5, <2>2, <2>3 DEF Ordered
<1>8. StageOf(t) = 1
  BY <1>1, StageOfIs DEF Sums
<1>9. CASE t < w
  <2>1. PICK u : u = t + w
    OBVIOUS
  <2>2. PICK y : y = acc[u]
    OBVIOUS
  <2>3. u \in Threads
    <3>1. Program[pc[t]].do = "Round" /\ WellPlaced(Program, pc[t])
      BY StatementFacts DEF Round, Doing, RightInv
    <3>2. 2 * w <= job.block
      BY <1>4, <3>1 DEF WellPlaced, Arg
    <3>3. job.block \in Nat
      BY <1>1, JobFacts
    <3>4. u \in 0 .. job.block - 1
      BY <1>1, <1>5, <1>9, <2>1, <3>2, <3>3
    <3> QED BY <3>4 DEF Threads
  <2>4. Ordered(u, pc[u], row[u], y)
    BY <2>2, <2>3
  <2>5. partial[u] = {y} /\ y = TreeOf(r)[k - 1][u]
    BY <1>4, <1>5, <1>9, <2>1, <2>2, <2>4, RoundFinds
  <2>6. Loaded(partial[u], <<>>) = y
    BY <2>5, LoadedOne
  <2>7. acc'[t] = v \o y
    <3>1. acc' = [acc EXCEPT ![t] = IF Carries(1, u) THEN Combined(1, have[t], v, Loaded(partial[u], <<>>)) ELSE v]
      BY <1>4, <1>8, <1>9, <2>1 DEF Round
    <3>2. Carries(1, u) /\ Combined(1, have[t], v, y) = v \o y
      BY <1>1 DEF Carries, Combined
    <3>3. DOMAIN acc = Threads
      BY DEF RightInv, LocalsTyped
    <3> QED BY <2>6, <3>1, <3>2, <3>3
  <2>8. TreeOf(r)[k][t] = TreeOf(r)[k - 1][t] \o TreeOf(r)[k - 1][t + w]
    BY <1>1, <1>4, <1>9, TreeIs
  <2>9. v \o y = TreeOf(r)[k][t]
    <3>1. t < 2 * w
      BY <1>1, <1>5, <1>9
    <3> QED BY <1>7, <2>1, <2>5, <2>8, <3>1
  <2>10. Ordered(t, 3 + 2 * k, r, v \o y)
    <3>1. ~(w <= t)
      BY <1>1, <1>5, <1>9
    <3> QED BY <1>1, <1>4, <2>9, <3>1, AfterSum
  <2>11. out' = out
    BY DEF Round
  <2> QED BY <1>6, <2>7, <2>10, <2>11 DEF KeepsOrder
<1>10. CASE ~(t < w)
  <2>1. acc' = acc /\ out' = out
    BY <1>4, <1>10 DEF Round
  <2>2. Ordered(t, 3 + 2 * k, r, v)
    BY <1>1, <1>4, <1>7, <1>10, AfterSum
  <2> QED BY <1>4, <1>6, <2>1, <2>2 DEF KeepsOrder
<1> QED BY <1>9, <1>10

LEMMA StoreOrder ==
  ASSUME RightInv, Sums, OutOrdered(out), NEW t \in Threads, Store(t), pc[t] = 4 + 2 * Levels,
         Ordered(t, pc[t], row[t], acc[t])
  PROVE  KeepsOrder(t)
<1>1. job \in Jobs /\ Len(Program) = 4 + 2 * Levels /\ Levels \in Nat
  BY SumAt
<1>2. Moves(t)
  BY DoingMoves DEF Store
<1>3. pc'[t] = 1
  BY <1>1, <1>2, Moved DEF RightInv
<1>4. Ordered(t, pc'[t], row'[t], acc'[t])
  BY <1>1, <1>3, OrderStarts
<1>5. OutOrdered(out')
  <2>1. CASE t # 0
    BY <2>1 DEF Store
  <2>2. CASE t = 0
    <3>1. PICK a, z : a = acc[0] /\ z = row[0]
      OBVIOUS
    <3>2. out' = [out EXCEPT ![z][0] = @ \cup {a}]
      BY <2>2, <3>1 DEF Store
    <3>3. a = TreeOrder(z)
      <4>1. Levels \in 0 .. Levels /\ AtLevel(4 + 2 * Levels, Levels) /\ Levels - Levels = 0
        BY <1>1 DEF AtLevel
      <4>2. 0 < 2 ^ (Levels - Levels)
        <5>1. PICK e : e = Levels - Levels
          OBVIOUS
        <5>2. e \in 0 .. 31
          BY <4>1, <5>1
        <5>3. 2 ^ e > 0 /\ 2 ^ e \in Nat
          BY <5>2, PowerStep
        <5> QED BY <5>1, <5>3
      <4>3. a = TreeOf(z)[Levels][0]
        BY <2>2, <3>1, <4>1, <4>2 DEF Ordered
      <4> QED BY <4>3, TreeOrderIs
    <3>4. DOMAIN out' = DOMAIN out
      BY <3>2
    <3>5. ASSUME NEW r \in DOMAIN out' PROVE 0 \in DOMAIN out'[r] /\ \A v \in out'[r][0] : v = TreeOrder(r)
      <4>1. r \in DOMAIN out /\ 0 \in DOMAIN out[r] /\ \A v \in out[r][0] : v = TreeOrder(r)
        BY <3>4 DEF OutOrdered
      <4>2. CASE r # z
        <5>1. out'[r] = out[r]
          BY <3>2, <4>1, <4>2
        <5> QED BY <4>1, <5>1
      <4>3. CASE r = z
        <5>1. out'[r] = [out[r] EXCEPT ![0] = @ \cup {a}]
          BY <3>2, <4>1, <4>3
        <5>2. 0 \in DOMAIN out'[r] /\ out'[r][0] = out[r][0] \cup {a}
          BY <4>1, <5>1
        <5> QED BY <3>3, <4>1, <4>3, <5>2
      <4> QED BY <4>2, <4>3
    <3> QED BY <3>5 DEF OutOrdered
  <2> QED BY <2>1, <2>2
<1> QED BY <1>4, <1>5 DEF KeepsOrder

LEMMA KeepsSumOrder ==
  ASSUME RightInv, Sums, OutOrdered(out), NEW t \in Threads, LiftStep(t),
         \A u \in Threads : Ordered(u, pc[u], row[u], acc[u])
  PROVE  KeepsOrder(t)
<1>1. Ordered(t, pc[t], row[t], acc[t])
  OBVIOUS
<1>2. CASE Slice(t) /\ pc[t] = 1 /\ Arg(t) = 1
  BY <1>2, SliceOrder
<1>3. CASE Publish(t) /\ pc[t] = 2
  BY <1>1, <1>3, PublishOrder
<1>4. CASE Round(t) /\ \E k \in 1 .. Levels : pc[t] = 2 + 2 * k /\ Arg(t) = 2 ^ (Levels - k)
  BY <1>4, RoundOrder
<1>5. CASE Store(t) /\ pc[t] = 4 + 2 * Levels
  BY <1>1, <1>5, StoreOrder
<1> QED BY <1>2, <1>3, <1>4, <1>5, SumStep

(* The invariant after a step that leaves the kernel the same.             *)
LEMMA StillOrdered ==
  ASSUME RightInv', job' = job, Threads' = Threads,
         Sums => /\ \A u \in Threads : Ordered(u, pc'[u], row'[u], acc'[u])
                 /\ OutOrdered(out')
  PROVE  OrderInv'
<1>1. /\ Sums' <=> Sums
      /\ \A u, q, r, v : Ordered(u, q, r, v)' <=> Ordered(u, q, r, v)
      /\ \A o : OutOrdered(o)' <=> OutOrdered(o)
  BY SameOrder
<1> QED BY <1>1 DEF OrderInv

LEMMA OrderStep ==
  ASSUME OrderInv, RightInv', NEW t \in Threads, LiftStep(t)
  PROVE  OrderInv'
<1>1. RightInv /\ StaysRight(t)
  BY StepsStay DEF OrderInv
<1>2. job' = job /\ Own(t)
  BY <1>1 DEF StaysRight
<1>3. Threads' = Threads
  BY <1>2 DEF Threads
<1>4. ASSUME Sums
      PROVE  (\A u \in Threads : Ordered(u, pc'[u], row'[u], acc'[u])) /\ OutOrdered(out')
  <2>1. (\A u \in Threads : Ordered(u, pc[u], row[u], acc[u])) /\ OutOrdered(out)
    BY <1>4 DEF OrderInv
  <2>2. KeepsOrder(t)
    BY <1>1, <1>4, <2>1, KeepsSumOrder
  <2>3. ASSUME NEW u \in Threads PROVE Ordered(u, pc'[u], row'[u], acc'[u])
    <3>1. CASE u = t
      BY <2>2, <3>1 DEF KeepsOrder
    <3>2. CASE u # t
      <4>1. pc'[u] = pc[u] /\ row'[u] = row[u] /\ acc'[u] = acc[u]
        BY <1>2, <3>2 DEF Own
      <4> QED BY <2>1, <4>1
    <3> QED BY <3>1, <3>2
  <2> QED BY <2>2, <2>3 DEF KeepsOrder
<1> QED BY <1>2, <1>3, <1>4, StillOrdered

LEMMA OrderMeet ==
  ASSUME OrderInv, RightInv', Meet
  PROVE  OrderInv'
<1>1. job' = job /\ out' = out /\ acc' = acc /\ Threads' = Threads
  BY DEF Meet, Threads
<1>2. RightInv /\ job \in Jobs /\ pc \in [Threads -> 1 .. Len(Program)] /\ row \in [Threads -> Nat]
  BY DEF OrderInv, RightInv, LiftInv, LiftTyped
<1>3. ASSUME Sums
      PROVE  (\A u \in Threads : Ordered(u, pc'[u], row'[u], acc'[u])) /\ OutOrdered(out')
  <2>1. (\A u \in Threads : Ordered(u, pc[u], row[u], acc[u])) /\ OutOrdered(out)
    BY <1>3 DEF OrderInv
  <2>2. ASSUME NEW u \in Threads PROVE Ordered(u, pc'[u], row'[u], acc'[u])
    <3>1. /\ StatementAt(Program[pc[u]], 1, pc[u]) /\ Len(Program) = 4 + 2 * Levels
          /\ pc[u] \in 1 .. 4 + 2 * Levels /\ Levels \in Nat /\ job.lift = "reduce"
      BY <1>2, <1>3, SumAt DEF Sums
    <3>2. pc[u] = pc[0] /\ Program[pc[u]] = Barrier
      BY DEF Meet
    <3>3. PICK q : q = pc[u]
      OBVIOUS
    <3>4. q = 3 \/ (\E k \in 1 .. Levels : q = 3 + 2 * k)
      <4>1. Program[pc[u]] = Barrier =>
              \/ pc[u] = 3 \/ (\E k \in 1 .. Levels : pc[u] = 3 + 2 * k)
              \/ (pc[u] = 5 + 2 * Levels /\ job.lift = "rowreduce")
        BY <1>2, <3>1, StatementIs
      <4> QED BY <3>1, <3>2, <3>3, <4>1
    <3>5. pc[0] # Len(Program)
      BY <3>1, <3>2, <3>3, <3>4
    <3>6. pc'[u] = q + 1 /\ row'[u] = row[u]
      BY <3>2, <3>3, <3>5 DEF Meet
    <3>7. Ordered(u, q, row[u], acc[u])
      BY <2>1, <3>3
    <3>8. Ordered(u, q + 1, row[u], acc[u])
      BY <1>2, <3>4, <3>7, KeptOrdered
    <3> QED BY <1>1, <3>6, <3>8
  <2> QED BY <1>1, <2>1, <2>2
<1> QED BY <1>1, <1>3, StillOrdered

LEMMA InitOrder ==
  ASSUME LiftInit
  PROVE  OrderInv
<1>1. /\ job \in Jobs /\ pc = [t \in Threads |-> 1]
      /\ out = [r \in 0 .. Rows - 1 |-> [i \in 0 .. job.extent |-> {}]]
  BY DEF LiftInit
<1>2. \A u \in Threads : Ordered(u, pc[u], row[u], acc[u])
  <2>1. \A u \in Threads : pc[u] = 1
    BY <1>1
  <2>2. ASSUME NEW u \in Threads PROVE Ordered(u, pc[u], row[u], acc[u])
    BY <1>1, <2>1, OrderStarts
  <2> QED BY <2>2
<1>3. OutOrdered(out)
  <2>1. 0 \in 0 .. job.extent
    BY <1>1, JobFacts, JobsAssumption
  <2> QED BY <1>1, <2>1 DEF OutOrdered
<1> QED BY <1>2, <1>3, InitRight DEF OrderInv

LEMMA NextOrder ==
  ASSUME OrderInv, [LiftNext]_liftVars
  PROVE  OrderInv'
<1>1. RightInv'
  BY NextRight DEF OrderInv
<1>2. CASE \E t \in Threads : LiftStep(t)
  BY <1>1, <1>2, OrderStep
<1>3. CASE Meet
  BY <1>1, <1>3, OrderMeet
<1>4. CASE UNCHANGED liftVars
  <2>1. /\ job' = job /\ pc' = pc /\ row' = row /\ acc' = acc /\ out' = out /\ Threads' = Threads
    BY <1>4 DEF liftVars, Threads
  <2>2. Sums => /\ \A u \in Threads : Ordered(u, pc'[u], row'[u], acc'[u])
                /\ OutOrdered(out')
    BY <2>1 DEF OrderInv
  <2> QED BY <1>1, <2>1, <2>2, StillOrdered
<1> QED BY <1>2, <1>3, <1>4 DEF LiftNext

(* One thread folds the row in ascending order.                            *)
LEMMA OneThread ==
  ASSUME job \in Jobs, job.block = 1, NEW r
  PROVE  TreeOrder(r) = Elements(r, job.extent)
<1>1. 0 \in Threads
  BY DEF Threads
<1>2. Levels = 0
  <2>1. Levels \in 0 .. 31 /\ 2 ^ Levels = 1
    BY JobFacts
  <2>2. ASSUME Levels > 0 PROVE FALSE
    <3>1. PICK k : k = Levels
      OBVIOUS
    <3>2. k \in 0 .. 31 /\ k > 0 /\ k - 1 \in 0 .. 31
      BY <2>1, <2>2, <3>1
    <3>3. 2 ^ k = 1 /\ 2 ^ (k - 1) \in Nat /\ 2 * 2 ^ (k - 1) = 2 ^ k
      BY <2>1, <3>1, <3>2, PowerStep
    <3> QED BY <3>3
  <2> QED BY <2>1, <2>2
<1>3. TreeOrder(r) = SliceOf(0, r)
  BY <1>1, <1>2, TreeOrderIs, TreeIs
<1>4. PICK n \in Nat : n = job.extent
  BY JobFacts, JobsAssumption
<1>5. (job.extent - 0 + job.block - 1) \div job.block = n
  BY <1>4
<1>6. SliceOf(0, r) = [i \in 1 .. n |-> Leaf(r, 0 + (i - 1) * job.block)]
  BY <1>5 DEF SliceOf
<1>7. \A i \in 1 .. n : 0 + (i - 1) * job.block = i - 1
  OBVIOUS
<1>8. SliceOf(0, r) = [i \in 1 .. n |-> Leaf(r, i - 1)]
  BY <1>6, <1>7
<1> QED BY <1>3, <1>4, <1>8 DEF Elements

LEMMA OrderedOutputs ==
  ASSUME OrderInv
  PROVE  DocumentedOrder
<1>1. job \in Jobs
  BY DEF OrderInv, RightInv, LiftInv, LiftTyped
<1>2. ASSUME Sums, NEW r \in DOMAIN out, NEW v \in out[r][0]
      PROVE  v = TreeOrder(r) /\ (job.block = 1 => v = Elements(r, job.extent))
  <2>1. v = TreeOrder(r)
    BY <1>2 DEF OrderInv, OutOrdered
  <2> QED BY <1>1, <2>1, OneThread
<1> QED BY <1>2 DEF DocumentedOrder, Sums

(* A float sum adds in the order the docs fix: its result depends on the   *)
(* block size and on nothing else.                                         *)
THEOREM ReductionsAreReproducible == LiftSpec => []DocumentedOrder
BY InitOrder, NextOrder, OrderedOutputs, PTL DEF LiftSpec
=============================================================================
