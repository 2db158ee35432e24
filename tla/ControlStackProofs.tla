------------------------- MODULE ControlStackProofs -------------------------
(***************************************************************************)
(* Jumps and calls of the resumable evaluator, for every module and every  *)
(* thread: what a frame belongs to is never lost.                          *)
(***************************************************************************)
EXTENDS ControlStack, SequenceTheorems, WellFoundedInduction, TLAPS

-----------------------------------------------------------------------------
(* Stacks as sequences.                                                    *)

(* A set of numbers that is not empty has a least one.                     *)
LEMMA LeastExists ==
  ASSUME NEW S, S \subseteq Nat, S # {}
  PROVE  \E n \in S : \A m \in S : n <= m
<1>1. PICK x \in S : \A y \in S : <<y, x>> \notin OpToRel(<, Nat)
  BY NatLessThanWellFounded, WFMin, Zenon
<1>2. \A y \in S : x <= y
  <2> TAKE y \in S
  <2>1. x \in Nat /\ y \in Nat
    OBVIOUS
  <2>2. ~(y < x)
    BY <1>1, <2>1 DEF OpToRel
  <2> QED BY <2>1, <2>2
<1> QED BY <1>2

(* The frames from a position on.                                          *)
LEMMA Cut ==
  ASSUME NEW S, NEW s \in Seq(S), NEW first \in 1 .. Len(s) + 1
  PROVE  LET cut == SubSeq(s, first, Len(s)) IN
         /\ cut \in Seq(S)
         /\ Len(cut) = Len(s) - first + 1
         /\ \A n \in 1 .. Len(cut) : cut[n] = s[n + first - 1]
<1>1. first \in Int /\ Len(s) \in Nat /\ 1 <= first /\ first <= Len(s) + 1
  OBVIOUS
<1> QED BY <1>1

IsStack(s) == \E S : s \in Seq(S)

LEMMA Pushed ==
  ASSUME NEW s, IsStack(s), NEW frame
  PROVE  /\ IsStack(Push(frame, s))
         /\ Len(Push(frame, s)) = Len(s) + 1 /\ Len(s) \in Nat
         /\ Push(frame, s)[1] = frame
         /\ \A n \in 1 .. Len(s) : Push(frame, s)[n + 1] = s[n]
<1>1. PICK S : s \in Seq(S)
  BY DEF IsStack
<1>2. s \in Seq(S \cup {frame}) /\ <<frame>> \in Seq(S \cup {frame})
  BY <1>1, SeqMonotonic
<1>3. Push(frame, s) \in Seq(S \cup {frame})
  BY <1>2, ConcatProperties DEF Push
<1>4. IsStack(Push(frame, s))
  BY <1>3 DEF IsStack
<1> QED BY <1>2, <1>4, ConcatProperties DEF Push

LEMMA TailIsCut ==
  ASSUME NEW S, NEW s \in Seq(S), s # <<>>
  PROVE  Tail(s) \in Seq(S) /\ Len(Tail(s)) = Len(s) - 1 /\ \A n \in 1 .. Len(s) - 1 : Tail(s)[n] = s[n + 1]
  BY HeadTailProperties

(* UnwindTo stops at the first frame of one of the kinds.                  *)
LEMMA Unwound ==
  ASSUME NEW S, NEW s \in Seq(S), NEW kinds
  PROVE  \E first \in 1 .. Len(s) + 1 :
           /\ UnwindTo(kinds, s) = SubSeq(s, first, Len(s))
           /\ first = Len(s) + 1 \/ s[first].is \in kinds
           /\ \A m \in 1 .. first - 1 : s[m].is \notin kinds
<1> DEFINE Stops(n) == n = Len(s) + 1 \/ s[n].is \in kinds
           Firsts == {n \in 1 .. Len(s) + 1 : Stops(n)}
           IsFirst(n) == Stops(n) /\ \A m \in 1 .. n - 1 : ~Stops(m)
<1>1. Len(s) \in Nat
  OBVIOUS
<1>2. PICK x \in Firsts : \A y \in Firsts : x <= y
  <2>1. Len(s) + 1 \in Firsts /\ Firsts \subseteq Nat
    BY <1>1
  <2> HIDE DEF Firsts
  <2> QED BY <2>1, LeastExists
<1>3. x \in 1 .. Len(s) + 1 /\ IsFirst(x)
  <2> SUFFICES ASSUME NEW m \in 1 .. x - 1, Stops(m) PROVE FALSE
    BY <1>2
  <2>1. m \in Firsts /\ m < x
    BY <1>1, <1>2
  <2> QED BY <1>2, <2>1
<1> DEFINE first == CHOOSE n \in 1 .. Len(s) + 1 : IsFirst(n)
<1>4. first \in 1 .. Len(s) + 1 /\ IsFirst(first)
  <2> HIDE DEF IsFirst
  <2> QED BY <1>3
<1>5. UnwindTo(kinds, s) = SubSeq(s, first, Len(s))
  BY DEF UnwindTo
<1>6. \A m \in 1 .. first - 1 : s[m].is \notin kinds
  BY <1>4
<1> HIDE DEF first
<1> QED BY <1>4, <1>5, <1>6

-----------------------------------------------------------------------------
(* The frames of callers.                                                  *)

CallAt(s, n) == n \in 1 .. Len(s) /\ s[n].is = "Call"

LEMMA CallersMember ==
  ASSUME NEW s, NEW x
  PROVE  x \in CallersOf(s) <=> \E n : CallAt(s, n) /\ x = <<Len(s) - n, s[n]>>
BY DEF CallersOf, CallAt

(* Stacks that differ in their first frames only, none of them a caller's, *)
(* have the same callers.                                                  *)
LEMMA SameCallers ==
  ASSUME NEW s, NEW t, Len(s) \in Nat, Len(t) \in Nat, NEW d \in Nat, NEW e \in Nat,
         Len(s) - d = Len(t) - e,
         \A n \in 1 .. Len(s) - d : s[n + d] = t[n + e],
         \A n \in 1 .. d : ~CallAt(s, n),
         \A n \in 1 .. e : ~CallAt(t, n)
  PROVE  CallersOf(s) = CallersOf(t)
<1>1. ASSUME NEW x PROVE x \in CallersOf(s) => x \in CallersOf(t)
  <2> HAVE x \in CallersOf(s)
  <2>1. PICK n : CallAt(s, n) /\ x = <<Len(s) - n, s[n]>>
    BY CallersMember
  <2>2. n \in Int /\ n > d /\ n <= Len(s)
    BY <2>1 DEF CallAt
  <2>3. n - d \in 1 .. Len(s) - d /\ (n - d) + d = n
    BY <2>2
  <2>4. t[(n - d) + e] = s[n]
    BY <2>3
  <2>5. (n - d) + e \in 1 .. Len(t) /\ Len(t) - ((n - d) + e) = Len(s) - n
    BY <2>2
  <2>6. CallAt(t, (n - d) + e)
    BY <2>1, <2>4, <2>5 DEF CallAt
  <2> QED BY <2>1, <2>4, <2>5, <2>6, CallersMember
<1>2. ASSUME NEW x PROVE x \in CallersOf(t) => x \in CallersOf(s)
  <2> HAVE x \in CallersOf(t)
  <2>1. PICK n : CallAt(t, n) /\ x = <<Len(t) - n, t[n]>>
    BY CallersMember
  <2>2. n \in Int /\ n > e /\ n <= Len(t)
    BY <2>1 DEF CallAt
  <2>3. n - e \in 1 .. Len(s) - d /\ (n - e) + e = n
    BY <2>2
  <2>4. s[(n - e) + d] = t[n]
    BY <2>3
  <2>5. (n - e) + d \in 1 .. Len(s) /\ Len(s) - ((n - e) + d) = Len(t) - n
    BY <2>2
  <2>6. CallAt(s, (n - e) + d)
    BY <2>1, <2>4, <2>5 DEF CallAt
  <2> QED BY <2>1, <2>4, <2>5, <2>6, CallersMember
<1> QED BY <1>1, <1>2

(* A caller's frame on top is the one more.                                *)
LEMMA TopCaller ==
  ASSUME NEW s, NEW t, Len(s) \in Nat, Len(t) = Len(s) + 1,
         \A n \in 1 .. Len(s) : t[n + 1] = s[n],
         t[1].is = "Call"
  PROVE  /\ CallersOf(t) = CallersOf(s) \cup {<<Len(s), t[1]>>}
         /\ CallersOf(s) = CallersOf(t) \ {<<Len(s), t[1]>>}
<1>1. ASSUME NEW x \in CallersOf(s)
      PROVE  x \in CallersOf(t) /\ x # <<Len(s), t[1]>>
  <2>1. PICK n : CallAt(s, n) /\ x = <<Len(s) - n, s[n]>>
    BY CallersMember
  <2>2. n + 1 \in 1 .. Len(t) /\ t[n + 1] = s[n] /\ Len(t) - (n + 1) = Len(s) - n /\ Len(s) - n # Len(s)
    BY <2>1 DEF CallAt
  <2>3. CallAt(t, n + 1)
    BY <2>1, <2>2 DEF CallAt
  <2> QED BY <2>1, <2>2, <2>3, CallersMember
<1>2. ASSUME NEW x \in CallersOf(t), x # <<Len(s), t[1]>> PROVE x \in CallersOf(s)
  <2>1. PICK n : CallAt(t, n) /\ x = <<Len(t) - n, t[n]>>
    BY CallersMember
  <2>2. n \in 1 .. Len(t)
    BY <2>1 DEF CallAt
  <2>3. n # 1
    BY <1>2, <2>1, <2>2
  <2>4. n - 1 \in 1 .. Len(s) /\ t[n] = s[n - 1] /\ Len(s) - (n - 1) = Len(t) - n
    <3>1. n - 1 \in 1 .. Len(s) /\ (n - 1) + 1 = n /\ Len(s) - (n - 1) = Len(t) - n
      BY <2>2, <2>3
    <3> QED BY <3>1
  <2>5. CallAt(s, n - 1)
    BY <2>1, <2>4 DEF CallAt
  <2> QED BY <2>1, <2>4, <2>5, CallersMember
<1>3. <<Len(s), t[1]>> \in CallersOf(t)
  <2>1. CallAt(t, 1) /\ Len(t) - 1 = Len(s)
    BY DEF CallAt
  <2> QED BY <2>1, CallersMember
<1> QED BY <1>1, <1>2, <1>3

(* Jumping over frames that are no caller's loses none.                    *)
LEMMA CallersOfCut ==
  ASSUME NEW S, NEW s \in Seq(S), NEW first \in 1 .. Len(s) + 1,
         \A n \in 1 .. first - 1 : s[n].is # "Call"
  PROVE  CallersOf(SubSeq(s, first, Len(s))) = CallersOf(s)
<1> DEFINE cut == SubSeq(s, first, Len(s))
<1>1. /\ Len(cut) = Len(s) - first + 1 /\ Len(s) \in Nat /\ first - 1 \in Nat
      /\ \A n \in 1 .. Len(cut) : cut[n] = s[n + first - 1]
  BY Cut
<1> HIDE DEF cut
<1> PICK d : d = first - 1
  OBVIOUS
<1>2. \A n \in 1 .. Len(s) - d : s[n + d] = cut[n + 0]
  <2> SUFFICES ASSUME NEW n \in 1 .. Len(s) - d PROVE s[n + d] = cut[n + 0]
    OBVIOUS
  <2>1. n \in 1 .. Len(cut) /\ n + d = n + first - 1 /\ n + 0 = n
    BY <1>1
  <2> QED BY <1>1, <2>1
<1>3. /\ \A n \in 1 .. d : ~CallAt(s, n)
      /\ \A n \in 1 .. 0 : ~CallAt(cut, n)
      /\ Len(s) - d = Len(cut) - 0 /\ Len(cut) \in Nat /\ Len(s) \in Nat /\ d \in Nat /\ 0 \in Nat
  BY <1>1 DEF CallAt
<1>4. CallersOf(s) = CallersOf(cut)
  BY <1>2, <1>3, SameCallers, Zenon
<1> QED BY <1>4 DEF cut

(* A frame on top that is no caller's adds none.                           *)
LEMMA CallersOfPush ==
  ASSUME NEW S, NEW s \in Seq(S), NEW frame, frame.is # "Call"
  PROVE  CallersOf(Push(frame, s)) = CallersOf(s)
<1> DEFINE t == Push(frame, s)
<1>1. /\ Len(t) = Len(s) + 1 /\ t[1] = frame
      /\ \A n \in 1 .. Len(s) : t[n + 1] = s[n]
  BY DEF Push
<1>0. Len(s) \in Nat
  OBVIOUS
<1> HIDE DEF t
<1>2. /\ \A n \in 1 .. 0 : ~CallAt(s, n)
      /\ \A n \in 1 .. 1 : ~CallAt(t, n)
      /\ \A n \in 1 .. Len(s) - 0 : s[n + 0] = t[n + 1]
      /\ Len(s) - 0 = Len(t) - 1 /\ Len(t) \in Nat
  BY <1>0, <1>1 DEF CallAt
<1>3. CallersOf(s) = CallersOf(t)
  BY <1>0, <1>1, <1>2, SameCallers
<1> QED BY <1>3 DEF t

-----------------------------------------------------------------------------
(* Where the frames of a stack belong.                                     *)

(* Above a caller's frame, a loop's frame lies below this one.             *)
HasLoop(s, n) ==
  \E m \in n + 1 .. Len(s) : s[m].is \in Loops /\ \A k \in n + 1 .. m - 1 : s[k].is # "Call"

(* A block is one of the module's, and one of those inside of a loop lies  *)
(* on the frame of a loop.                                                 *)
FrameNests(s, n, outside, inside) ==
  /\ s[n].is = "Seq" =>
       /\ s[n] \in [is : {"Seq"}, stmts : outside \cup inside, pc : Nat \ {0}]
       /\ s[n].stmts \in outside \/ HasLoop(s, n)
  /\ s[n].is \in Loops => s[n].body \in inside
  /\ s[n].is = "For" => {"is", "i", "started", "body"} \subseteq DOMAIN s[n]

Nests(s, outside, inside) == \A n \in 1 .. Len(s) : FrameNests(s, n, outside, inside)

(* What a frame is depends on the frames below it only.                    *)
LEMMA NestsAsBelow ==
  ASSUME NEW s, NEW t, Len(s) \in Nat, Len(t) \in Nat, NEW d \in Nat, NEW e \in Nat,
         Len(s) - d = Len(t) - e,
         \A n \in 1 .. Len(s) - d : s[n + d] = t[n + e],
         NEW outside, NEW inside, NEW n \in 1 .. Len(s) - d,
         FrameNests(s, n + d, outside, inside)
  PROVE  FrameNests(t, n + e, outside, inside)
<1>1. s[n + d] = t[n + e]
  OBVIOUS
<1>2. HasLoop(s, n + d) => HasLoop(t, n + e)
  <2> HAVE HasLoop(s, n + d)
  <2>1. PICK m \in n + d + 1 .. Len(s) :
          s[m].is \in Loops /\ \A k \in n + d + 1 .. m - 1 : s[k].is # "Call"
    BY DEF HasLoop
  <2>2. m \in Int /\ n \in Int
    OBVIOUS
  <2>3. m - d \in 1 .. Len(s) - d /\ (m - d) + d = m
    BY <2>2
  <2>4. s[m] = t[(m - d) + e]
    BY <2>3
  <2>5. (m - d) + e \in n + e + 1 .. Len(t)
    BY <2>2
  <2>6. ASSUME NEW k \in n + e + 1 .. ((m - d) + e) - 1 PROVE t[k].is # "Call"
    <3>1. k - e \in 1 .. Len(s) - d /\ (k - e) + e = k /\ (k - e) + d \in n + d + 1 .. m - 1
      BY <2>2
    <3>2. s[(k - e) + d] = t[k]
      BY <3>1
    <3> QED BY <2>1, <3>1, <3>2
  <2> QED BY <2>1, <2>4, <2>5, <2>6 DEF HasLoop
<1> QED BY <1>1, <1>2 DEF FrameNests

(* Frames may be changed or added on top, if they nest themselves.         *)
LEMMA TopNests ==
  ASSUME NEW s, NEW t, Len(s) \in Nat, Len(t) \in Nat, NEW d \in Nat, NEW e \in Nat,
         Len(s) - d = Len(t) - e,
         \A n \in 1 .. Len(s) - d : s[n + d] = t[n + e],
         NEW outside, NEW inside,
         Nests(s, outside, inside),
         \A n \in 1 .. e : FrameNests(t, n, outside, inside)
  PROVE  Nests(t, outside, inside)
<1> SUFFICES ASSUME NEW n \in 1 .. Len(t), n > e PROVE FrameNests(t, n, outside, inside)
  BY DEF Nests
<1>1. n - e \in 1 .. Len(s) - d /\ (n - e) + d \in 1 .. Len(s) /\ (n - e) + e = n
  OBVIOUS
<1>2. FrameNests(s, (n - e) + d, outside, inside)
  BY <1>1 DEF Nests
<1> PICK k : k = n - e
  OBVIOUS
<1>3. FrameNests(t, k + e, outside, inside)
  BY <1>1, <1>2, NestsAsBelow
<1> QED BY <1>1, <1>3

(* Taking frames away leaves the others where they belong.                 *)
LEMMA CutNests ==
  ASSUME NEW S, NEW s \in Seq(S), NEW first \in 1 .. Len(s) + 1, NEW outside, NEW inside,
         Nests(s, outside, inside)
  PROVE  Nests(SubSeq(s, first, Len(s)), outside, inside)
<1> DEFINE cut == SubSeq(s, first, Len(s))
<1>1. /\ Len(cut) = Len(s) - first + 1 /\ Len(s) \in Nat /\ first - 1 \in Nat
      /\ \A n \in 1 .. Len(cut) : cut[n] = s[n + first - 1]
  BY Cut
<1> HIDE DEF cut
<1> PICK d : d = first - 1
  OBVIOUS
<1>2. \A n \in 1 .. Len(s) - d : s[n + d] = cut[n + 0]
  <2> SUFFICES ASSUME NEW n \in 1 .. Len(s) - d PROVE s[n + d] = cut[n + 0]
    OBVIOUS
  <2>1. n \in 1 .. Len(cut) /\ n + d = n + first - 1 /\ n + 0 = n
    BY <1>1
  <2> QED BY <1>1, <2>1
<1>3. /\ Len(s) - d = Len(cut) - 0 /\ Len(cut) \in Nat /\ d \in Nat
      /\ \A n \in 1 .. 0 : FrameNests(cut, n, outside, inside)
  BY <1>1
<1>4. Nests(cut, outside, inside)
  BY <1>1, <1>2, <1>3, TopNests
<1> QED BY <1>4 DEF cut

LEMMA PushNests ==
  ASSUME NEW S, NEW s \in Seq(S), NEW frame, NEW outside, NEW inside,
         Nests(s, outside, inside),
         FrameNests(Push(frame, s), 1, outside, inside)
  PROVE  Nests(Push(frame, s), outside, inside)
<1> DEFINE t == Push(frame, s)
<1>1. /\ Len(t) = Len(s) + 1
      /\ \A n \in 1 .. Len(s) : t[n + 1] = s[n]
  BY DEF Push
<1>2. Len(s) \in Nat /\ FrameNests(t, 1, outside, inside)
  OBVIOUS
<1> HIDE DEF t
<1>3. \A n \in 1 .. Len(s) - 0 : s[n + 0] = t[n + 1]
  BY <1>1, <1>2
<1>4. /\ Len(s) - 0 = Len(t) - 1 /\ Len(t) \in Nat
      /\ \A n \in 1 .. 1 : FrameNests(t, n, outside, inside)
  BY <1>1, <1>2
<1>5. Nests(t, outside, inside)
  BY <1>2, <1>3, <1>4, TopNests
<1> QED BY <1>5 DEF t

(* A block inside of a loop may be put on the loop's frame ...             *)
LEMMA BodyOnLoop ==
  ASSUME NEW S, NEW s \in Seq(S), s # <<>>, s[1].is \in Loops, NEW outside, NEW inside,
         NEW b \in inside
  PROVE  FrameNests(Push(SeqFrame(b), s), 1, outside, inside)
<1> DEFINE t == Push(SeqFrame(b), s)
<1>1. /\ Len(t) = Len(s) + 1 /\ Len(s) \in Nat /\ Len(s) >= 1
      /\ t[1] = SeqFrame(b) /\ \A n \in 1 .. Len(s) : t[n + 1] = s[n]
  BY DEF Push
<1> HIDE DEF t
<1>2. t[2].is \in Loops
  <2>1. 1 \in 1 .. Len(s) /\ 1 + 1 = 2
    BY <1>1
  <2> QED BY <1>1, <2>1
<1>3. HasLoop(t, 1)
  <2>1. 2 \in 1 + 1 .. Len(t) /\ \A k \in 1 + 1 .. 2 - 1 : FALSE
    BY <1>1
  <2> QED BY <1>2, <2>1 DEF HasLoop
<1>4. /\ t[1] \in [is : {"Seq"}, stmts : outside \cup inside, pc : Nat \ {0}]
      /\ t[1].is = "Seq"
  BY <1>1 DEF SeqFrame
<1>5. FrameNests(t, 1, outside, inside)
  BY <1>3, <1>4 DEF FrameNests, Loops
<1> QED BY <1>5 DEF t

(* ... and a branch on the block it is in.                                 *)
LEMMA BranchOnBlock ==
  ASSUME NEW S, NEW s \in Seq(S), s # <<>>, NEW outside, NEW inside,
         s[1].is = "Seq", FrameNests(s, 1, outside, inside), NEW b,
         s[1].stmts \in outside => b \in outside,
         s[1].stmts \in inside => b \in inside
  PROVE  FrameNests(Push(SeqFrame(b), s), 1, outside, inside)
<1> DEFINE t == Push(SeqFrame(b), s)
<1>1. /\ Len(t) = Len(s) + 1 /\ Len(s) \in Nat /\ Len(s) >= 1
      /\ t[1] = SeqFrame(b) /\ \A n \in 1 .. Len(s) : t[n + 1] = s[n]
  BY DEF Push
<1> HIDE DEF t
<1>2. HasLoop(s, 1) => HasLoop(t, 1)
  <2> HAVE HasLoop(s, 1)
  <2>1. PICK m \in 2 .. Len(s) : s[m].is \in Loops /\ \A k \in 2 .. m - 1 : s[k].is # "Call"
    BY DEF HasLoop
  <2>2. t[m + 1] = s[m] /\ m + 1 \in 1 + 1 .. Len(t)
    BY <1>1
  <2>3. ASSUME NEW k \in 1 + 1 .. (m + 1) - 1 PROVE t[k].is # "Call"
    <3>1. k - 1 \in 1 .. Len(s) /\ (k - 1) + 1 = k
      BY <1>1
    <3>2. t[k] = s[k - 1]
      BY <1>1, <3>1
    <3>3. CASE k = 2
      BY <3>2, <3>3
    <3>4. CASE k # 2
      <4>1. k - 1 \in 2 .. m - 1
        BY <3>4
      <4> QED BY <2>1, <3>2, <4>1
    <3> QED BY <3>3, <3>4
  <2> QED BY <2>1, <2>2, <2>3 DEF HasLoop
<1>3. s[1].stmts \in outside \cup inside /\ (s[1].stmts \in outside \/ HasLoop(s, 1))
  BY DEF FrameNests
<1>4. /\ t[1] \in [is : {"Seq"}, stmts : outside \cup inside, pc : Nat \ {0}]
      /\ t[1].is = "Seq" /\ (t[1].stmts \in outside \/ HasLoop(t, 1))
  BY <1>1, <1>2, <1>3 DEF SeqFrame
<1>5. FrameNests(t, 1, outside, inside)
  BY <1>4 DEF FrameNests, Loops
<1> QED BY <1>5 DEF t

-----------------------------------------------------------------------------
(* The invariant: every frame of the stack is where the module's blocks    *)
(* and the loops around them say.                                          *)
Placed(outside, inside) ==
  /\ JumpsStayInside(program, outside, inside)
  /\ IsStack(stack)
  /\ Nests(stack, outside, inside)

StackInv == \E outside, inside : Placed(outside, inside)

(* What every step does: the stack stays one, and keeps the callers.       *)
Keeps(outside, inside) ==
  /\ IsStack(stack')
  /\ Nests(stack', outside, inside)
  /\ CallersOf(stack') = CallersOf(stack)

(* The stack just past a statement is in place, whatever it does next.     *)
LEMMA AdvancedIsPlaced ==
  ASSUME NEW outside, NEW inside, Placed(outside, inside), AtStatement
  PROVE  /\ IsStack(Advanced) /\ Advanced # <<>> /\ Len(Advanced) = Len(stack)
         /\ Advanced[1].is = "Seq" /\ Advanced[1].stmts = Top.stmts
         /\ Nests(Advanced, outside, inside)
         /\ CallersOf(Advanced) = CallersOf(stack)
         /\ Top.stmts \in outside \/ (Top.stmts \in inside /\ HasLoop(Advanced, 1))
         /\ Top.stmts \in outside => Statement \in StatementsIn(outside)
         /\ Top.stmts \in inside => Statement \in StatementsIn(inside)
<1>1. PICK S : stack \in Seq(S)
  BY DEF Placed, IsStack
<1>2. stack # <<>> /\ Top = stack[1] /\ Len(stack) \in Nat /\ Len(stack) >= 1
  BY <1>1 DEF AtStatement, RunsTop, Runs, Top
<1>3. /\ Top \in [is : {"Seq"}, stmts : outside \cup inside, pc : Nat \ {0}]
      /\ Top.stmts \in outside \/ HasLoop(stack, 1)
  <2>1. FrameNests(stack, 1, outside, inside) /\ Top.is = "Seq"
    BY <1>2 DEF Placed, Nests, AtStatement, RunsTop
  <2> QED BY <1>2, <2>1 DEF FrameNests
<1> DEFINE frame == [Top EXCEPT !.pc = @ + 1]
<1>4. frame \in [is : {"Seq"}, stmts : outside \cup inside, pc : Nat \ {0}] /\ frame.stmts = Top.stmts
  BY <1>3
<1>5. Below \in Seq(S) /\ Len(Below) = Len(stack) - 1 /\ \A n \in 1 .. Len(stack) - 1 : Below[n] = stack[n + 1]
  BY <1>1, <1>2, TailIsCut DEF Below
<1>6. /\ IsStack(Advanced) /\ Len(Advanced) = Len(stack) /\ Advanced[1] = frame
      /\ \A n \in 1 .. Len(stack) - 1 : Advanced[n + 1] = stack[n + 1]
  <2> HIDE DEF frame
  <2>1. Advanced = Push(frame, Below)
    BY DEF Advanced, frame
  <2>2. /\ IsStack(Push(frame, Below)) /\ Len(Push(frame, Below)) = Len(Below) + 1
        /\ Push(frame, Below)[1] = frame
        /\ \A n \in 1 .. Len(Below) : Push(frame, Below)[n + 1] = Below[n]
    <3>1. IsStack(Below)
      BY <1>5 DEF IsStack
    <3> QED BY <3>1, Pushed
  <2> QED BY <1>2, <1>5, <2>1, <2>2
<1> HIDE DEF frame
<1>7. HasLoop(stack, 1) => HasLoop(Advanced, 1)
  <2> HAVE HasLoop(stack, 1)
  <2>1. PICK m \in 2 .. Len(stack) : stack[m].is \in Loops /\ \A k \in 2 .. m - 1 : stack[k].is # "Call"
    BY DEF HasLoop
  <2>2. \A n \in 2 .. Len(stack) : Advanced[n] = stack[n]
    <3> TAKE n \in 2 .. Len(stack)
    <3>1. n - 1 \in 1 .. Len(stack) - 1 /\ (n - 1) + 1 = n
      BY <1>2
    <3> QED BY <1>6, <3>1
  <2> QED BY <1>2, <1>6, <2>1, <2>2 DEF HasLoop
<1>8. FrameNests(Advanced, 1, outside, inside)
  BY <1>3, <1>4, <1>6, <1>7 DEF FrameNests, Loops
<1>9. Nests(Advanced, outside, inside)
  <2>1. Len(stack) - 1 = Len(Advanced) - 1 /\ \A n \in 1 .. 1 : FrameNests(Advanced, n, outside, inside)
    BY <1>6, <1>8
  <2>2. Nests(stack, outside, inside) /\ Len(Advanced) \in Nat
    BY <1>2, <1>6 DEF Placed
  <2> QED BY <1>2, <1>6, <2>1, <2>2, TopNests
<1>10. CallersOf(Advanced) = CallersOf(stack)
  <2>1. /\ \A n \in 1 .. 1 : ~CallAt(stack, n) /\ ~CallAt(Advanced, n)
        /\ Len(stack) - 1 = Len(Advanced) - 1 /\ Len(Advanced) \in Nat
    BY <1>2, <1>3, <1>4, <1>6 DEF CallAt
  <2> QED BY <1>2, <1>6, <2>1, SameCallers
<1>11. Statement \in {Top.stmts[n] : n \in 1 .. Len(Top.stmts)}
  <2>1. Top.pc \in 1 .. Len(Top.stmts)
    BY <1>3 DEF AtStatement
  <2> QED BY <2>1 DEF Statement
<1>12. \A blocks : Top.stmts \in blocks => Statement \in StatementsIn(blocks)
  BY <1>11 DEF StatementsIn
<1>13. Advanced # <<>> /\ Len(Advanced) \in Nat
  BY <1>2, <1>6
<1>14. Top.stmts \in outside \/ (Top.stmts \in inside /\ HasLoop(Advanced, 1))
  BY <1>3, <1>7
<1> QED BY <1>4, <1>6, <1>9, <1>10, <1>12, <1>13, <1>14

(* A frame that is no caller's comes off.                                  *)
LEMMA Dropped ==
  ASSUME NEW s, IsStack(s), s # <<>>, s[1].is # "Call", NEW outside, NEW inside, Nests(s, outside, inside)
  PROVE  IsStack(Tail(s)) /\ Nests(Tail(s), outside, inside) /\ CallersOf(Tail(s)) = CallersOf(s)
<1>1. PICK S : s \in Seq(S)
  BY DEF IsStack
<1> DEFINE t == Tail(s)
<1>2. t \in Seq(S) /\ Len(t) = Len(s) - 1 /\ Len(s) \in Nat /\ Len(t) \in Nat /\ \A n \in 1 .. Len(s) - 1 : t[n] = s[n + 1]
  BY <1>1, TailIsCut
<1> HIDE DEF t
<1>3. /\ \A n \in 1 .. Len(s) - 1 : s[n + 1] = t[n + 0]
      /\ Len(s) - 1 = Len(t) - 0
      /\ \A n \in 1 .. 1 : ~CallAt(s, n)
      /\ \A n \in 1 .. 0 : ~CallAt(t, n) /\ FrameNests(t, n, outside, inside)
  BY <1>2 DEF CallAt
<1>4. Nests(t, outside, inside)
  BY <1>2, <1>3, TopNests
<1>5. CallersOf(s) = CallersOf(t)
  BY <1>2, <1>3, SameCallers
<1>6. IsStack(t)
  BY <1>2 DEF IsStack
<1> QED BY <1>4, <1>5, <1>6 DEF t

LEMMA PopKeeps ==
  ASSUME NEW outside, NEW inside, Placed(outside, inside), stack # <<>>, Top.is # "Call", stack' = Below
  PROVE  Keeps(outside, inside)
<1>1. Top = stack[1]
  BY DEF Top, Placed, IsStack
<1> QED BY <1>1, Dropped DEF Placed, Below, Keeps

LEMMA AdvanceKeeps ==
  ASSUME NEW outside, NEW inside, Placed(outside, inside), AtStatement, stack' = Advanced
  PROVE  Keeps(outside, inside)
BY AdvancedIsPlaced DEF Keeps

(* A frame in place that is no caller's goes on top.                       *)
LEMMA PushKeeps ==
  ASSUME NEW outside, NEW inside, NEW s, IsStack(s), Nests(s, outside, inside),
         CallersOf(s) = CallersOf(stack),
         NEW frame, frame.is # "Call", FrameNests(Push(frame, s), 1, outside, inside),
         stack' = Push(frame, s)
  PROVE  Keeps(outside, inside)
<1>1. PICK S : s \in Seq(S)
  BY DEF IsStack
<1>2. IsStack(Push(frame, s))
  BY Pushed
<1>3. Nests(Push(frame, s), outside, inside)
  BY <1>1, PushNests
<1>4. CallersOf(Push(frame, s)) = CallersOf(s)
  BY <1>1, CallersOfPush
<1> QED BY <1>2, <1>3, <1>4 DEF Keeps

LEMMA IfKeeps ==
  ASSUME NEW outside, NEW inside, Placed(outside, inside), AtStatement, Statement.op = "If",
         NEW b \in {Statement.then, Statement.els}, stack' = Push(SeqFrame(b), Advanced)
  PROVE  Keeps(outside, inside)
<1>1. /\ IsStack(Advanced) /\ Advanced # <<>> /\ Len(Advanced) = Len(stack)
      /\ Advanced[1].is = "Seq" /\ Advanced[1].stmts = Top.stmts
      /\ Nests(Advanced, outside, inside)
      /\ CallersOf(Advanced) = CallersOf(stack)
      /\ Top.stmts \in outside => Statement \in StatementsIn(outside)
      /\ Top.stmts \in inside => Statement \in StatementsIn(inside)
  BY AdvancedIsPlaced
<1>2. Top.stmts \in outside => b \in outside
  BY <1>1 DEF Placed, JumpsStayInside
<1>3. Top.stmts \in inside => b \in inside
  BY <1>1 DEF Placed, JumpsStayInside
<1>4. PICK S : Advanced \in Seq(S)
  BY <1>1 DEF IsStack
<1>5. FrameNests(Advanced, 1, outside, inside)
  <2>1. 1 \in 1 .. Len(Advanced)
    BY <1>1, <1>4
  <2> QED BY <1>1, <2>1 DEF Nests
<1>6. FrameNests(Push(SeqFrame(b), Advanced), 1, outside, inside)
  BY <1>1, <1>2, <1>3, <1>4, <1>5, BranchOnBlock
<1>7. SeqFrame(b).is # "Call"
  BY DEF SeqFrame
<1> QED BY <1>1, <1>6, <1>7, PushKeeps

(* The frame of a loop.                                                    *)
LEMMA LoopKeeps ==
  ASSUME NEW outside, NEW inside, Placed(outside, inside), AtStatement, Statement.op \in Loops,
         NEW frame, frame.is \in Loops, frame.body = Statement.body,
         frame.is = "For" => {"is", "i", "started", "body"} \subseteq DOMAIN frame,
         stack' = Push(frame, Advanced)
  PROVE  Keeps(outside, inside)
<1>1. /\ IsStack(Advanced) /\ Nests(Advanced, outside, inside)
      /\ CallersOf(Advanced) = CallersOf(stack)
      /\ Statement \in StatementsIn(outside) \/ Statement \in StatementsIn(inside)
  BY AdvancedIsPlaced
<1>2. Statement \in StatementsIn(outside \cup inside)
  BY <1>1 DEF StatementsIn
<1>3. frame.body \in inside
  BY <1>2 DEF Placed, JumpsStayInside
<1>4. Push(frame, Advanced)[1] = frame
  BY <1>1, Pushed
<1>5. FrameNests(Push(frame, Advanced), 1, outside, inside)
  BY <1>3, <1>4 DEF FrameNests, Loops
<1>6. frame.is # "Call"
  BY DEF Loops
<1> QED BY <1>1, <1>5, <1>6, PushKeeps

(* A jump inside of a loop finds the loop's frame before any caller's.     *)
LEMMA UnwoundToLoop ==
  ASSUME NEW s, IsStack(s), s # <<>>, s[1].is = "Seq", HasLoop(s, 1),
         NEW outside, NEW inside, Nests(s, outside, inside)
  PROVE  /\ IsStack(UnwindTo(Loops, s)) /\ UnwindTo(Loops, s) # <<>>
         /\ UnwindTo(Loops, s)[1].is \in Loops
         /\ Nests(UnwindTo(Loops, s), outside, inside)
         /\ CallersOf(UnwindTo(Loops, s)) = CallersOf(s)
<1>1. PICK S : s \in Seq(S)
  BY DEF IsStack
<1>2. PICK first \in 1 .. Len(s) + 1 :
        /\ UnwindTo(Loops, s) = SubSeq(s, first, Len(s))
        /\ first = Len(s) + 1 \/ s[first].is \in Loops
        /\ \A m \in 1 .. first - 1 : s[m].is \notin Loops
  BY <1>1, Unwound
<1>3. PICK m \in 1 + 1 .. Len(s) : s[m].is \in Loops /\ \A k \in 1 + 1 .. m - 1 : s[k].is # "Call"
  BY DEF HasLoop
<1>4. Len(s) \in Nat
  BY <1>1
<1>5. first <= m
  BY <1>2, <1>3, <1>4
<1>6. \A n \in 1 .. first - 1 : s[n].is # "Call"
  BY <1>3, <1>4, <1>5
<1> DEFINE rest == SubSeq(s, first, Len(s))
<1>7. rest \in Seq(S) /\ Len(rest) = Len(s) - first + 1 /\ \A n \in 1 .. Len(rest) : rest[n] = s[n + first - 1]
  BY <1>1, Cut
<1>8. CallersOf(rest) = CallersOf(s)
  BY <1>1, <1>6, CallersOfCut
<1>9. Nests(rest, outside, inside)
  BY <1>1, CutNests
<1> HIDE DEF rest
<1>10. 1 \in 1 .. Len(rest) /\ rest[1] = s[first] /\ first # Len(s) + 1
  <2>1. 1 \in 1 .. Len(rest) /\ 1 + first - 1 = first /\ first # Len(s) + 1
    BY <1>4, <1>5, <1>7
  <2> QED BY <1>7, <2>1
<1>11. rest # <<>> /\ rest[1].is \in Loops /\ IsStack(rest)
  BY <1>2, <1>7, <1>10 DEF IsStack
<1>12. UnwindTo(Loops, s) = rest
  BY <1>2 DEF rest
<1> QED BY <1>8, <1>9, <1>11, <1>12

LEMMA InLoop ==
  ASSUME NEW outside, NEW inside, Placed(outside, inside), AtStatement,
         Statement.op \in {"Break", "Continue"}
  PROVE  HasLoop(Advanced, 1)
<1>1. /\ Top.stmts \in outside \/ (Top.stmts \in inside /\ HasLoop(Advanced, 1))
      /\ Top.stmts \in outside => Statement \in StatementsIn(outside)
  BY AdvancedIsPlaced
<1> QED BY <1>1 DEF Placed, JumpsStayInside

LEMMA ContinueKeeps ==
  ASSUME NEW outside, NEW inside, Placed(outside, inside), DoContinue
  PROVE  Keeps(outside, inside)
<1>1. AtStatement /\ Statement.op = "Continue" /\ stack' = UnwindTo(Loops, Advanced)
  BY DEF DoContinue, Executes
<1>2. HasLoop(Advanced, 1)
  BY <1>1, InLoop
<1>3. /\ IsStack(Advanced) /\ Advanced # <<>> /\ Advanced[1].is = "Seq"
      /\ Nests(Advanced, outside, inside) /\ CallersOf(Advanced) = CallersOf(stack)
  BY <1>1, AdvancedIsPlaced
<1> QED BY <1>1, <1>2, <1>3, UnwoundToLoop DEF Keeps

LEMMA BreakKeeps ==
  ASSUME NEW outside, NEW inside, Placed(outside, inside), DoBreak
  PROVE  Keeps(outside, inside)
<1> DEFINE rest == UnwindTo(Loops, Advanced)
<1>1. AtStatement /\ Statement.op = "Break" /\ stack' = IF rest = <<>> THEN rest ELSE Tail(rest)
  BY DEF DoBreak, Executes
<1>2. HasLoop(Advanced, 1)
  BY <1>1, InLoop
<1>3. /\ IsStack(Advanced) /\ Advanced # <<>> /\ Advanced[1].is = "Seq"
      /\ Nests(Advanced, outside, inside) /\ CallersOf(Advanced) = CallersOf(stack)
  BY <1>1, AdvancedIsPlaced
<1>4. /\ IsStack(rest) /\ rest # <<>> /\ rest[1].is \in Loops
      /\ Nests(rest, outside, inside) /\ CallersOf(rest) = CallersOf(stack)
  BY <1>2, <1>3, UnwoundToLoop
<1> HIDE DEF rest
<1>5. rest[1].is # "Call"
  BY <1>4 DEF Loops
<1>6. IsStack(Tail(rest)) /\ Nests(Tail(rest), outside, inside) /\ CallersOf(Tail(rest)) = CallersOf(rest)
  BY <1>4, <1>5, Dropped
<1> QED BY <1>1, <1>4, <1>6 DEF Keeps

LEMMA ReturnKeeps ==
  ASSUME NEW outside, NEW inside, Placed(outside, inside), DoReturn
  PROVE  Keeps(outside, inside)
<1>1. AtStatement /\ stack' = UnwindTo({"Call"}, Advanced)
  BY DEF DoReturn, Executes
<1>2. /\ IsStack(Advanced)
      /\ Nests(Advanced, outside, inside) /\ CallersOf(Advanced) = CallersOf(stack)
  BY <1>1, AdvancedIsPlaced
<1> PICK s : s = Advanced
  OBVIOUS
<1>3. PICK S : s \in Seq(S)
  BY <1>2 DEF IsStack
<1>4. PICK first \in 1 .. Len(s) + 1 :
        /\ UnwindTo({"Call"}, s) = SubSeq(s, first, Len(s))
        /\ \A m \in 1 .. first - 1 : s[m].is \notin {"Call"}
  BY <1>3, Unwound
<1> DEFINE rest == SubSeq(s, first, Len(s))
<1>5. IsStack(rest)
  BY <1>3, Cut DEF IsStack
<1>6. CallersOf(rest) = CallersOf(s)
  BY <1>3, <1>4, CallersOfCut
<1>7. Nests(rest, outside, inside)
  BY <1>2, <1>3, CutNests
<1> HIDE DEF rest
<1>8. stack' = rest
  BY <1>1, <1>4 DEF rest
<1> QED BY <1>2, <1>5, <1>6, <1>7, <1>8 DEF Keeps

(* A pass of a loop: its body goes on its frame.                           *)
LEMMA WhilePassKeeps ==
  ASSUME NEW outside, NEW inside, Placed(outside, inside), WhilePass
  PROVE  Keeps(outside, inside)
<1>1. stack # <<>> /\ Top.is = "While" /\ stack' = Push(SeqFrame(Top.body), stack)
  BY DEF WhilePass, RunsTop, Runs
<1>2. PICK S : stack \in Seq(S)
  BY DEF Placed, IsStack
<1>3. Top = stack[1] /\ 1 \in 1 .. Len(stack)
  BY <1>1, <1>2 DEF Top
<1>4. stack[1].is \in Loops /\ Top.body \in inside
  BY <1>1, <1>3 DEF Placed, Nests, FrameNests, Loops
<1>5. FrameNests(Push(SeqFrame(Top.body), stack), 1, outside, inside)
  BY <1>1, <1>2, <1>4, BodyOnLoop
<1>6. SeqFrame(Top.body).is # "Call"
  BY DEF SeqFrame
<1> QED BY <1>1, <1>5, <1>6, PushKeeps DEF Placed

LEMMA ForPassKeeps ==
  ASSUME NEW outside, NEW inside, Placed(outside, inside), ForPass
  PROVE  Keeps(outside, inside)
<1> DEFINE frame == [Top EXCEPT !.i = Counter, !.started = TRUE]
           s == Push(frame, Below)
<1>1. stack # <<>> /\ Top.is = "For" /\ stack' = Push(SeqFrame(Top.body), s)
  BY DEF ForPass, RunsTop, Runs
<1>2. PICK S : stack \in Seq(S)
  BY DEF Placed, IsStack
<1>3. Top = stack[1] /\ 1 \in 1 .. Len(stack) /\ stack[1].is # "Call"
  BY <1>1, <1>2 DEF Top
<1>4. Top.body \in inside /\ {"is", "i", "started", "body"} \subseteq DOMAIN Top
  BY <1>1, <1>3 DEF Placed, Nests, FrameNests, Loops
<1>5. frame.is = "For" /\ frame.body = Top.body /\ DOMAIN frame = DOMAIN Top
  BY <1>1, <1>4
<1>6. IsStack(Below) /\ Nests(Below, outside, inside) /\ CallersOf(Below) = CallersOf(stack)
  BY <1>1, <1>3, Dropped DEF Placed, Below
<1> HIDE DEF frame
<1>7. IsStack(s) /\ s[1] = frame /\ Len(s) = Len(Below) + 1 /\ Len(Below) \in Nat
  BY <1>6, Pushed
<1>8. FrameNests(s, 1, outside, inside)
  BY <1>4, <1>5, <1>7 DEF FrameNests, Loops
<1>9. Nests(s, outside, inside) /\ CallersOf(s) = CallersOf(stack)
  <2>1. PICK R : Below \in Seq(R)
    BY <1>6 DEF IsStack
  <2> QED BY <1>5, <1>6, <1>8, <2>1, PushNests, CallersOfPush
<1> HIDE DEF s
<1>10. s # <<>> /\ s[1].is \in Loops
  BY <1>5, <1>7 DEF Loops
<1>11. FrameNests(Push(SeqFrame(Top.body), s), 1, outside, inside)
  <2>1. PICK R : s \in Seq(R)
    BY <1>7 DEF IsStack
  <2> QED BY <1>4, <1>10, <2>1, BodyOnLoop
<1>12. SeqFrame(Top.body).is # "Call"
  BY DEF SeqFrame
<1> QED BY <1>1, <1>7, <1>9, <1>11, <1>12, PushKeeps

(* A call puts the caller's frame below the callee's block.                *)
LEMMA EnterCallAdds ==
  ASSUME NEW outside, NEW inside, Placed(outside, inside), EnterCall
  PROVE  /\ IsStack(stack') /\ Nests(stack', outside, inside)
         /\ CallersOf(stack') =
              CallersOf(stack) \cup {<<Len(stack), CallFrame(fnIdx, locals, Statement.result)>>}
<1> DEFINE callee == Target(Statement)
           frame == CallFrame(fnIdx, locals, Statement.result)
           s == Push(frame, Advanced)
           block == SeqFrame(program.fns[callee].body)
<1>1. /\ AtStatement /\ Statement.op \in {"Call", "ExternCall"} /\ callee # None
      /\ stack' = Push(block, s)
  BY DEF EnterCall, Executes, CanEnter
<1>2. /\ IsStack(Advanced) /\ Len(Advanced) = Len(stack) /\ Nests(Advanced, outside, inside)
      /\ CallersOf(Advanced) = CallersOf(stack)
      /\ Statement \in StatementsIn(outside) \/ Statement \in StatementsIn(inside)
  BY <1>1, AdvancedIsPlaced
<1>3. callee \in DOMAIN program.fns
  <2>1. Statement \in StatementsIn(outside \cup inside)
    BY <1>2 DEF StatementsIn
  <2> QED BY <1>1, <2>1 DEF Placed, JumpsStayInside, Target
<1>4. program.fns[callee].body \in outside
  BY <1>3 DEF Placed, JumpsStayInside
<1>5. block \in [is : {"Seq"}, stmts : outside \cup inside, pc : Nat \ {0}] /\ block.stmts \in outside
  BY <1>4 DEF SeqFrame
<1>6. frame.is = "Call"
  BY DEF CallFrame
<1> HIDE DEF frame, block, callee
<1>7. /\ IsStack(s) /\ s[1] = frame /\ Len(s) = Len(Advanced) + 1 /\ Len(Advanced) \in Nat
      /\ \A n \in 1 .. Len(Advanced) : s[n + 1] = Advanced[n]
  BY <1>2, Pushed
<1>8. Nests(s, outside, inside)
  <2>1. FrameNests(s, 1, outside, inside)
    BY <1>6, <1>7 DEF FrameNests, Loops
  <2>2. PICK R : Advanced \in Seq(R)
    BY <1>2 DEF IsStack
  <2> QED BY <1>2, <2>1, <2>2, PushNests
<1>9. CallersOf(s) = CallersOf(Advanced) \cup {<<Len(Advanced), s[1]>>}
  <2> HIDE DEF s
  <2> QED BY <1>6, <1>7, TopCaller
<1>10. PICK R : s \in Seq(R)
  BY <1>7 DEF IsStack
<1> HIDE DEF s
<1>11. IsStack(Push(block, s)) /\ Push(block, s)[1] = block
  BY <1>7, Pushed
<1>12. FrameNests(Push(block, s), 1, outside, inside)
  BY <1>5, <1>11 DEF FrameNests, Loops
<1>13. Nests(Push(block, s), outside, inside) /\ CallersOf(Push(block, s)) = CallersOf(s)
  BY <1>5, <1>8, <1>10, <1>12, PushNests, CallersOfPush
<1>14. CallersOf(stack') = CallersOf(stack) \cup {<<Len(stack), frame>>}
  BY <1>1, <1>2, <1>7, <1>9, <1>13
<1> QED BY <1>1, <1>11, <1>13, <1>14 DEF frame

(* And leaving it takes just that frame away.                              *)
LEMMA LeaveCallRemoves ==
  ASSUME NEW outside, NEW inside, Placed(outside, inside), LeaveCall
  PROVE  /\ IsStack(stack') /\ Nests(stack', outside, inside)
         /\ CallersOf(stack') = CallersOf(stack) \ {<<Len(stack) - 1, Top>>}
<1>1. stack # <<>> /\ Top.is = "Call" /\ stack' = Below
  BY DEF LeaveCall, RunsTop, Runs
<1>2. PICK S : stack \in Seq(S)
  BY DEF Placed, IsStack
<1> DEFINE t == Below
<1>3. /\ t \in Seq(S) /\ Len(t) = Len(stack) - 1 /\ Len(stack) \in Nat /\ Len(t) \in Nat
      /\ \A n \in 1 .. Len(stack) - 1 : t[n] = stack[n + 1]
      /\ Top = stack[1]
  BY <1>1, <1>2, TailIsCut DEF Below, Top
<1> HIDE DEF t
<1>4. /\ \A n \in 1 .. Len(stack) - 1 : stack[n + 1] = t[n + 0]
      /\ Len(stack) - 1 = Len(t) - 0
      /\ \A n \in 1 .. 0 : FrameNests(t, n, outside, inside)
  BY <1>3
<1>5. Nests(t, outside, inside)
  BY <1>3, <1>4, TopNests DEF Placed
<1>6. Len(stack) = Len(t) + 1 /\ \A n \in 1 .. Len(t) : stack[n + 1] = t[n]
  BY <1>3
<1>7. CallersOf(t) = CallersOf(stack) \ {<<Len(t), stack[1]>>}
  BY <1>1, <1>3, <1>6, TopCaller
<1>8. IsStack(t)
  BY <1>3 DEF IsStack
<1> QED BY <1>1, <1>3, <1>5, <1>7, <1>8 DEF t

-----------------------------------------------------------------------------
(* Every step, and the invariant.                                          *)

CallerStep ==
  \/ CallersOf(stack') = CallersOf(stack)
  \/ /\ EnterCall
     /\ CallersOf(stack') = CallersOf(stack) \cup {<<Len(stack), CallFrame(fnIdx, locals, Statement.result)>>}
  \/ /\ LeaveCall
     /\ CallersOf(stack') = CallersOf(stack) \ {<<Len(stack) - 1, Top>>}

LEMMA StepsKeepCallers ==
  ASSUME NEW outside, NEW inside, Placed(outside, inside), [StackNext]_stackVars
  PROVE  IsStack(stack') /\ Nests(stack', outside, inside) /\ CallerStep
<1> SUFFICES ASSUME ~(EnterCall \/ LeaveCall) PROVE Keeps(outside, inside)
  BY EnterCallAdds, LeaveCallRemoves DEF Keeps, CallerStep
<1>1. CASE UNCHANGED stack
  BY <1>1 DEF Keeps, Placed
<1>2. CASE Pop \/ WhileEnd \/ ForEnd
  <2>1. stack # <<>> /\ Top.is # "Call" /\ stack' = Below
    BY <1>2 DEF Pop, WhileEnd, ForEnd, RunsTop, Runs
  <2> QED BY <2>1, PopKeeps
<1>3. CASE SetLocal \/ StoreValue \/ StopAt
  <2>1. AtStatement /\ stack' = Advanced
    BY <1>3 DEF SetLocal, StoreValue, StopAt, Executes
  <2> QED BY <2>1, AdvanceKeeps
<1>4. CASE EnterIf
  <2>1. AtStatement /\ Statement.op = "If" /\ \E b \in {Statement.then, Statement.els} : stack' = Push(SeqFrame(b), Advanced)
    BY <1>4 DEF EnterIf, Executes
  <2> QED BY <2>1, IfKeeps
<1>5. CASE EnterWhile
  <2> DEFINE frame == WhileFrame(Statement)
  <2>1. AtStatement /\ Statement.op = "While" /\ stack' = Push(frame, Advanced)
    BY <1>5 DEF EnterWhile, Executes
  <2>2. frame.is = "While" /\ frame.body = Statement.body
    BY DEF WhileFrame
  <2> HIDE DEF frame
  <2> QED BY <2>1, <2>2, LoopKeeps DEF Loops
<1>6. CASE EnterFor
  <2> DEFINE frame == ForFrame(Statement, Eval(Statement.bounds[1]), Eval(Statement.bounds[2]), Eval(Statement.bounds[3]))
  <2>1. AtStatement /\ Statement.op = "For" /\ stack' = Push(frame, Advanced)
    BY <1>6 DEF EnterFor, Executes
  <2>2. frame.is = "For" /\ frame.body = Statement.body /\ {"is", "i", "started", "body"} \subseteq DOMAIN frame
    BY DEF ForFrame
  <2> HIDE DEF frame
  <2> QED BY <2>1, <2>2, LoopKeeps DEF Loops
<1>7. CASE DoBreak \/ DoContinue \/ DoReturn
  BY <1>7, BreakKeeps, ContinueKeeps, ReturnKeeps
<1>8. CASE WhilePass \/ ForPass
  BY <1>8, WhilePassKeeps, ForPassKeeps
<1>9. CASE ZeroStep \/ CannotEnter \/ RunsOut \/ GoOn \/ Finished
  <2>1. UNCHANGED stack
    BY <1>9 DEF ZeroStep, CannotEnter, RunsOut, GoOn, Finished, Traps
  <2> QED BY <1>1, <2>1
<1> QED BY <1>1, <1>2, <1>3, <1>4, <1>5, <1>6, <1>7, <1>8, <1>9 DEF StackNext, stackVars, machineVars

(* The modules are checked ones, as far as jumps and callees go.           *)
ModulesAreNested ==
  \A m \in Modules : \E outside, inside : JumpsStayInside(m, outside, inside)

LEMMA StackInvInit ==
  ASSUME ModulesAreNested, StackInit
  PROVE  StackInv
<1>1. PICK outside, inside : JumpsStayInside(program, outside, inside)
  BY DEF ModulesAreNested, StackInit
<1>2. Entry.body \in outside
  BY <1>1 DEF JumpsStayInside, Entry
<1>3. /\ Len(stack) = 1 /\ stack[1] = SeqFrame(Entry.body) /\ stack \in Seq({SeqFrame(Entry.body)})
  BY DEF StackInit
<1>4. FrameNests(stack, 1, outside, inside)
  BY <1>2, <1>3 DEF FrameNests, SeqFrame, Loops
<1>5. IsStack(stack)
  BY <1>3 DEF IsStack
<1>6. Nests(stack, outside, inside)
  BY <1>3, <1>4 DEF Nests
<1> QED BY <1>1, <1>5, <1>6 DEF StackInv, Placed

LEMMA StackInvStep ==
  ASSUME StackInv, [StackNext]_stackVars
  PROVE  StackInv' /\ CallerStep
<1>1. PICK outside, inside : Placed(outside, inside)
  BY DEF StackInv
<1>2. IsStack(stack') /\ Nests(stack', outside, inside) /\ CallerStep
  BY <1>1, StepsKeepCallers
<1>3. program' = program
  BY DEF StackNext, stackVars, machineVars, Pop, SetLocal, StoreValue, EnterIf, EnterWhile, EnterFor,
         ZeroStep, DoBreak, DoContinue, DoReturn, StopAt, GoOn, EnterCall, CannotEnter, LeaveCall,
         WhilePass, WhileEnd, ForPass, ForEnd, RunsOut, Finished, Executes, Traps
<1>4. JumpsStayInside(program', outside, inside)
  BY <1>1, <1>3 DEF Placed
<1> QED BY <1>2, <1>4 DEF StackInv, Placed

(* In a module whose jumps stay inside of its loops, no jump leaves the    *)
(* function it is in, and every call comes back to the frame it left       *)
(* (kernel_resume.rs, break_loop and unwind_to_call; kernel_call.rs,       *)
(* enter_call and leave_call).                                             *)
THEOREM CallersAreKept ==
  ASSUME ModulesAreNested
  PROVE  StackSpec => CallersKept
<1>1. StackInit => StackInv
  BY StackInvInit
<1>2. StackInv /\ [StackNext]_stackVars => StackInv'
  BY StackInvStep
<1>3. StackInv /\ [StackNext]_stackVars => [CallerStep]_stackVars
  BY StackInvStep
<1>4. StackSpec => [][CallerStep]_stackVars
  BY <1>1, <1>2, <1>3, PTL DEF StackSpec
<1> QED BY <1>4 DEF CallersKept, CallerStep
=============================================================================
