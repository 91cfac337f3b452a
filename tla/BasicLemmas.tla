---------------------------- MODULE BasicLemmas ----------------------------
(***************************************************************************)
(* What the operators of Clock promise for every range of millis(), and    *)
(* induction over the natural numbers, as a fact about sets.               *)
(***************************************************************************)
EXTENDS Clock, TLAPS, WellFoundedInduction

\* Age and next tick are values of the counter.
LEMMA ElapsedType ==
  ASSUME NEW now \in Millis, NEW then \in Millis
  PROVE  Elapsed(now, then) \in Millis /\ Elapsed(now, then) \in Nat
BY ClockAssumption DEF Elapsed, Millis

LEMMA LaterType ==
  ASSUME NEW now \in Millis
  PROVE  Later(now) \in Millis
BY ClockAssumption DEF Later, Millis

\* The clock starts at 0, which is a value of the counter, and a stamp made now is
\* of age 0.
LEMMA ZeroIsMillis == 0 \in Millis
BY ClockAssumption DEF Millis

LEMMA ElapsedNow ==
  ASSUME NEW now \in Millis
  PROVE  Elapsed(now, now) = 0
BY DEF Elapsed, Millis

LEMMA ElapsedSinceZero ==
  ASSUME NEW now \in Millis
  PROVE  Elapsed(now, 0) = now
BY DEF Elapsed, Millis

\* A tick makes a stamp older by one, until its age is the whole range.
LEMMA ElapsedLater ==
  ASSUME NEW now \in Millis, NEW then \in Millis, Elapsed(now, then) < Wrap - 1
  PROVE  Elapsed(Later(now), then) = Elapsed(now, then) + 1
BY ClockAssumption DEF Elapsed, Later, Millis

\* Ages add up along three stamps, whatever wraps in between.
LEMMA ElapsedAdds ==
  ASSUME NEW now \in Millis, NEW mid \in Millis, NEW then \in Millis,
         Elapsed(now, mid) + Elapsed(mid, then) < Wrap
  PROVE  Elapsed(now, then) = Elapsed(now, mid) + Elapsed(mid, then)
BY ClockAssumption DEF Elapsed, Millis

\* Of two stamps the younger one was made this much after the older one.
LEMMA ElapsedSplits ==
  ASSUME NEW now \in Millis, NEW mid \in Millis, NEW then \in Millis,
         Elapsed(now, mid) <= Elapsed(now, then)
  PROVE  Elapsed(mid, then) = Elapsed(now, then) - Elapsed(now, mid)
BY ClockAssumption DEF Elapsed, Millis

-----------------------------------------------------------------------------
\* A set of naturals has a smallest member, so one that has 0 and the successors of
\* its members has them all.
LEMMA NatMinimum ==
  ASSUME NEW S \in SUBSET Nat, S # {}
  PROVE  \E n \in S : \A m \in S : n <= m
<1> DEFINE R == OpToRel(<, Nat)
<1>1. IsWellFoundedOn(R, Nat)
  BY NatLessThanWellFounded, Zenon
<1>2. \A x, y \in Nat : x < y => <<x, y>> \in R
  BY Zenon DEF OpToRel
<1> HIDE DEF R
<1>3. PICK x \in S : \A y \in S : ~(<<y, x>> \in R)
  BY <1>1, WFMin
<1>4. ASSUME NEW y \in S PROVE x <= y
  <2>1. x \in Nat /\ y \in Nat /\ ~(y < x)
    BY <1>2, <1>3
  <2> QED
    BY <2>1
<1> QED
  BY <1>4

LEMMA Induction ==
  ASSUME NEW S, 0 \in S, \A n \in Nat : n \in S => n + 1 \in S
  PROVE  \A n \in Nat : n \in S
<1> SUFFICES ASSUME Nat \ S # {} PROVE FALSE
  OBVIOUS
<1>1. PICK n \in Nat \ S : \A m \in Nat \ S : n <= m
  BY NatMinimum
<1>2. n # 0 /\ n - 1 \in Nat /\ n - 1 < n
  BY <1>1
<1>3. n - 1 \in S
  BY <1>1, <1>2
<1>4. (n - 1) + 1 = n
  BY <1>2
<1> QED
  BY <1>1, <1>2, <1>3, <1>4
=============================================================================
