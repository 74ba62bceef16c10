---------------------------- MODULE SeriesProofs ----------------------------
(***************************************************************************)
(* What holds of series of readings of any length, and of the sets of      *)
(* numbers that are taken of them.                                         *)
(*                                                                         *)
(* Induction is by the least number: a set of counterexamples has a least  *)
(* element, and the one before it is none.                                 *)
(***************************************************************************)
EXTENDS Series, SequenceTheorems, FiniteSetTheorems, WellFoundedInduction, TLAPS

LEMMA LeastNatural ==
  ASSUME NEW S, S \subseteq Nat, S # {}
  PROVE  \E x \in S : \A y \in S : x <= y
<1> DEFINE R == OpToRel(<, Nat)
<1>1. IsWellFoundedOn(R, Nat)
  BY NatLessThanWellFounded
<1>2. PICK x \in S : \A y \in S : ~(<<y, x>> \in R)
  <2> HIDE DEF R
  <2>. QED
    BY <1>1, WFMin
<1>3. \A y \in S : ~(y < x)
  BY <1>2 DEF OpToRel
<1>. QED
  BY <1>3

LEMMA GreatestNatural ==
  ASSUME NEW S, S \subseteq Nat, S # {}, NEW bound \in Nat, \A y \in S : y <= bound
  PROVE  \E x \in S : \A y \in S : x >= y
<1> DEFINE Bounds == {b \in Nat : \A y \in S : y <= b}
<1>1. PICK x \in Bounds : \A b \in Bounds : x <= b
  <2>1. Bounds \subseteq Nat /\ bound \in Bounds
    OBVIOUS
  <2> HIDE DEF Bounds
  <2>. QED
    BY <2>1, LeastNatural
<1>2. x \in Nat /\ \A y \in S : y <= x
  BY <1>1
<1>3. x \in S
  <2> SUFFICES ASSUME x \notin S PROVE FALSE
    OBVIOUS
  <2>1. \A y \in S : y <= x - 1
    BY <1>2
  <2>2. PICK y \in S : y \in Nat
    OBVIOUS
  <2>3. x - 1 \in Bounds
    BY <1>2, <2>1, <2>2
  <2>. QED
    BY <1>1, <1>2, <2>3
<1>. QED
  BY <1>2, <1>3

LEMMA MinFacts ==
  ASSUME NEW S, S \subseteq Nat, S # {}
  PROVE  Min(S) \in S /\ \A y \in S : Min(S) <= y
<1>1. \E x \in S : \A y \in S : x <= y
  BY LeastNatural
<1>. QED
  BY <1>1 DEF Min

LEMMA MaxFacts ==
  ASSUME NEW S, S \subseteq Nat, S # {}, NEW bound \in Nat, \A y \in S : y <= bound
  PROVE  Max(S) \in S /\ \A y \in S : Max(S) >= y
<1>1. \E x \in S : \A y \in S : x >= y
  BY GreatestNatural
<1>. QED
  BY <1>1 DEF Max

\* Of two numbers there is no need of induction.
LEMMA MinMaxOfTwo ==
  ASSUME NEW a \in Int, NEW b \in Int
  PROVE  /\ Min({a, b}) = IF a <= b THEN a ELSE b
         /\ Max({a, b}) = IF a <= b THEN b ELSE a
<1>1. \A x \in {a, b} : (\A y \in {a, b} : x <= y) <=> x = IF a <= b THEN a ELSE b
  OBVIOUS
<1>2. \A x \in {a, b} : (\A y \in {a, b} : x >= y) <=> x = IF a <= b THEN b ELSE a
  OBVIOUS
<1>3. Min({a, b}) \in {a, b} /\ \A y \in {a, b} : Min({a, b}) <= y
  <2>1. \E x \in {a, b} : \A y \in {a, b} : x <= y
    OBVIOUS
  <2>. QED
    BY <2>1, Zenon DEF Min
<1>4. Max({a, b}) \in {a, b} /\ \A y \in {a, b} : Max({a, b}) >= y
  <2>1. \E x \in {a, b} : \A y \in {a, b} : x >= y
    OBVIOUS
  <2>. QED
    BY <2>1, Zenon DEF Max
<1>. QED
  BY <1>1, <1>2, <1>3, <1>4

\* The numbers of a series have a bound.
LEMMA SeriesIsBounded ==
  ASSUME NEW S, NEW s \in Seq(S)
  PROVE  \E bound \in Nat : \A i \in 1..Len(s) : s[i] \in Nat => s[i] <= bound
<1> DEFINE BoundedTo(n) == \E bound \in Nat : \A i \in 1..n : s[i] \in Nat => s[i] <= bound
           Bad == {n \in 0..Len(s) : ~BoundedTo(n)}
<1>1. Len(s) \in Nat
  OBVIOUS
<1>2. BoundedTo(0)
  <2>1. \A i \in 1..0 : s[i] \in Nat => s[i] <= 0
    OBVIOUS
  <2>. QED
    BY <2>1
<1>3. ASSUME NEW n \in 1..Len(s), BoundedTo(n - 1) PROVE BoundedTo(n)
  <2>1. PICK b \in Nat : \A i \in 1..(n - 1) : s[i] \in Nat => s[i] <= b
    BY <1>3
  <2>2. PICK c \in Nat : c >= b /\ (s[n] \in Nat => c >= s[n])
    <3>1. CASE s[n] \in Nat
      <4>1. s[n] + b \in Nat /\ s[n] + b >= b /\ s[n] + b >= s[n]
        BY <3>1
      <4>. QED
        BY <4>1
    <3>2. CASE s[n] \notin Nat
      <4>1. b >= b
        OBVIOUS
      <4>. QED
        BY <3>2, <4>1
    <3>. QED
      BY <3>1, <3>2
  <2>3. ASSUME NEW i \in 1..n, s[i] \in Nat PROVE s[i] <= c
    <3>1. CASE i = n
      BY <2>2, <2>3, <3>1
    <3>2. CASE i # n
      <4>1. i \in 1..(n - 1)
        BY <1>1, <3>2
      <4>2. s[i] <= b
        BY <2>1, <2>3, <4>1
      <4>. QED
        BY <2>2, <2>3, <4>2
    <3>. QED
      BY <3>1, <3>2
  <2>. QED
    BY <2>3
<1>4. Bad = {}
  <2> SUFFICES ASSUME Bad # {} PROVE FALSE
    OBVIOUS
  <2>1. Bad \subseteq Nat
    <3> HIDE DEF BoundedTo
    <3>. QED
      BY <1>1
  <2>2. PICK n \in Bad : \A m \in Bad : n <= m
    <3> HIDE DEF Bad
    <3>. QED
      BY <2>1, LeastNatural
  <2>3. ~BoundedTo(n) /\ n \in 0..Len(s)
    OBVIOUS
  <2>4. n # 0
    BY <1>2, <2>3
  <2>5. n \in 1..Len(s) /\ n - 1 \in 0..Len(s) /\ n - 1 < n
    BY <1>1, <2>3, <2>4
  <2>. HIDE DEF BoundedTo
  <2>6. BoundedTo(n - 1)
    BY <1>1, <2>2, <2>5
  <2>. QED
    BY <1>3, <2>3, <2>5, <2>6
<1>5. BoundedTo(Len(s))
  <2> HIDE DEF BoundedTo
  <2>. QED
    BY <1>1, <1>4
<1>. QED
  BY <1>5

\* The peak is a reading, and no reading is above it.
LEMMA PeakFacts ==
  ASSUME NEW readings \in Seq(Nat \cup {None})
  PROVE  /\ PeakOf(readings) = None \/ PeakOf(readings) \in ToSet(readings) \ {None}
         /\ \A i \in 1..Len(readings) :
              readings[i] # None =>
                /\ PeakOf(readings) \in Nat /\ PeakOf(readings) # None
                /\ readings[i] <= PeakOf(readings)
<1> DEFINE known == ToSet(readings) \ {None}
<1>1. DOMAIN readings = 1..Len(readings) /\ Len(readings) \in Nat
      /\ \A i \in 1..Len(readings) : readings[i] \in Nat \cup {None}
  OBVIOUS
<1>2. known \subseteq Nat
  BY <1>1 DEF ToSet
<1>3. PICK bound \in Nat : \A i \in 1..Len(readings) : readings[i] \in Nat => readings[i] <= bound
  BY SeriesIsBounded
<1>4. \A y \in known : y <= bound
  BY <1>1, <1>2, <1>3 DEF ToSet
<1>5. PeakOf(readings) = IF known = {} THEN None ELSE Max(known)
  BY DEF PeakOf
<1>6. ASSUME known # {} PROVE Max(known) \in known /\ \A y \in known : Max(known) >= y
  <2> HIDE DEF known
  <2>. QED
    BY <1>2, <1>4, <1>6, MaxFacts
<1>7. ASSUME NEW i \in 1..Len(readings), readings[i] # None PROVE readings[i] \in known
  BY <1>1, <1>7 DEF ToSet
<1>. HIDE DEF known
<1>8. PeakOf(readings) = None \/ PeakOf(readings) \in known
  BY <1>5, <1>6
<1>9. ASSUME NEW i \in 1..Len(readings), readings[i] # None
      PROVE  /\ PeakOf(readings) \in known /\ readings[i] <= PeakOf(readings)
  <2>1. readings[i] \in known /\ known # {}
    BY <1>7, <1>9
  <2>2. Max(known) \in Nat /\ readings[i] \in Nat /\ Max(known) >= readings[i]
    BY <1>2, <1>6, <2>1
  <2>. QED
    BY <1>5, <1>6, <2>1, <2>2
<1>. QED
  BY <1>2, <1>8, <1>9 DEF known

\* The peak is taken somewhere.
LEMMA PeakIsTaken ==
  ASSUME NEW readings \in Seq(Nat \cup {None}), PeakOf(readings) # None
  PROVE  \E i \in Known(readings) : readings[i] = PeakOf(readings)
<1>1. PeakOf(readings) \in ToSet(readings)
  BY PeakFacts
<1>. QED
  BY <1>1 DEF ToSet, Known

\* The first reading is a reading, and none is before it.
LEMMA FirstFacts ==
  ASSUME NEW readings \in Seq(Nat \cup {None})
  PROVE  /\ Known(readings) = {} => FirstOf(readings) = None
         /\ Known(readings) # {} =>
              /\ Min(Known(readings)) \in Known(readings)
              /\ \A i \in Known(readings) : Min(Known(readings)) <= i
              /\ FirstOf(readings) = readings[Min(Known(readings))]
              /\ FirstOf(readings) \in Nat /\ FirstOf(readings) # None
<1> DEFINE known == Known(readings)
<1>1. known \subseteq Nat
  BY DEF Known
<1>2. \A i \in known : readings[i] \in Nat /\ readings[i] # None
  BY DEF Known
<1>3. FirstOf(readings) = IF known = {} THEN None ELSE readings[Min(known)]
  BY DEF FirstOf
<1>. HIDE DEF known
<1>4. ASSUME known # {} PROVE Min(known) \in known /\ \A i \in known : Min(known) <= i
  BY <1>1, <1>4, MinFacts
<1>. QED
  BY <1>2, <1>3, <1>4 DEF known

-----------------------------------------------------------------------------
LEMMA NewestFacts ==
  ASSUME NEW S, NEW s \in Seq(S), NEW n \in Nat
  PROVE  /\ Newest(n, s) \in Seq(S)
         /\ Len(Newest(n, s)) = IF Len(s) > n THEN n ELSE Len(s)
         /\ \A i \in 1..Len(Newest(n, s)) :
              Newest(n, s)[Len(Newest(n, s)) + 1 - i] = s[Len(s) + 1 - i]
<1> DEFINE from == (IF Len(s) > n THEN Len(s) - n ELSE 0) + 1
           r == SubSeq(s, from, Len(s))
<1>1. Len(s) \in Nat /\ from \in Int /\ from >= 1
  OBVIOUS
<1>2. \A i \in from..Len(s) : s[i] \in S
  <2> SUFFICES ASSUME NEW i \in from..Len(s) PROVE s[i] \in S
    OBVIOUS
  <2>1. i \in 1..Len(s)
    BY <1>1
  <2>. QED
    BY <2>1
<1>. HIDE DEF from
<1>3. /\ r \in Seq(S)
      /\ Len(r) = IF from <= Len(s) THEN Len(s) - from + 1 ELSE 0
      /\ \A i \in 1..(Len(s) - from + 1) : r[i] = s[from + i - 1]
  BY <1>1, <1>2, SubSeqProperties
<1>4. Len(r) = (IF Len(s) > n THEN n ELSE Len(s)) /\ Len(r) = Len(s) - from + 1
  <2>1. CASE Len(s) > n
    <3>1. from = Len(s) - n + 1
      BY <2>1 DEF from
    <3>2. from <= Len(s) \/ n = 0
      BY <1>1, <2>1, <3>1
    <3>. QED
      BY <1>1, <1>3, <2>1, <3>1, <3>2
  <2>2. CASE ~(Len(s) > n)
    <3>1. from = 1
      BY <2>2 DEF from
    <3>. QED
      BY <1>1, <1>3, <2>2, <3>1
  <2>. QED
    BY <2>1, <2>2
<1>5. ASSUME NEW i \in 1..Len(r) PROVE r[Len(r) + 1 - i] = s[Len(s) + 1 - i]
  <2>1. Len(r) + 1 - i \in 1..(Len(s) - from + 1)
    BY <1>1, <1>4
  <2>2. from + (Len(r) + 1 - i) - 1 = Len(s) + 1 - i
    BY <1>1, <1>4
  <2>. QED
    BY <1>3, <2>1, <2>2
<1>6. Newest(n, s) = r
  BY DEF Newest, from
<1>. QED
  BY <1>3, <1>4, <1>5, <1>6
=============================================================================
