-------------------------- MODULE ControllerProofs --------------------------
(***************************************************************************)
(* The pure functions of the control law, for every curve that             *)
(* Config::validate accepts; and the invariants of the law and its         *)
(* refinement of DutyGovernor, for every pattern of readings, delays,      *)
(* kicks and failed writes.                                                *)
(***************************************************************************)
EXTENDS Controller, FiniteSetTheorems, TLAPS

LEMMA DutyFacts == \A d \in Duty : d \in Int /\ 0 <= d /\ d <= 100
  BY DEF Duty

LEMMA DutyBetween ==
  \A c, d \in Duty, x \in Int : c <= x /\ x <= d => x \in Duty
  BY DEF Duty

\* The demands of Config::validate, in the form the proofs use.
LEMMA CurveFacts ==
  /\ Len(Curve) \in Nat /\ Len(Curve) >= 2
  /\ \A i \in 1..Len(Curve) :
       /\ Curve[i] \in [temp : Int, duty : Duty]
       /\ Curve[i].temp \in Int /\ Curve[i].duty \in Duty
  /\ \A i, j \in 1..Len(Curve) : i < j => /\ Curve[i].temp < Curve[j].temp
                                          /\ Curve[i].duty <= Curve[j].duty
<1> DEFINE P == [temp : Int, duty : 0..100]
<1>1. /\ Curve \in Seq(P)
      /\ Len(Curve) >= 2
      /\ \A i, j \in 1..Len(Curve) : i < j => /\ Curve[i].temp < Curve[j].temp
                                              /\ Curve[i].duty <= Curve[j].duty
  BY ConfigAssumption DEF CurveValid
<1>2. Len(Curve) \in Nat /\ \A i \in 1..Len(Curve) : Curve[i] \in P
  <2> HIDE DEF P
  <2>. QED
    BY <1>1
<1>3. \A i \in 1..Len(Curve) : Curve[i].temp \in Int /\ Curve[i].duty \in 0..100
  BY <1>2
<1>. QED
  BY <1>1, <1>2, <1>3 DEF Duty

\* The points below a temperature are the first PointsBelow of the curve: the
\* window the source stops at is the one the model interpolates in.
LEMMA PointsBelowSplits ==
  ASSUME NEW temp \in Int
  PROVE  /\ PointsBelow(temp) \in 0..Len(Curve)
         /\ \A j \in 1..Len(Curve) : Curve[j].temp < temp <=> j <= PointsBelow(temp)
<1> DEFINE n == Len(Curve)
           A == {i \in 1..n : Curve[i].temp < temp}
<1>1. n \in Nat /\ \A i \in 1..n : Curve[i].temp \in Int
  BY CurveFacts
<1>2. IsFiniteSet(1..n) /\ Cardinality(1..n) = n
  BY <1>1, FS_Interval
<1>3. IsFiniteSet(A) /\ Cardinality(A) \in Nat /\ Cardinality(A) <= n
  BY <1>2, FS_Subset, FS_CardinalityType
<1>4. ASSUME NEW j \in 1..n, Curve[j].temp < temp
      PROVE  j <= Cardinality(A)
  <2>1. 1..j \subseteq A
    <3> SUFFICES ASSUME NEW i \in 1..j PROVE i \in 1..n /\ Curve[i].temp < temp
      OBVIOUS
    <3>1. i = j \/ i < j
      BY <1>1
    <3>. QED
      BY <3>1, <1>1, <1>4, CurveFacts
  <2>2. Cardinality(1..j) = j
    BY <1>1, FS_Interval
  <2>. QED
    BY <2>1, <2>2, <1>3, FS_Subset
<1>5. ASSUME NEW j \in 1..n, ~(Curve[j].temp < temp)
      PROVE  Cardinality(A) < j
  <2>1. A \subseteq 1..(j - 1)
    <3> SUFFICES ASSUME NEW i \in 1..n, Curve[i].temp < temp PROVE i \in 1..(j - 1)
      OBVIOUS
    <3>1. ~(j < i) /\ i # j
      BY <1>1, <1>5, CurveFacts
    <3>. QED
      BY <3>1, <1>1
  <2>2. IsFiniteSet(1..(j - 1)) /\ Cardinality(1..(j - 1)) = j - 1
    <3>1. j \in Int /\ j >= 1 /\ j - 1 \in Int
      BY <1>1
    <3>. QED
      BY <3>1, FS_Interval
  <2>. QED
    BY <2>1, <2>2, <1>1, <1>3, FS_Subset
<1>6. PointsBelow(temp) = Cardinality(A)
  BY DEF PointsBelow
<1>7. Cardinality(A) \in 0..n
  BY <1>1, <1>3
<1>8. \A j \in 1..n : Curve[j].temp < temp <=> j <= Cardinality(A)
  BY <1>1, <1>3, <1>4, <1>5
<1>. QED
  BY <1>6, <1>7, <1>8

\* Scaling a height by a fraction and rounding down, as a line does.
LEMMA ScaledHeight ==
  ASSUME NEW h \in Nat, NEW w \in Nat \ {0}, NEW x \in Nat, NEW y \in Nat,
         x <= y, y <= w
  PROVE  /\ (h * x) \div w \in 0..h
         /\ (h * x) \div w <= (h * y) \div w
<1>1. h * x \in Nat /\ h * y \in Nat /\ h * x <= h * y /\ h * y <= h * w
  OBVIOUS
<1>2. (h * x) \div w <= (h * y) \div w /\ (h * x) \div w \in Nat
  BY <1>1
<1>3. (h * x) \div w <= h
  BY <1>1
<1>. QED
  BY <1>2, <1>3

\* Between two points the rounded line stays between their duties and does not
\* fall as the temperature rises.
LEMMA OnLineFacts ==
  ASSUME NEW p \in [temp : Int, duty : Duty], NEW q \in [temp : Int, duty : Duty],
         NEW s \in Int, NEW t \in Int,
         p.temp < q.temp, p.duty <= q.duty,
         p.temp <= s, s <= t, t <= q.temp
  PROVE  /\ OnLine(p, q, s) \in p.duty..q.duty
         /\ OnLine(p, q, s) <= OnLine(p, q, t)
<1> DEFINE w == q.temp - p.temp
           x == s - p.temp
           y == t - p.temp
           h == q.duty - p.duty
<1>1. /\ p.duty \in Int /\ q.duty \in Int
      /\ h \in Nat /\ w \in Nat \ {0} /\ x \in Nat /\ y \in Nat /\ x <= y /\ y <= w
  BY DEF Duty
<1>2. OnLine(p, q, s) = p.duty + (h * x) \div w /\ OnLine(p, q, t) = p.duty + (h * y) \div w
  BY DEF OnLine
<1>3. q.duty = p.duty + h
  BY <1>1
<1> HIDE DEF w, x, y, h
<1>4. (h * x) \div w \in 0..h /\ (h * x) \div w <= (h * y) \div w /\ (h * y) \div w \in Int
  BY <1>1, ScaledHeight
<1>5. \A a, b \in Int : a \in 0..h /\ a <= b =>
         /\ p.duty + a \in p.duty..q.duty
         /\ p.duty + a <= p.duty + b
  BY <1>1, <1>3
<1>. QED
  BY <1>1, <1>2, <1>4, <1>5

\* Where a temperature falls on the curve, and what Interpolate then computes.
LEMMA Located ==
  ASSUME NEW temp \in Int
  PROVE  \E i \in 0..Len(Curve) :
           /\ PointsBelow(temp) = i
           /\ \A j \in 1..Len(Curve) : Curve[j].temp < temp <=> j <= i
           /\ i = 0 => Interpolate(temp) = Curve[1].duty
           /\ i = Len(Curve) => Interpolate(temp) = Curve[i].duty
           /\ i # 0 /\ i # Len(Curve) =>
                Interpolate(temp) = OnLine(Curve[i], Curve[i + 1], temp)
<1>1. Len(Curve) # 0
  BY CurveFacts
<1>. QED
  BY <1>1, PointsBelowSplits DEF Interpolate

\* Strictly inside the curve: the two neighbours and the line between them.
LEMMA Inside ==
  ASSUME NEW temp \in Int, NEW i \in 1..(Len(Curve) - 1),
         \A j \in 1..Len(Curve) : Curve[j].temp < temp <=> j <= i
  PROVE  /\ Curve[i] \in [temp : Int, duty : Duty]
         /\ Curve[i + 1] \in [temp : Int, duty : Duty]
         /\ Curve[i].temp \in Int /\ Curve[i + 1].temp \in Int
         /\ Curve[i].temp < Curve[i + 1].temp /\ Curve[i].duty <= Curve[i + 1].duty
         /\ Curve[i].temp <= temp /\ temp <= Curve[i + 1].temp
<1>1. Len(Curve) \in Nat
  BY CurveFacts
<1>2. i \in 1..Len(Curve) /\ i + 1 \in 1..Len(Curve) /\ i < i + 1 /\ ~(i + 1 <= i)
  BY <1>1
<1>3. /\ Curve[i] \in [temp : Int, duty : Duty]
      /\ Curve[i + 1] \in [temp : Int, duty : Duty]
      /\ Curve[i].temp \in Int /\ Curve[i + 1].temp \in Int
      /\ Curve[i].temp < Curve[i + 1].temp /\ Curve[i].duty <= Curve[i + 1].duty
  BY <1>2, CurveFacts
<1>4. Curve[i].temp < temp /\ ~(Curve[i + 1].temp < temp)
  BY <1>2
<1>. QED
  BY <1>3, <1>4

\* An interpolated duty is a duty between its neighbouring points'.
LEMMA InterpolateBetween ==
  ASSUME NEW temp \in Int, NEW i \in 0..Len(Curve), PointsBelow(temp) = i
  PROVE  /\ Interpolate(temp) \in Duty
         /\ i < Len(Curve) => Interpolate(temp) <= Curve[i + 1].duty
         /\ i > 0 => Curve[i].duty <= Interpolate(temp)
<1>1. /\ Len(Curve) \in Nat /\ Len(Curve) >= 2
      /\ \A j \in 1..Len(Curve) : Curve[j].duty \in Duty
  BY CurveFacts
<1>2. /\ \A j \in 1..Len(Curve) : Curve[j].temp < temp <=> j <= i
      /\ i = 0 => Interpolate(temp) = Curve[1].duty
      /\ i = Len(Curve) => Interpolate(temp) = Curve[i].duty
      /\ i # 0 /\ i # Len(Curve) =>
           Interpolate(temp) = OnLine(Curve[i], Curve[i + 1], temp)
  BY Located
<1>3. CASE i = 0
  <2>1. Interpolate(temp) = Curve[1].duty /\ Curve[1].duty \in Duty /\ i + 1 = 1
    BY <1>1, <1>2, <1>3
  <2>. QED
    BY <1>1, <1>3, <2>1, DutyFacts
<1>4. CASE i = Len(Curve)
  <2>1. Interpolate(temp) = Curve[i].duty /\ Curve[i].duty \in Duty
    BY <1>1, <1>2, <1>4
  <2>. QED
    BY <1>1, <1>4, <2>1, DutyFacts
<1>5. CASE i # 0 /\ i # Len(Curve)
  <2>1. i \in 1..(Len(Curve) - 1) /\ i \in 1..Len(Curve) /\ i + 1 \in 1..Len(Curve)
    BY <1>1, <1>5
  <2>2. Interpolate(temp) \in Curve[i].duty..Curve[i + 1].duty
    <3>1. /\ Curve[i] \in [temp : Int, duty : Duty]
          /\ Curve[i + 1] \in [temp : Int, duty : Duty]
          /\ Curve[i].temp < Curve[i + 1].temp /\ Curve[i].duty <= Curve[i + 1].duty
          /\ Curve[i].temp <= temp /\ temp <= Curve[i + 1].temp
      BY <1>2, <2>1, Inside
    <3>2. OnLine(Curve[i], Curve[i + 1], temp) \in Curve[i].duty..Curve[i + 1].duty
      BY <3>1, OnLineFacts
    <3>. QED
      BY <1>2, <1>5, <3>2
  <2>3. Curve[i].duty \in Duty /\ Curve[i + 1].duty \in Duty
    BY <1>1, <2>1
  <2>. QED
    BY <1>5, <2>2, <2>3, DutyFacts, DutyBetween
<1>. QED
  BY <1>3, <1>4, <1>5

\* A hotter reading never gets a lower duty out of interpolate, across the
\* points and the clamps included (controller.rs 32-44).
THEOREM InterpolateMonotone ==
  ASSUME NEW s \in Int, NEW t \in Int, s <= t
  PROVE  Interpolate(s) <= Interpolate(t)
<1>1. PICK i \in 0..Len(Curve) :
        /\ PointsBelow(s) = i
        /\ \A j \in 1..Len(Curve) : Curve[j].temp < s <=> j <= i
        /\ i = 0 => Interpolate(s) = Curve[1].duty
        /\ i = Len(Curve) => Interpolate(s) = Curve[i].duty
        /\ i # 0 /\ i # Len(Curve) => Interpolate(s) = OnLine(Curve[i], Curve[i + 1], s)
  BY Located
<1>2. PICK k \in 0..Len(Curve) :
        /\ PointsBelow(t) = k
        /\ \A j \in 1..Len(Curve) : Curve[j].temp < t <=> j <= k
        /\ k = 0 => Interpolate(t) = Curve[1].duty
        /\ k = Len(Curve) => Interpolate(t) = Curve[k].duty
        /\ k # 0 /\ k # Len(Curve) => Interpolate(t) = OnLine(Curve[k], Curve[k + 1], t)
  BY Located
<1>3. Len(Curve) \in Nat /\ \A j \in 1..Len(Curve) : Curve[j].temp \in Int /\ Curve[j].duty \in Int
  BY CurveFacts, DutyFacts
<1>4. Interpolate(s) \in Int /\ Interpolate(t) \in Int
  <2>1. Interpolate(s) \in Duty /\ Interpolate(t) \in Duty
    BY <1>1, <1>2, InterpolateBetween
  <2>. QED
    BY <2>1, DutyFacts
<1>5. i <= k
  <2>1. i > 0 => i \in 1..Len(Curve)
    BY <1>3
  <2>2. i > 0 => Curve[i].temp < s
    BY <1>1, <2>1
  <2>3. i > 0 => Curve[i].temp < t
    BY <1>3, <2>1, <2>2
  <2>. QED
    BY <1>2, <1>3, <2>1, <2>3
<1>6. CASE i < k
  <2>1. i + 1 \in 1..Len(Curve) /\ k \in 1..Len(Curve) /\ (i + 1 < k \/ i + 1 = k)
    BY <1>3, <1>6
  <2>2. Curve[i + 1].duty <= Curve[k].duty
    <3>1. CASE i + 1 = k
      BY <1>3, <2>1, <3>1
    <3>2. CASE i + 1 < k
      BY <2>1, <3>2, CurveFacts
    <3>. QED
      BY <2>1, <3>1, <3>2
  <2>3. Interpolate(s) <= Curve[i + 1].duty /\ Curve[k].duty <= Interpolate(t)
    <3>1. i < Len(Curve) /\ k > 0
      BY <1>3, <1>6
    <3>. QED
      BY <1>1, <1>2, <3>1, InterpolateBetween
  <2>4. Curve[i + 1].duty \in Int /\ Curve[k].duty \in Int
    BY <1>3, <2>1
  <2>. QED
    BY <1>4, <2>2, <2>3, <2>4
<1>7. CASE i = k /\ i # 0 /\ i # Len(Curve)
  <2>1. i \in 1..(Len(Curve) - 1)
    BY <1>3, <1>7
  <2>2. /\ Curve[i] \in [temp : Int, duty : Duty]
        /\ Curve[i + 1] \in [temp : Int, duty : Duty]
        /\ Curve[i].temp < Curve[i + 1].temp /\ Curve[i].duty <= Curve[i + 1].duty
        /\ Curve[i].temp <= s
    BY <1>1, <2>1, Inside
  <2>3. t <= Curve[i + 1].temp
    BY <1>2, <1>7, <2>1, Inside
  <2>. QED
    BY <1>1, <1>2, <1>7, <2>2, <2>3, OnLineFacts
<1>8. CASE i = k /\ (i = 0 \/ i = Len(Curve))
  BY <1>1, <1>2, <1>4, <1>8
<1>. QED
  BY <1>5, <1>6, <1>7, <1>8

\* The duty asked for is a duty, at least the floor, and grows with the
\* temperature (controller.rs 138).
LEMMA CurveDutyFacts ==
  /\ \A t \in Int : CurveDuty(t) \in FloorPct..100
  /\ \A s, t \in Int : s <= t => CurveDuty(s) <= CurveDuty(t)
<1>1. FloorPct \in Int /\ FloorPct <= 100
  BY ConfigAssumption DEF NumbersValid, MIN_FLOOR_PCT
<1>2. ASSUME NEW t \in Int PROVE Interpolate(t) \in Int /\ Interpolate(t) <= 100
  <2>1. Interpolate(t) \in Duty
    BY PointsBelowSplits, InterpolateBetween
  <2>. QED
    BY <2>1, DutyFacts
<1>3. \A s, t \in Int : s <= t => Interpolate(s) <= Interpolate(t)
  BY InterpolateMonotone
<1>. QED
  BY <1>1, <1>2, <1>3 DEF CurveDuty, Larger

\* A duty has a byte, a larger duty has no smaller byte, and no duty the
\* config allows is written as a stopped fan (controller.rs 47-49,
\* config.rs 7-8).
LEMMA PctToPwmFacts ==
  /\ \A d \in Duty : PctToPwm(d) \in Byte
  /\ \A c, d \in Duty : c <= d => PctToPwm(c) <= PctToPwm(d)
  /\ \A d \in FloorPct..100 : PctToPwm(d) > 0
<1>1. FloorPct \in Int /\ FloorPct >= 10
  BY ConfigAssumption DEF NumbersValid, MIN_FLOOR_PCT
<1>. QED
  BY <1>1 DEF PctToPwm, Duty, Byte

-----------------------------------------------------------------------------
\* What the other facts need to know about the tunables.
LEMMA NumberFacts ==
  /\ FloorPct \in Int /\ 10 <= FloorPct /\ FloorPct <= 100
  /\ StartPct \in Int /\ FloorPct <= StartPct /\ StartPct <= 100
  /\ StartSeconds \in Nat
  /\ DeadbandC \in Nat
  /\ SpindownDelay \in Nat /\ SpindownDelay > 0
  /\ MaxDecrease \in Nat
  /\ Reassert \in Nat /\ Reassert > 0
  /\ PanicAfter \in Nat /\ PanicAfter > 0
  BY ConfigAssumption DEF NumbersValid, MIN_FLOOR_PCT

\* A step starts from a typed state and a reading on the grid: the average, the
\* temperature acted on and the curve are then typed too, and the curve covers
\* the temperature to within the deadband.
LEMMA CurveStep ==
  ASSUME TypeOK, CurveIsRecent,
         NEW reading \in Temps \cup {None}, NEW average \in EmaAfter(reading),
         NEW smoothed, smoothed = IF PanicAt(reading) THEN PANIC_TEMP_C ELSE average,
         NEW curve, curve = CurveAfter(smoothed, PanicAt(reading)),
         NEW at, at = IF PanicAt(reading) \/ Moved(smoothed)
                      THEN smoothed ELSE appliedTemp
  PROVE  /\ average \in Temps \cup {None}
         /\ smoothed \in Temps \cup {None, PANIC_TEMP_C}
         /\ at \in Temps \cup {None, PANIC_TEMP_C}
         /\ curve \in FloorPct..100
         /\ PanicAt(reading) => curve = 100
         /\ at = None => curve = FloorPct /\ average = None
         /\ at # None => curve >= CurveDuty(at)
         /\ smoothed = None => average = None
         /\ smoothed # None =>
              at # None /\ (Distance(smoothed, at) < DeadbandC \/ smoothed = at)
         /\ ~PanicAt(reading) => smoothed = average
<1>1. average \in Temps \cup {None} /\ (average = None => reading = None /\ ema = None)
  BY NoneAssumption, TempsAssumption DEF TypeOK, EmaAfter, Smoothed
<1>2. PANIC_TEMP_C \in Int /\ PANIC_TEMP_C # None
  BY NoneAssumption DEF PANIC_TEMP_C
<1>3. FloorPct..100 \subseteq Int /\ 100 \in FloorPct..100 /\ FloorPct \in FloorPct..100
  BY NumberFacts
<1>4. CASE PanicAt(reading)
  <2>1. smoothed = PANIC_TEMP_C /\ at = PANIC_TEMP_C /\ curve = 100
    BY <1>4 DEF CurveAfter
  <2>2. CurveDuty(PANIC_TEMP_C) <= 100
    BY <1>2, CurveDutyFacts
  <2>. QED
    BY <1>1, <1>2, <1>3, <1>4, <2>1, <2>2
<1>5. CASE ~PanicAt(reading) /\ Moved(average)
  <2>1. smoothed = average /\ at = average /\ curve = CurveDuty(average) /\ average # None
    BY <1>5 DEF CurveAfter, Moved
  <2>2. average \in Int
    BY <1>1, <2>1, TempsAssumption
  <2>3. CurveDuty(average) \in FloorPct..100
    BY <2>2, CurveDutyFacts
  <2>. QED
    BY <1>1, <1>3, <1>5, <2>1, <2>3
<1>6. CASE ~PanicAt(reading) /\ ~Moved(average)
  <2>1. smoothed = average /\ at = appliedTemp /\ curve = curvePct
    BY <1>6 DEF CurveAfter
  <2>2. average = None \/ (appliedTemp # None /\ ~(Distance(average, appliedTemp) >= DeadbandC))
    BY <1>6 DEF Moved
  <2>3. average # None /\ appliedTemp # None => Distance(average, appliedTemp) < DeadbandC
    <3> SUFFICES ASSUME average # None, appliedTemp # None
                 PROVE  Distance(average, appliedTemp) < DeadbandC
      OBVIOUS
    <3>1. average \in Int /\ appliedTemp \in Int
      BY <1>1, <1>2, TempsAssumption DEF TypeOK
    <3>2. Distance(average, appliedTemp) \in Int
      BY <3>1 DEF Distance
    <3>. QED
      BY <2>2, <3>2, NumberFacts
  <2>. QED
    BY <1>1, <1>6, <2>1, <2>2, <2>3 DEF CurveIsRecent, TypeOK
<1>. QED
  BY <1>4, <1>5, <1>6

\* Moving the applied duty: it stays between the floor and full speed and never
\* stops short of the curve; it falls only when that is allowed, within the
\* slew limit; and a running kick is honoured.
LEMMA AppliedStep ==
  ASSUME TypeOK, NEW curve \in FloorPct..100
  PROVE  /\ AppliedAfter(Target(curve)) \in FloorPct..100
         /\ AppliedAfter(Target(curve)) >= curve
         /\ Kicking => AppliedAfter(Target(curve)) >= StartPct
         /\ AppliedAfter(Target(curve)) < appliedPct =>
              /\ sinceIncrease = SpindownDelay
              /\ sinceStep # None
              /\ appliedPct - AppliedAfter(Target(curve)) <= MaxDecrease * sinceStep
         /\ AppliedAfter(Target(curve)) > appliedPct =>
              AppliedAfter(Target(curve)) = Target(curve) /\ Rises(Target(curve))
         /\ AppliedAfter(Target(curve)) <= appliedPct => ~Rises(Target(curve))
<1> DEFINE t == Target(curve)
<1>1. t \in Int /\ FloorPct <= t /\ t <= 100 /\ t >= curve /\ (Kicking => t >= StartPct)
  BY NumberFacts DEF Target, Kicked
<1>2. appliedPct \in Int /\ FloorPct <= appliedPct /\ appliedPct <= 100
      /\ sinceIncrease \in Int /\ sinceIncrease <= SpindownDelay
  BY NumberFacts DEF TypeOK
<1>3. Dt \in Nat /\ (sinceStep = None => Dt = 0) /\ (sinceStep # None => Dt = sinceStep)
  BY TimeAssumption DEF Dt, TypeOK
<1>4. MaxDecrease * Dt \in Nat
  BY <1>3, NumberFacts
<1> HIDE DEF t
<1>5. CASE Rises(t)
  <2>1. AppliedAfter(t) = t /\ t > appliedPct
    BY <1>5 DEF AppliedAfter, Rises
  <2>. QED
    BY <1>1, <1>2, <1>5, <2>1 DEF t
<1>6. CASE ~Rises(t) /\ Falls(t)
  <2>1. /\ AppliedAfter(t) = Larger(appliedPct - MaxDecrease * Dt, t)
        /\ t < appliedPct /\ ~Kicking /\ sinceIncrease >= SpindownDelay
    BY <1>6 DEF AppliedAfter, Falls
  <2>2. /\ AppliedAfter(t) \in Int /\ AppliedAfter(t) >= t /\ AppliedAfter(t) <= appliedPct
        /\ appliedPct - AppliedAfter(t) <= MaxDecrease * Dt
    BY <1>1, <1>2, <1>4, <2>1 DEF Larger
  <2>3. sinceIncrease = SpindownDelay
    BY <1>2, <2>1, NumberFacts
  <2>4. AppliedAfter(t) < appliedPct => Dt # 0
    <3>1. Dt = 0 => MaxDecrease * Dt = 0
      BY NumberFacts
    <3>. QED
      BY <1>2, <2>2, <3>1
  <2>. QED
    BY <1>1, <1>2, <1>3, <1>6, <2>1, <2>2, <2>3, <2>4, NumberFacts DEF t
<1>7. CASE ~Rises(t) /\ ~Falls(t)
  <2>1. AppliedAfter(t) = appliedPct /\ ~(t > appliedPct)
    BY <1>7 DEF AppliedAfter, Rises
  <2>. QED
    BY <1>1, <1>2, <1>7, <2>1, NumberFacts DEF t
<1>. QED
  BY <1>5, <1>6, <1>7

-----------------------------------------------------------------------------
LEMMA InitInvariant == Init => IInv
<1> SUFFICES ASSUME Init PROVE IInv
  OBVIOUS
<1>1. PctToPwm(FloorPct) \in Byte
  BY NumberFacts, PctToPwmFacts DEF Duty
<1>2. TypeOK
  BY <1>1, NumberFacts DEF Init, TypeOK
<1>3. CurveIsRecent
  BY NumberFacts DEF Init, CurveIsRecent
<1>. QED
  BY <1>2, <1>3 DEF Init, BelievedIsApplied, IInv

LEMMA ElapseInvariant ==
  ASSUME IInv, NEW d \in Delays, Elapse(d)
  PROVE  IInv'
<1>1. d \in Nat
  BY TimeAssumption
<1>2. /\ sinceStep' \in 0..MaxGap \cup {None}
      /\ sinceIncrease' \in 0..SpindownDelay
      /\ sinceWrite' \in 0..Reassert
      /\ kickLeft' \in 0..StartSeconds
  <2>1. sinceStep' \in 0..MaxGap \cup {None}
    BY <1>1, TimeAssumption, NoneAssumption DEF Elapse, IInv, TypeOK
  <2>2. sinceIncrease' \in 0..SpindownDelay /\ sinceWrite' \in 0..Reassert
    BY <1>1, NumberFacts DEF Elapse, IInv, TypeOK, Smaller
  <2>3. kickLeft' \in 0..StartSeconds
    BY <1>1, NumberFacts DEF Elapse, IInv, TypeOK, Larger
  <2>. QED
    BY <2>1, <2>2, <2>3
<1>3. UNCHANGED <<lawVars, lastWritten, decision>> /\ call' = "elapse"
  BY DEF Elapse
<1>. QED
  BY <1>2, <1>3 DEF IInv, TypeOK, CurveIsRecent, BelievedIsApplied, lawVars

LEMMA KickInvariant ==
  ASSUME IInv, Kick
  PROVE  IInv'
<1>1. kickLeft' \in 0..StartSeconds
  BY NumberFacts DEF Kick
<1>. QED
  BY <1>1 DEF Kick, IInv, TypeOK, CurveIsRecent, BelievedIsApplied, lawVars

LEMMA WriteFailedInvariant ==
  ASSUME IInv, WriteFailed
  PROVE  IInv'
  BY DEF WriteFailed, IInv, TypeOK, CurveIsRecent, BelievedIsApplied, lawVars, timeVars

LEMMA StepInvariant ==
  ASSUME IInv, NEW reading \in Temps \cup {None}, NEW readback,
         Step(reading, readback)
  PROVE  IInv'
<1>1. PICK average \in EmaAfter(reading) : StepWith(reading, readback, average)
  BY DEF Step
<1> DEFINE panic    == PanicAt(reading)
           smoothed == IF panic THEN PANIC_TEMP_C ELSE average
           curve    == CurveAfter(smoothed, panic)
           at       == IF panic \/ Moved(smoothed) THEN smoothed ELSE appliedTemp
           applied  == AppliedAfter(Target(curve))
           pwm      == PctToPwm(applied)
           write    == MustWrite(pwm, readback)
<1>2. /\ ema' = average
      /\ sensorFailures' = FailuresAfter(reading)
      /\ curvePct' = curve
      /\ appliedTemp' = at
      /\ appliedPct' = applied
      /\ sinceIncrease' = IF Rises(Target(curve)) /\ ~Kicked(curve) THEN 0 ELSE sinceIncrease
      /\ lastWritten' = IF write THEN pwm ELSE lastWritten
      /\ sinceWrite' = IF write THEN 0 ELSE sinceWrite
      /\ decision' = [pwm |-> pwm, write |-> write, smoothed |-> smoothed, panic |-> panic]
      /\ sinceStep' = 0
      /\ call' = "step"
      /\ kickLeft' = kickLeft
  BY <1>1 DEF StepWith
<1>3. /\ average \in Temps \cup {None}
      /\ smoothed \in Temps \cup {None, PANIC_TEMP_C}
      /\ at \in Temps \cup {None, PANIC_TEMP_C}
      /\ curve \in FloorPct..100
      /\ panic => curve = 100
      /\ at = None => curve = FloorPct /\ average = None
      /\ at # None => curve >= CurveDuty(at)
      /\ smoothed = None => average = None
      /\ smoothed # None =>
           at # None /\ (Distance(smoothed, at) < DeadbandC \/ smoothed = at)
      /\ ~panic => smoothed = average
  BY CurveStep DEF IInv
<1>4. panic \in BOOLEAN /\ write \in BOOLEAN
  BY DEF PanicAt, MustWrite, ForeignWrite
<1> HIDE DEF panic, smoothed, curve, at
<1>5. applied \in FloorPct..100 /\ applied >= curve
  BY <1>3, AppliedStep DEF IInv
<1>6. sensorFailures' \in 0..PanicAfter
  BY <1>2, NumberFacts DEF FailuresAfter, IInv, TypeOK, Smaller
<1> HIDE DEF applied
<1>7. pwm \in Byte
  <2>1. applied \in Duty
    BY <1>5, NumberFacts DEF Duty
  <2>. QED
    BY <2>1, PctToPwmFacts
<1> HIDE DEF pwm
<1>8. ~write => lastWritten = pwm
  BY DEF MustWrite
<1> HIDE DEF write
<1>9. TypeOK'
  <2>1. sinceStep' \in 0..MaxGap \cup {None}
    BY <1>2, TimeAssumption
  <2>2. sinceIncrease' \in 0..SpindownDelay /\ sinceWrite' \in 0..Reassert
    BY <1>2, NumberFacts DEF IInv, TypeOK
  <2>3. lastWritten' \in Byte \cup {None} /\ kickLeft' \in 0..StartSeconds
    BY <1>2, <1>7 DEF IInv, TypeOK
  <2>4. decision' \in [pwm : Byte, write : BOOLEAN,
                       smoothed : Temps \cup {None, PANIC_TEMP_C}, panic : BOOLEAN]
    BY <1>2, <1>3, <1>4, <1>7
  <2>. QED
    BY <1>2, <1>3, <1>5, <1>6, <2>1, <2>2, <2>3, <2>4 DEF TypeOK
<1>10. CurveIsRecent'
  <2>1. decision'.smoothed = smoothed /\ decision'.panic = panic
    BY <1>2
  <2>2. panic <=> sensorFailures' = PanicAfter
    BY <1>2, <1>6, NumberFacts DEF panic, PanicAt
  <2>. QED
    BY <1>2, <1>3, <1>5, <2>1, <2>2 DEF CurveIsRecent
<1>11. BelievedIsApplied'
  <2>1. lastWritten' = pwm
    BY <1>2, <1>8
  <2>. QED
    BY <1>2, <2>1 DEF BelievedIsApplied, pwm
<1>. QED
  BY <1>9, <1>10, <1>11 DEF IInv

LEMMA NextInvariant == IInv /\ [Next]_controllerVars => IInv'
<1> SUFFICES ASSUME IInv, [Next]_controllerVars PROVE IInv'
  OBVIOUS
<1>1. CASE Passing
  BY <1>1, ElapseInvariant DEF Passing
<1>2. CASE Kick
  BY <1>2, KickInvariant
<1>3. CASE WriteFailed
  BY <1>3, WriteFailedInvariant
<1>4. CASE SomeStep
  BY <1>4, StepInvariant DEF SomeStep
<1>5. CASE UNCHANGED controllerVars
  BY <1>5 DEF controllerVars, lawVars, timeVars, IInv, TypeOK, CurveIsRecent,
              BelievedIsApplied
<1>. QED
  BY <1>1, <1>2, <1>3, <1>4, <1>5 DEF Next

\* The inductive invariant holds: types, the duty covers the curve as last
\* read, the curve was read within the deadband, and the byte believed to be on
\* the device is the applied duty's.
THEOREM Invariant == Spec => []IInv
  BY InitInvariant, NextInvariant, PTL DEF Spec

\* Type correctness of the control law (controller.rs 53-65).
THEOREM TypeCorrect == Spec => []TypeOK
<1>1. IInv => TypeOK
  BY DEF IInv
<1>. QED
  BY <1>1, Invariant, PTL

\* The duty a decision needs is one CurveDuty gives within the deadband.
LEMMA RequiredIsCovered == IInv => DutyCoversTemperature
<1> SUFFICES ASSUME IInv PROVE DutyCoversTemperature
  OBVIOUS
<1>1. appliedPct \in Int /\ curvePct \in Int /\ appliedPct >= FloorPct /\ appliedPct >= curvePct
  BY NumberFacts DEF IInv, TypeOK, CurveIsRecent
<1>2. CASE decision.panic
  BY <1>1, <1>2 DEF IInv, CurveIsRecent, DutyCoversTemperature, RequiredDuty
<1>3. CASE ~decision.panic /\ decision.smoothed = None
  BY <1>1, <1>3 DEF DutyCoversTemperature, RequiredDuty
<1>4. CASE ~decision.panic /\ decision.smoothed # None
  <2> DEFINE s == decision.smoothed
  <2>1. /\ appliedTemp # None /\ curvePct >= CurveDuty(appliedTemp)
        /\ Distance(s, appliedTemp) < DeadbandC \/ s = appliedTemp
    BY <1>4 DEF IInv, CurveIsRecent
  <2>2. s \in Int /\ appliedTemp \in Int
    <3>1. s \in Temps \cup {None, PANIC_TEMP_C} /\ appliedTemp \in Temps \cup {None, PANIC_TEMP_C}
      BY DEF IInv, TypeOK
    <3>2. \A x \in Temps \cup {None, PANIC_TEMP_C} : x # None => x \in Int
      BY TempsAssumption DEF PANIC_TEMP_C
    <3>3. s # None
      BY <1>4
    <3> HIDE DEF s
    <3>. QED
      BY <2>1, <3>1, <3>2, <3>3
  <2> HIDE DEF s
  <2>3. s - DeadbandC \in Int /\ s - DeadbandC <= appliedTemp
    BY <2>1, <2>2, NumberFacts DEF Distance
  <2>4. CurveDuty(s - DeadbandC) <= CurveDuty(appliedTemp)
    BY <2>2, <2>3, CurveDutyFacts
  <2>5. CurveDuty(s - DeadbandC) \in Int /\ CurveDuty(appliedTemp) \in Int
    BY <2>2, <2>3, CurveDutyFacts, NumberFacts
  <2>. QED
    BY <1>1, <1>4, <2>1, <2>4, <2>5 DEF DutyCoversTemperature, RequiredDuty, s
<1>. QED
  BY <1>2, <1>3, <1>4

\* Whatever the readings, delays, kicks and failed writes were, the duty covers
\* the temperature last acted on to within the deadband, and is full speed
\* without a CPU sensor (controller.rs 129-167).
THEOREM DutyAlwaysCovers == Spec => []DutyCoversTemperature
  BY Invariant, RequiredIsCovered, PTL

LEMMA StepAccounts ==
  ASSUME IInv, NEW reading \in Temps \cup {None}, NEW readback,
         Step(reading, readback)
  PROVE  StepIsAccounted'
<1>1. PICK average \in EmaAfter(reading) : StepWith(reading, readback, average)
  BY DEF Step
<1> DEFINE panic    == PanicAt(reading)
           smoothed == IF panic THEN PANIC_TEMP_C ELSE average
           curve    == CurveAfter(smoothed, panic)
           applied  == AppliedAfter(Target(curve))
           pwm      == PctToPwm(applied)
           write    == MustWrite(pwm, readback)
<1>2. /\ appliedPct' = applied
      /\ lastWritten' = IF write THEN pwm ELSE lastWritten
      /\ sinceWrite' = IF write THEN 0 ELSE sinceWrite
      /\ decision' = [pwm |-> pwm, write |-> write, smoothed |-> smoothed, panic |-> panic]
      /\ kickLeft' = kickLeft
  BY <1>1 DEF StepWith
<1>3. curve \in FloorPct..100
  BY CurveStep DEF IInv
<1> HIDE DEF curve
<1>4. kickLeft' > 0 => appliedPct' >= StartPct
  BY <1>2, <1>3, AppliedStep DEF IInv, Kicking
<1> HIDE DEF applied
<1>5. ~write => lastWritten = pwm /\ ~(sinceWrite >= Reassert)
  BY DEF MustWrite
<1> HIDE DEF write
<1>6. lastWritten' = pwm /\ decision'.pwm = pwm
  BY <1>2, <1>5
<1>7. sinceWrite' < Reassert
  BY <1>2, <1>5, NumberFacts DEF IInv, TypeOK
<1>. QED
  BY <1>2, <1>4, <1>6, <1>7 DEF StepIsAccounted

\* Each step accounts for its byte: it believes the one it decided, wrote it within
\* the reassert, and holds a running kick (controller.rs 142-190).
THEOREM StepsAreAccounted == Spec => []StepIsAccounted
<1>1. Init => StepIsAccounted
  BY DEF Init, StepIsAccounted
<1>2. IInv /\ StepIsAccounted /\ [Next]_controllerVars => StepIsAccounted'
  <2> SUFFICES ASSUME IInv, StepIsAccounted, [Next]_controllerVars PROVE StepIsAccounted'
    OBVIOUS
  <2>1. CASE Passing
    BY <2>1 DEF Passing, Elapse, StepIsAccounted
  <2>2. CASE Kick
    BY <2>2 DEF Kick, StepIsAccounted
  <2>3. CASE WriteFailed
    BY <2>3 DEF WriteFailed, StepIsAccounted
  <2>4. CASE SomeStep
    BY <2>4, StepAccounts DEF SomeStep
  <2>5. CASE UNCHANGED controllerVars
    BY <2>5 DEF controllerVars, lawVars, timeVars, StepIsAccounted
  <2>. QED
    BY <2>1, <2>2, <2>3, <2>4, <2>5 DEF Next
<1>. QED
  BY <1>1, <1>2, Invariant, PTL DEF Spec

\* The controller never believes the device holds another byte than the applied
\* duty's (controller.rs 92-94, 177-190).
THEOREM BeliefIsSound == Spec => []BelievedIsApplied
<1>1. IInv => BelievedIsApplied
  BY DEF IInv
<1>. QED
  BY <1>1, Invariant, PTL

-----------------------------------------------------------------------------
LEMMA RequiredIsCoveredNext == IInv' => DutyCoversTemperature'
  BY RequiredIsCovered, PTL

LEMMA InitRefines == Init => Governor!GInit
  BY DEF Init, Governor!GInit

\* A step of the control law is a decision of the governor.
LEMMA StepRefines ==
  ASSUME IInv, IInv', NEW reading \in Temps \cup {None}, NEW readback,
         Step(reading, readback)
  PROVE  Governor!Decide
<1>1. PICK average \in EmaAfter(reading) : StepWith(reading, readback, average)
  BY DEF Step
<1> DEFINE panic    == PanicAt(reading)
           smoothed == IF panic THEN PANIC_TEMP_C ELSE average
           curve    == CurveAfter(smoothed, panic)
           target   == Target(curve)
<1>2. /\ ema' = average
      /\ sensorFailures' = FailuresAfter(reading)
      /\ curvePct' = curve
      /\ appliedPct' = AppliedAfter(target)
      /\ sinceIncrease' = IF Rises(target) /\ ~Kicked(curve) THEN 0 ELSE sinceIncrease
      /\ sinceStep' = 0
  BY <1>1 DEF StepWith
<1>3. curve \in FloorPct..100
  BY <1>2 DEF IInv, TypeOK
<1> HIDE DEF curve
<1>4. /\ AppliedAfter(target) < appliedPct =>
           /\ sinceIncrease = SpindownDelay
           /\ sinceStep # None
           /\ appliedPct - AppliedAfter(target) <= MaxDecrease * sinceStep
      /\ AppliedAfter(target) > appliedPct =>
           AppliedAfter(target) = target /\ Rises(target)
      /\ AppliedAfter(target) <= appliedPct => ~Rises(target)
  BY <1>3, AppliedStep DEF IInv
<1>5. Kicked(curve) => target = StartPct
  BY DEF Target
<1> HIDE DEF target
<1>6. /\ appliedPct \in Int /\ appliedPct' \in Int /\ appliedPct' <= 100
  BY NumberFacts DEF IInv, TypeOK
<1>7. Governor!Rise \/ Governor!Stay \/ Governor!Fall
  <2>1. CASE appliedPct' > appliedPct
    BY <1>2, <1>4, <1>5, <2>1 DEF Governor!Rise
  <2>2. CASE appliedPct' = appliedPct
    <3>1. ~Rises(target)
      BY <1>2, <1>4, <1>6, <2>2
    <3>. QED
      BY <1>2, <2>2, <3>1 DEF Governor!Stay
  <2>3. CASE appliedPct' < appliedPct
    <3>1. ~Rises(target)
      BY <1>2, <1>4, <1>6, <2>3
    <3>. QED
      BY <1>2, <1>4, <2>3, <3>1 DEF Governor!Fall
  <2>. QED
    BY <1>6, <2>1, <2>2, <2>3
<1>8. Governor!Required(decision'.smoothed, decision'.panic) = RequiredDuty'
  BY DEF Governor!Required, RequiredDuty
<1>9. appliedPct' \in RequiredDuty'..100
  <2>1. decision'.smoothed \in Temps \cup {None, PANIC_TEMP_C}
    BY DEF IInv, TypeOK
  <2>2. \A x \in Temps \cup {None, PANIC_TEMP_C} : x # None => x - DeadbandC \in Int
    BY TempsAssumption, NumberFacts DEF PANIC_TEMP_C
  <2>3. decision'.smoothed # None => CurveDuty(decision'.smoothed - DeadbandC) \in Int
    BY <2>1, <2>2, CurveDutyFacts, NumberFacts
  <2>4. RequiredDuty' \in Int
    BY <2>3, NumberFacts DEF RequiredDuty
  <2>5. appliedPct' >= RequiredDuty'
    BY RequiredIsCoveredNext DEF DutyCoversTemperature
  <2>. QED
    BY <1>6, <2>4, <2>5
<1>10. decision'.smoothed = None => decision.smoothed = None
  <2> SUFFICES ASSUME decision'.smoothed = None PROVE decision.smoothed = None
    OBVIOUS
  <2>1. ema' = None
    BY DEF IInv, CurveIsRecent
  <2>2. reading = None /\ ema = None
    BY <1>2, <2>1, NoneAssumption, TempsAssumption DEF EmaAfter, Smoothed, IInv, TypeOK
  <2>3. ~decision'.panic
    <3>1. PANIC_TEMP_C # None
      BY NoneAssumption DEF PANIC_TEMP_C
    <3>2. decision'.smoothed = smoothed /\ decision'.panic = panic
      BY <1>1 DEF StepWith
    <3>. QED
      BY <3>1, <3>2
  <2>4. ~decision.panic
    <3>1. sensorFailures' # PanicAfter
      BY <2>3 DEF IInv, CurveIsRecent
    <3>2. sensorFailures' = Smaller(sensorFailures + 1, PanicAfter)
      BY <1>2, <2>2 DEF FailuresAfter
    <3>3. sensorFailures # PanicAfter
      BY <3>1, <3>2, NumberFacts DEF Smaller, IInv, TypeOK
    <3>. QED
      BY <3>3 DEF IInv, CurveIsRecent
  <2>. QED
    BY <2>2, <2>4 DEF IInv, CurveIsRecent
<1>11. decision'.smoothed \in Temps \cup {PANIC_TEMP_C} \cup {None} /\ decision'.panic \in BOOLEAN
  BY DEF IInv, TypeOK
<1>. QED
  BY <1>2, <1>7, <1>8, <1>9, <1>10, <1>11 DEF Governor!Decide

LEMMA NextRefines ==
  IInv /\ IInv' /\ [Next]_controllerVars => [Governor!GNext]_(Governor!governorVars)
<1> SUFFICES ASSUME IInv, IInv', [Next]_controllerVars
             PROVE  [Governor!GNext]_(Governor!governorVars)
  OBVIOUS
<1>1. CASE Passing
  <2>1. PICK d \in Delays : Elapse(d)
    BY <1>1 DEF Passing
  <2>2. Governor!Pass(d)
    BY <2>1 DEF Elapse, Governor!Pass, Smaller, lawVars
  <2>. QED
    BY <2>2 DEF Governor!GNext
<1>2. CASE SomeStep
  <2>1. Governor!Decide
    BY <1>2, StepRefines DEF SomeStep
  <2>. QED
    BY <2>1 DEF Governor!GNext
<1>3. CASE Kick
  BY <1>3 DEF Kick, Governor!governorVars, lawVars
<1>4. CASE WriteFailed
  BY <1>4 DEF WriteFailed, Governor!governorVars, lawVars, timeVars
<1>5. CASE UNCHANGED controllerVars
  BY <1>5 DEF controllerVars, Governor!governorVars, lawVars, timeVars
<1>. QED
  BY <1>1, <1>2, <1>3, <1>4, <1>5 DEF Next

\* The control law implements the governor: covered temperature, slow and late
\* descents, full speed without a sensor (controller.rs 129-167).
THEOREM Refinement == Spec => ImplementsGovernor
<1>1. IInv /\ IInv' /\ [Next]_controllerVars => [Governor!GNext]_(Governor!governorVars)
  BY NextRefines
<1>. QED
  BY <1>1, InitRefines, Invariant, PTL DEF Spec, ImplementsGovernor, Governor!GSpec
=============================================================================
