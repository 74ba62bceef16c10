---------------------------- MODULE ScreenProofs ----------------------------
(***************************************************************************)
(* What the dashboard draws is what was read, for any fans, readings,      *)
(* lengths of the history and sizes of the terminal; and what the report   *)
(* of a stress test says of a fan is what its samples bear out, for any    *)
(* plan, readings and intervals.                                           *)
(***************************************************************************)
EXTENDS Screen, Report, SeriesProofs

Snapshots == [Fans -> FanRpms \cup {Gone}]

\* The history of a fan is what the last snapshots had of it.
Remembered(readings, snapshots, f) ==
  /\ readings \in Seq(FanRpms)
  /\ Len(readings) <= Len(snapshots)
  /\ \A k \in 1..Len(readings) :
       readings[Len(readings) + 1 - k] = snapshots[Len(snapshots) + 1 - k][f]

HistoryInv ==
  /\ width \in Widths
  /\ seen \in Seq(Snapshots)
  /\ DOMAIN histories \subseteq Fans
  /\ \A f \in DOMAIN histories : Remembered(histories[f], seen, f)

\* The snapshot with counters before the last snapshot.
Previous == IF throttle = None THEN Len(counted) ELSE Len(counted) - 1

\* The last good count is its, if that was good; and there is none without such a snapshot.
GoodInv ==
  /\ Previous >= 1 /\ throttles[Previous] = counted[Previous] => lastGood = throttles[Previous]
  /\ lastGood # None => Previous >= 1

\* A count is what there was or zero, and the last two are in order.
ThrottleInv ==
  /\ events \in Nat
  /\ throttle \in Nat \cup {None}
  /\ throttles \in Seq(Nat) /\ counted \in Seq(Nat)
  /\ Len(throttles) = Len(counted)
  /\ \A i \in 1..Len(counted) : counted[i] <= events /\ throttles[i] \in {0, counted[i]}
  /\ Len(counted) >= 2 => counted[Len(counted) - 1] <= counted[Len(counted)]
  /\ throttle # None => Len(throttles) >= 1 /\ throttles[Len(throttles)] = throttle
  /\ GoodInv

ScreenInv == HistoryInv /\ ThrottleInv
-----------------------------------------------------------------------------
\* One more at the end, and the oldest forgotten when there are too many.
Longer(next, s, e) ==
  /\ Len(next) = IF Len(s) + 1 > HISTORY THEN HISTORY ELSE Len(s) + 1
  /\ \A k \in 1..Len(next) :
       next[Len(next) + 1 - k] = IF k = 1 THEN e ELSE s[Len(s) + 2 - k]

LEMMA LengthenedFacts ==
  ASSUME NEW S, NEW s \in Seq(S), NEW e \in S
  PROVE  Lengthened(s, e) \in Seq(S) /\ Longer(Lengthened(s, e), s, e)
<1> DEFINE longer == Append(s, e)
           next == Newest(HISTORY, longer)
<1>1. HISTORY \in Nat /\ HISTORY >= 2
  BY ScreenAssumption
<1>2. /\ longer \in Seq(S) /\ Len(longer) = Len(s) + 1 /\ Len(s) \in Nat
      /\ longer[Len(s) + 1] = e
      /\ \A i \in 1..Len(s) : longer[i] = s[i]
  BY AppendProperties
<1>. HIDE DEF longer
<1>3. /\ next \in Seq(S)
      /\ Len(next) = IF Len(longer) > HISTORY THEN HISTORY ELSE Len(longer)
      /\ \A k \in 1..Len(next) : next[Len(next) + 1 - k] = longer[Len(longer) + 1 - k]
  BY <1>1, <1>2, NewestFacts
<1>4. Lengthened(s, e) = next
  BY DEF Lengthened, longer
<1>. HIDE DEF next
<1>5. Len(next) = IF Len(s) + 1 > HISTORY THEN HISTORY ELSE Len(s) + 1
  BY <1>2, <1>3
<1>6. Len(next) \in Nat /\ Len(next) <= Len(s) + 1
  BY <1>1, <1>2, <1>5
<1>7. ASSUME NEW k \in 1..Len(next)
      PROVE  next[Len(next) + 1 - k] = IF k = 1 THEN e ELSE s[Len(s) + 2 - k]
  <2>1. next[Len(next) + 1 - k] = longer[Len(s) + 2 - k]
    BY <1>2, <1>3
  <2>2. CASE k = 1
    <3>1. Len(s) + 2 - k = Len(s) + 1
      BY <1>2, <2>2
    <3>. QED
      BY <1>2, <2>1, <2>2, <3>1
  <2>3. CASE k # 1
    <3>1. Len(s) + 2 - k \in 1..Len(s)
      BY <1>2, <1>6, <2>3
    <3>. QED
      BY <1>2, <2>1, <2>3, <3>1
  <2>. QED
    BY <2>2, <2>3
<1>. QED
  BY <1>3, <1>4, <1>5, <1>7 DEF Longer

\* A reading more in the history, and a snapshot more.
LEMMA RememberedGoesOn ==
  ASSUME NEW snapshots \in Seq(Snapshots), NEW snapshot \in Snapshots,
         NEW f \in Fans, snapshot[f] # Gone,
         NEW readings, Remembered(readings, snapshots, f)
  PROVE  Remembered(Lengthened(readings, snapshot[f]), Lengthened(snapshots, snapshot), f)
<1> DEFINE r == Lengthened(readings, snapshot[f])
           s == Lengthened(snapshots, snapshot)
<1>1. snapshot[f] \in FanRpms
  BY DEF Snapshots
<1>2. readings \in Seq(FanRpms) /\ Len(readings) <= Len(snapshots)
  BY DEF Remembered
<1>3. Len(readings) \in Nat /\ Len(snapshots) \in Nat /\ HISTORY \in Nat
  BY <1>2, ScreenAssumption
<1>4. r \in Seq(FanRpms) /\ Longer(r, readings, snapshot[f]) /\ Longer(s, snapshots, snapshot)
  BY <1>1, <1>2, LengthenedFacts
<1>. HIDE DEF r, s
<1>5. Len(r) \in Nat /\ Len(s) \in Nat /\ Len(r) <= Len(s) /\ Len(r) <= Len(readings) + 1
  BY <1>2, <1>3, <1>4 DEF Longer
<1>6. ASSUME NEW k \in 1..Len(r) PROVE r[Len(r) + 1 - k] = s[Len(s) + 1 - k][f]
  <2>1. k \in 1..Len(s)
    BY <1>5
  <2>2. CASE k = 1
    BY <1>4, <2>1, <2>2 DEF Longer
  <2>3. CASE k # 1
    <3>1. k - 1 \in 1..Len(readings)
          /\ Len(readings) + 1 - (k - 1) = Len(readings) + 2 - k
          /\ Len(snapshots) + 1 - (k - 1) = Len(snapshots) + 2 - k
      BY <1>3, <1>5, <2>3
    <3>2. readings[Len(readings) + 2 - k] = snapshots[Len(snapshots) + 2 - k][f]
      BY <3>1 DEF Remembered
    <3>. QED
      BY <1>4, <2>1, <2>3, <3>2 DEF Longer
  <2>. QED
    BY <2>2, <2>3
<1>7. Remembered(r, s, f)
  BY <1>4, <1>5, <1>6 DEF Remembered
<1>. QED
  BY <1>7 DEF r, s

LEMMA InitScreen == ScreenInit => ScreenInv
<1> SUFFICES ASSUME ScreenInit PROVE ScreenInv
  OBVIOUS
<1>1. HistoryInv
  BY DEF ScreenInit, HistoryInv
<1>2. ThrottleInv
  BY DEF ScreenInit, ThrottleInv, GoodInv, Previous
<1>. QED
  BY <1>1, <1>2 DEF ScreenInv

LEMMA NextHistory == HistoryInv /\ [ScreenNext]_screenVars => HistoryInv'
<1> SUFFICES ASSUME HistoryInv, [ScreenNext]_screenVars PROVE HistoryInv'
  OBVIOUS
<1>1. CASE Sample
  <2>1. PICK snapshot \in Snapshots :
          /\ histories' = Restrict(Appended(snapshot), Live(snapshot))
          /\ seen' = Lengthened(seen, snapshot)
    BY <1>1 DEF Sample, Snapshots
  <2>2. seen' \in Seq(Snapshots)
    BY <2>1, LengthenedFacts DEF HistoryInv
  <2>3. ASSUME NEW f \in Live(snapshot) PROVE f \in Fans /\ snapshot[f] # Gone
    BY DEF Live
  <2>4. DOMAIN histories' = Live(snapshot)
    BY <2>1 DEF Restrict
  <2>5. ASSUME NEW f \in Live(snapshot)
        PROVE  histories'[f] =
                 Lengthened(IF f \in DOMAIN histories THEN histories[f] ELSE <<>>, snapshot[f])
    <3>1. histories'[f] = Appended(snapshot)[f]
      BY <2>1 DEF Restrict
    <3>2. f \in DOMAIN histories \cup {g \in Fans : snapshot[g] # Gone}
      BY <2>3
    <3>. QED
      BY <2>3, <3>1, <3>2 DEF Appended
  <2>6. ASSUME NEW f \in Live(snapshot) PROVE Remembered(histories'[f], seen', f)
    <3> DEFINE readings == IF f \in DOMAIN histories THEN histories[f] ELSE <<>>
    <3>1. Remembered(<<>>, seen, f)
      <4>1. <<>> \in Seq(FanRpms) /\ Len(<<>>) = 0 /\ Len(seen) \in Nat
        BY DEF HistoryInv
      <4>. QED
        BY <4>1 DEF Remembered
    <3>2. Remembered(readings, seen, f)
      BY <3>1 DEF HistoryInv
    <3>. HIDE DEF readings
    <3>3. Remembered(Lengthened(readings, snapshot[f]), Lengthened(seen, snapshot), f)
      BY <2>3, <3>2, RememberedGoesOn DEF HistoryInv
    <3>. QED
      BY <2>1, <2>5, <3>3 DEF readings
  <2>7. width' \in Widths
    BY <1>1 DEF Sample, HistoryInv
  <2>. QED
    BY <2>2, <2>3, <2>4, <2>6, <2>7 DEF HistoryInv
<1>2. CASE Throttled
  BY <1>2 DEF Throttled, HistoryInv
<1>3. CASE Resize
  BY <1>3 DEF Resize, HistoryInv
<1>4. CASE UNCHANGED screenVars
  BY <1>4 DEF screenVars, HistoryInv
<1>. QED
  BY <1>1, <1>2, <1>3, <1>4 DEF ScreenNext

\* The snapshot before is the last one of before, and stays so.
LEMMA NextGood ==
  ASSUME ThrottleInv, Sample,
         Previous' >= 1 => Len(counted) >= 1 /\ throttles'[Previous'] = throttles[Len(counted)]
                                             /\ counted'[Previous'] = counted[Len(counted)],
         Len(counted) >= 1 => Previous' >= 1
  PROVE  GoodInv'
<1>1. PICK n \in Nat : n = Len(counted) /\ n = Len(throttles)
  BY DEF ThrottleInv
<1>2. lastGood' = IF Good THEN throttle ELSE lastGood
  BY DEF Sample
<1>3. n >= 1 => Last(counted) = counted[n]
  BY <1>1 DEF Last
<1>4. CASE throttle = None
  <2>1. lastGood' = lastGood
    BY <1>2, <1>4 DEF Good
  <2>2. Previous = n
    BY <1>1, <1>4 DEF Previous
  <2>. QED
    BY <1>1, <2>1, <2>2 DEF ThrottleInv, GoodInv
<1>5. CASE throttle # None
  <2>1. n >= 1 /\ throttles[n] = throttle
    BY <1>1, <1>5 DEF ThrottleInv
  <2>2. Previous' >= 1 /\ throttles'[Previous'] = throttle /\ counted'[Previous'] = counted[n]
    BY <1>1, <2>1
  <2>3. throttle = counted[n] => lastGood' = throttle
    BY <1>2, <1>3, <1>5, <2>1 DEF Good
  <2>. QED
    BY <2>2, <2>3 DEF GoodInv
<1>. QED
  BY <1>4, <1>5

LEMMA NextThrottle == ThrottleInv /\ [ScreenNext]_screenVars => ThrottleInv'
<1> SUFFICES ASSUME ThrottleInv, [ScreenNext]_screenVars PROVE ThrottleInv'
  OBVIOUS
<1>. USE DEF ThrottleInv
<1>1. CASE Sample
  <2>1. events' = events /\ events \in Nat /\ throttle' \in Nat \cup {None}
    BY <1>1 DEF Sample, Counts
  <2>2. CASE throttle' = None
    <3>1. throttles' = throttles /\ counted' = counted
      BY <1>1, <2>2 DEF Sample
    <3>2. Previous' = Len(counted)
      BY <2>2, <3>1 DEF Previous
    <3>3. GoodInv'
      BY <1>1, <3>1, <3>2, NextGood
    <3>. QED
      BY <2>1, <2>2, <3>1, <3>3
  <2>3. CASE throttle' # None
    <3>1. throttles' = Lengthened(throttles, throttle') /\ counted' = Lengthened(counted, events)
      BY <1>1, <2>3 DEF Sample
    <3>2. throttle' \in Nat /\ throttle' \in {0, events}
      BY <1>1, <2>1, <2>3 DEF Sample, Counts
    <3>3. throttles' \in Seq(Nat) /\ Longer(throttles', throttles, throttle')
      BY <3>1, <3>2, LengthenedFacts
    <3>4. counted' \in Seq(Nat) /\ Longer(counted', counted, events)
      BY <2>1, <3>1, LengthenedFacts
    <3>5. PICK n \in Nat : n = Len(counted) /\ n = Len(throttles)
      OBVIOUS
    <3>6. PICK m \in Nat : /\ m = Len(counted') /\ m = Len(throttles')
                           /\ m <= n + 1 /\ m >= 1 /\ (m >= 2 <=> n >= 1)
      <4>1. PICK h \in Nat : h = HISTORY /\ h >= 2
        BY ScreenAssumption
      <4>2. /\ Len(counted') = IF n + 1 > h THEN h ELSE n + 1
            /\ Len(throttles') = IF n + 1 > h THEN h ELSE n + 1
        BY <3>3, <3>4, <3>5, <4>1 DEF Longer
      <4>3. PICK m \in Nat : m = IF n + 1 > h THEN h ELSE n + 1
        BY <4>1
      <4>. QED
        BY <4>1, <4>2, <4>3
    <3>7. throttles'[m] = throttle' /\ counted'[m] = events
      <4>1. 1 \in 1..m /\ m + 1 - 1 = m
        BY <3>6
      <4>2. throttles'[m + 1 - 1] = throttle'
        BY <3>3, <3>6, <4>1 DEF Longer
      <4>3. counted'[m + 1 - 1] = events
        BY <3>4, <3>6, <4>1 DEF Longer
      <4>. QED
        BY <4>1, <4>2, <4>3
    <3>8. ASSUME NEW i \in 1..(m - 1)
          PROVE  /\ n + i - m + 1 \in 1..n
                 /\ throttles'[i] = throttles[n + i - m + 1]
                 /\ counted'[i] = counted[n + i - m + 1]
      <4>1. m + 1 - i \in 1..m /\ m + 1 - i # 1 /\ m + 1 - (m + 1 - i) = i
            /\ n + 2 - (m + 1 - i) = n + i - m + 1 /\ n + i - m + 1 \in 1..n
        BY <3>6
      <4>2. throttles'[m + 1 - (m + 1 - i)] = throttles[n + 2 - (m + 1 - i)]
        BY <3>3, <3>5, <3>6, <4>1 DEF Longer
      <4>3. counted'[m + 1 - (m + 1 - i)] = counted[n + 2 - (m + 1 - i)]
        BY <3>4, <3>5, <3>6, <4>1 DEF Longer
      <4>. QED
        BY <4>1, <4>2, <4>3
    <3>9. ASSUME NEW i \in 1..m
          PROVE  counted'[i] <= events /\ throttles'[i] \in {0, counted'[i]}
      <4>1. CASE i = m
        BY <2>1, <3>2, <3>7, <4>1
      <4>2. CASE i # m
        <5>1. i \in 1..(m - 1)
          BY <3>6, <4>2
        <5>. QED
          BY <3>5, <3>8, <5>1
      <4>. QED
        BY <4>1, <4>2
    <3>10. m >= 2 => counted'[m - 1] <= counted'[m]
      <4>1. m >= 2 => m - 1 \in 1..m
        BY <3>6
      <4>. QED
        BY <3>7, <3>9, <4>1
    <3>11. Previous' = m - 1
      BY <2>3, <3>6 DEF Previous
    <3>12. m >= 2 => throttles'[m - 1] = throttles[n] /\ counted'[m - 1] = counted[n]
      <4>1. m >= 2 => m - 1 \in 1..(m - 1) /\ n + (m - 1) - m + 1 = n
        BY <3>5, <3>6
      <4>. QED
        BY <3>8, <4>1
    <3>13. GoodInv'
      <4>1. Previous' >= 1 => n >= 1 /\ throttles'[Previous'] = throttles[n]
                                    /\ counted'[Previous'] = counted[n]
        BY <3>6, <3>11, <3>12
      <4>2. n >= 1 => Previous' >= 1
        BY <3>6, <3>11
      <4>. QED
        BY <1>1, <3>5, <4>1, <4>2, NextGood
    <3>. HIDE DEF ThrottleInv
    <3>14. /\ events' \in Nat /\ throttle' \in Nat \cup {None}
           /\ throttles' \in Seq(Nat) /\ counted' \in Seq(Nat)
           /\ Len(throttles') = Len(counted')
      BY <2>1, <3>3, <3>4, <3>6
    <3>15. \A i \in 1..Len(counted') : counted'[i] <= events' /\ throttles'[i] \in {0, counted'[i]}
      BY <2>1, <3>6, <3>9
    <3>16. Len(throttles') >= 1 /\ throttles'[Len(throttles')] = throttle'
      BY <3>6, <3>7
    <3>17. Len(counted') >= 2 => counted'[Len(counted') - 1] <= counted'[Len(counted')]
      BY <3>6, <3>10
    <3>. QED
      BY <3>13, <3>14, <3>15, <3>16, <3>17 DEF ThrottleInv
  <2>. QED
    BY <2>2, <2>3
<1>2. CASE Throttled
  <2>1. /\ events' = events + 1 /\ throttle' = throttle /\ throttles' = throttles
        /\ counted' = counted /\ lastGood' = lastGood
    BY <1>2 DEF Throttled
  <2>. QED
    BY <2>1 DEF GoodInv, Previous
<1>3. CASE Resize
  BY <1>3 DEF Resize, GoodInv, Previous
<1>4. CASE UNCHANGED screenVars
  BY <1>4 DEF screenVars, GoodInv, Previous
<1>. QED
  BY <1>1, <1>2, <1>3, <1>4 DEF ScreenNext

\* The inductive invariant: a history is the newest part of what was read of its fan, and
\* the count before the last snapshot is the last good one unless it was misread
\* (dashboard.py 439-452, probe.py 265-289).
THEOREM ScreenIsInductive == ScreenSpec => []ScreenInv
<1>1. ScreenInv /\ [ScreenNext]_screenVars => ScreenInv'
  BY NextHistory, NextThrottle DEF ScreenInv
<1>. QED
  BY <1>1, InitScreen, PTL DEF ScreenSpec

-----------------------------------------------------------------------------
\* The window of a chart.

LEMMA ColumnsType == width \in Widths => Columns \in Nat /\ Columns >= 2
<1> SUFFICES ASSUME width \in Widths PROVE Columns \in Nat /\ Columns >= 2
  OBVIOUS
<1>1. PICK cells \in Int : cells = width - 5
  BY ScreenAssumption
<1>2. Max({1, cells}) = IF 1 <= cells THEN cells ELSE 1
  BY MinMaxOfTwo
<1>. QED
  BY <1>1, <1>2 DEF Columns

\* A window ends where the history ends, and has a column for each of its readings.
LEMMA DrawnFacts ==
  ASSUME HistoryInv, NEW f \in DOMAIN histories
  PROVE  /\ Drawn(f) \in Seq(FanRpms)
         /\ Len(Drawn(f)) <= Columns /\ Len(Drawn(f)) <= Len(histories[f])
         /\ \A k \in 1..Len(Drawn(f)) :
              Drawn(f)[Len(Drawn(f)) + 1 - k] = histories[f][Len(histories[f]) + 1 - k]
<1>1. histories[f] \in Seq(FanRpms) /\ Columns \in Nat
  BY ColumnsType DEF HistoryInv, Remembered
<1>2. Len(histories[f]) \in Nat
  BY <1>1
<1> DEFINE h == histories[f]
           n == Columns
<1>. HIDE DEF h, n
<1>3. /\ Newest(n, h) \in Seq(FanRpms)
      /\ Len(Newest(n, h)) = IF Len(h) > n THEN n ELSE Len(h)
      /\ \A k \in 1..Len(Newest(n, h)) :
           Newest(n, h)[Len(Newest(n, h)) + 1 - k] = h[Len(h) + 1 - k]
  BY <1>1, NewestFacts DEF h, n
<1>4. Drawn(f) = Newest(n, h)
  BY DEF Drawn, h, n
<1>5. Len(Drawn(f)) = IF Len(h) > n THEN n ELSE Len(h)
  BY <1>3, <1>4
<1>. QED
  BY <1>1, <1>2, <1>3, <1>4, <1>5 DEF h, n

\* One column is one snapshot for all fans, however they come and go (dashboard.py
\* 439-452, chart.py 62-70).
THEOREM ColumnsAlwaysAgree == ScreenSpec => []ColumnsAgree
<1>1. ASSUME HistoryInv, NEW f \in DOMAIN histories, NEW i \in DOMAIN Drawn(f)
      PROVE  Drawn(f)[i] = seen[Len(seen) - (Columns - 1 - X(Drawn(f), i))][f]
  <2>1. /\ Drawn(f) \in Seq(FanRpms)
        /\ Len(Drawn(f)) <= Len(histories[f])
        /\ \A k \in 1..Len(Drawn(f)) :
             Drawn(f)[Len(Drawn(f)) + 1 - k] = histories[f][Len(histories[f]) + 1 - k]
    BY <1>1, DrawnFacts
  <2>2. Remembered(histories[f], seen, f) /\ Columns \in Nat /\ seen \in Seq(Snapshots)
    BY <1>1, ColumnsType DEF HistoryInv
  <2>3. PICK n \in Nat : n = Len(Drawn(f)) /\ i \in 1..n
    BY <1>1, <2>1
  <2>4. PICK m \in Nat : m = Len(histories[f]) /\ n <= m
    BY <2>1, <2>2, <2>3 DEF Remembered
  <2>5. PICK l \in Nat : l = Len(seen)
    BY <2>2
  <2>6. n + 1 - i \in 1..n /\ n + 1 - i \in 1..m /\ n + 1 - (n + 1 - i) = i
    BY <2>3, <2>4
  <2>7. Drawn(f)[i] = histories[f][m + 1 - (n + 1 - i)]
    BY <2>1, <2>3, <2>4, <2>6
  <2>8. histories[f][m + 1 - (n + 1 - i)] = seen[l + 1 - (n + 1 - i)][f]
    BY <2>2, <2>4, <2>5, <2>6 DEF Remembered
  <2>9. l - (Columns - 1 - X(Drawn(f), i)) = l + 1 - (n + 1 - i)
    BY <2>2, <2>3, <2>5 DEF X
  <2>. QED
    BY <2>5, <2>7, <2>8, <2>9
<1>2. ScreenInv => ColumnsAgree
  BY <1>1 DEF ScreenInv, ColumnsAgree
<1>. QED
  BY <1>2, ScreenIsInductive, PTL

\* No throttling is missed, whatever the snapshots in between could not read, and the
\* header never contradicts its row (dashboard.py 314-331, 359-360, 448-449).
THEOREM ThrottlingIsAlwaysCried == ScreenSpec => []ThrottlingIsCried
<1>1. ASSUME ThrottleInv, Good
      PROVE  /\ Header = "throttling now" <=> lastGood \notin {None, throttle} \/ MisreadBefore
             /\ Header = "throttling now" <=> ThrottleRow = "throttling now"
  <2>1. PICK n \in Nat : n = Len(counted) /\ n = Len(throttles) /\ n >= 1
    BY <1>1 DEF ThrottleInv, Good
  <2>2. /\ throttle # None /\ throttle \in Nat /\ throttles[n] = throttle
        /\ counted[n] = throttle
    BY <1>1, <2>1 DEF ThrottleInv, Good, Last
  <2>3. Previous = n - 1
    BY <2>1, <2>2 DEF Previous
  <2>4. Header = "throttling now" <=> ThrottlingNow
    BY DEF Header
  <2>5. ThrottlingNow <=> n >= 2 /\ throttle # throttles[n - 1]
    BY <2>1, <2>2 DEF ThrottlingNow, Last
  <2>6. MisreadBefore <=> n >= 2 /\ throttles[n - 1] # counted[n - 1]
    BY <2>1 DEF MisreadBefore
  <2>7. n >= 2 => /\ throttles[n - 1] \in {0, counted[n - 1]}
                  /\ counted[n - 1] \in Nat /\ counted[n - 1] <= throttle
    <3>1. n >= 2 => n - 1 \in 1..n
      BY <2>1
    <3>2. n >= 2 => throttles[n - 1] \in {0, counted[n - 1]}
      BY <1>1, <2>1, <3>1 DEF ThrottleInv
    <3>3. n >= 2 => counted[n - 1] \in Nat
      BY <1>1, <2>1, <3>1 DEF ThrottleInv
    <3>4. n >= 2 => counted[n - 1] <= throttle
      BY <1>1, <2>1, <2>2 DEF ThrottleInv
    <3>. QED
      BY <3>2, <3>3, <3>4
  <2>8. ThrottlingNow <=> lastGood \notin {None, throttle} \/ MisreadBefore
    <3>1. CASE n < 2
      <4>1. lastGood = None
        BY <1>1, <2>1, <2>3, <3>1 DEF ThrottleInv, GoodInv
      <4>. QED
        BY <2>1, <2>5, <2>6, <3>1, <4>1
    <3>2. CASE n >= 2 /\ throttles[n - 1] = counted[n - 1]
      <4>1. lastGood = throttles[n - 1] /\ throttles[n - 1] \in Nat
        BY <1>1, <2>1, <2>3, <2>7, <3>2 DEF ThrottleInv, GoodInv
      <4>. QED
        BY <2>5, <2>6, <3>2, <4>1, ReportAssumption
    <3>3. CASE n >= 2 /\ throttles[n - 1] # counted[n - 1]
      <4>1. throttles[n - 1] = 0 /\ throttle # 0
        BY <2>2, <2>7, <3>3
      <4>. QED
        BY <2>5, <2>6, <3>3, <4>1
    <3>. QED
      BY <2>1, <3>1, <3>2, <3>3
  <2>9. ThrottlingNow <=> ThrottleRow = "throttling now"
    <3>1. CASE throttle = 0
      <4>1. ~ThrottlingNow
        BY <2>5, <2>7, <3>1
      <4>2. ThrottleRow = "none since boot"
        BY <2>2, <3>1 DEF ThrottleRow
      <4>. QED
        BY <4>1, <4>2
    <3>2. CASE throttle # 0
      <4>1. throttle \in Nat \ {0}
        BY <2>2, <3>2
      <4>2. ThrottleRow = IF ThrottlingNow THEN "throttling now" ELSE "events"
        BY <2>2, <4>1 DEF ThrottleRow
      <4>. QED
        BY <4>2
    <3>. QED
      BY <3>1, <3>2
  <2>. QED
    BY <2>4, <2>8, <2>9
<1>2. ScreenInv => ThrottlingIsCried
  BY <1>1 DEF ScreenInv, ThrottlingIsCried
<1>. QED
  BY <1>2, ScreenIsInductive, PTL

-----------------------------------------------------------------------------
\* The axis of the chart.

LEMMA FanRpmsAreNumbers ==
  ASSUME NEW readings \in Seq(FanRpms)
  PROVE  /\ readings \in Seq(Nat \cup {None})
         /\ \A i \in 1..Len(readings) : readings[i] # None => readings[i] \in Nat
<1>1. FanRpms \subseteq Nat \cup {None}
  BY ScreenAssumption
<1>2. readings \in Seq(Nat \cup {None})
  BY <1>1, SeqMonotonic
<1>. QED
  BY <1>2

\* No charted reading is above the top.
LEMMA TopFacts ==
  ASSUME HistoryInv
  PROVE  /\ Top \in Nat
         /\ \A f \in Charted : PeakOf(histories[f]) \in Nat /\ PeakOf(histories[f]) <= Top
<1> DEFINE peaks == {PeakOf(histories[f]) : f \in Charted}
<1>1. ASSUME NEW f \in Charted PROVE f \in Fans /\ PeakOf(histories[f]) \in Nat
  <2>1. f \in Fans /\ histories[f] \in Seq(FanRpms) /\ PeakOf(histories[f]) # None
    BY <1>1 DEF HistoryInv, Remembered, Charted
  <2>2. DOMAIN histories[f] = 1..Len(histories[f])
        /\ histories[f] \in Seq(Nat \cup {None})
    BY <2>1, FanRpmsAreNumbers
  <2>3. PeakOf(histories[f]) \in ToSet(histories[f]) \ {None}
    BY <2>1, <2>2, PeakFacts
  <2>. QED
    BY <2>1, <2>2, <2>3 DEF ToSet
<1>2. PICK fans \in Seq(Fans) : \A f \in Fans : \E i \in 1..Len(fans) : fans[i] = f
  BY ScreenAssumption DEF IsFiniteSet
<1> DEFINE s == [i \in 1..Len(fans) |->
                   IF fans[i] \in Charted THEN PeakOf(histories[fans[i]]) ELSE 0]
<1>3. s \in Seq(Nat) /\ Len(s) = Len(fans)
  <2>1. Len(fans) \in Nat
    BY <1>2
  <2>2. \A i \in 1..Len(fans) :
          (IF fans[i] \in Charted THEN PeakOf(histories[fans[i]]) ELSE 0) \in Nat
    BY <1>1
  <2>. QED
    BY <2>1, <2>2
<1>4. PICK bound \in Nat : \A i \in 1..Len(s) : s[i] \in Nat => s[i] <= bound
  <2>. HIDE DEF s
  <2>. QED
    BY <1>3, SeriesIsBounded
<1>5. ASSUME NEW f \in Charted PROVE PeakOf(histories[f]) <= bound
  <2>1. PICK i \in 1..Len(fans) : fans[i] = f
    BY <1>1, <1>2
  <2>2. s[i] = PeakOf(histories[f])
    BY <2>1
  <2>. HIDE DEF s
  <2>. QED
    BY <1>1, <1>3, <1>4, <2>1, <2>2
<1>. HIDE DEF s
<1>6. {0} \cup peaks \subseteq Nat /\ {0} \cup peaks # {} /\ \A y \in {0} \cup peaks : y <= bound
  BY <1>1, <1>5
<1>7. ASSUME NEW f \in Charted PROVE PeakOf(histories[f]) \in {0} \cup peaks
  OBVIOUS
<1>8. Top = Max({0} \cup peaks)
  BY DEF Top
<1>. HIDE DEF peaks
<1>9. Max({0} \cup peaks) \in {0} \cup peaks /\ \A y \in {0} \cup peaks : Max({0} \cup peaks) >= y
  BY <1>6, MaxFacts
<1>10. Top \in Nat
  BY <1>6, <1>8, <1>9
<1>11. ASSUME NEW f \in Charted PROVE PeakOf(histories[f]) <= Top
  BY <1>1, <1>7, <1>8, <1>9, <1>10
<1>. QED
  BY <1>1, <1>10, <1>11

LEMMA YMaxFacts ==
  ASSUME HistoryInv
  PROVE  YMax \in Nat \ {0} /\ Top \in Nat /\ Top <= YMax
<1>1. Top \in Nat
  BY TopFacts
<1>2. PICK t \in Int : t = ((Top + 499) \div 500) * 500 /\ t >= Top
  BY <1>1
<1>3. Max({500, t}) = IF 500 <= t THEN t ELSE 500
  BY MinMaxOfTwo
<1>. QED
  BY <1>1, <1>2, <1>3 DEF YMax

\* A reading in a window is on the axis.
LEMMA DrawnIsOnAxis ==
  ASSUME HistoryInv, NEW f \in Charted, NEW i \in DOMAIN Drawn(f), Drawn(f)[i] # None
  PROVE  Drawn(f)[i] \in Nat /\ Drawn(f)[i] <= YMax
<1> DEFINE h == histories[f]
           drawn == Drawn(f)
<1>1. f \in DOMAIN histories
  BY DEF Charted
<1>2. /\ drawn \in Seq(FanRpms)
      /\ Len(drawn) <= Len(h)
      /\ \A k \in 1..Len(drawn) : drawn[Len(drawn) + 1 - k] = h[Len(h) + 1 - k]
  BY <1>1, DrawnFacts
<1>3. h \in Seq(FanRpms)
  BY <1>1 DEF HistoryInv, Remembered
<1>. HIDE DEF h, drawn
<1>4. PICK n \in Nat : n = Len(drawn) /\ i \in 1..n
  <2>1. i \in DOMAIN drawn
    BY DEF drawn
  <2>2. DOMAIN drawn = 1..Len(drawn) /\ Len(drawn) \in Nat
    BY <1>2
  <2>. QED
    BY <2>1, <2>2
<1>5. PICK m \in Nat : m = Len(h) /\ n <= m
  BY <1>2, <1>3, <1>4
<1>6. n + 1 - i \in 1..n /\ n + 1 - (n + 1 - i) = i /\ m + 1 - (n + 1 - i) \in 1..m
  BY <1>4, <1>5
<1>7. drawn[i] = h[m + 1 - (n + 1 - i)]
  BY <1>2, <1>4, <1>5, <1>6
<1>8. drawn[i] \in Nat
  BY <1>2, <1>4, FanRpmsAreNumbers DEF drawn
<1>9. drawn[i] <= PeakOf(h)
  <2>1. h \in Seq(Nat \cup {None})
    BY <1>3, FanRpmsAreNumbers
  <2>2. h[m + 1 - (n + 1 - i)] # None /\ m + 1 - (n + 1 - i) \in 1..Len(h)
    BY <1>5, <1>6, <1>7 DEF drawn
  <2>. QED
    BY <1>7, <2>1, <2>2, PeakFacts
<1>10. PeakOf(h) \in Nat /\ PeakOf(h) <= Top
  BY TopFacts DEF h
<1>11. Top \in Nat /\ YMax \in Nat /\ Top <= YMax
  BY YMaxFacts
<1>. QED
  BY <1>8, <1>9, <1>10, <1>11 DEF drawn

-----------------------------------------------------------------------------
\* The scale.

LEMMA ProductsKeepOrder ==
  ASSUME NEW a \in Int, NEW b \in Int, NEW c \in Nat, a <= b
  PROVE  a * c <= b * c
<1>1. (b - a) * c >= 0
  OBVIOUS
<1>. QED
  BY <1>1

LEMMA Division ==
  ASSUME NEW n \in Nat, NEW d \in Nat \ {0}
  PROVE  /\ n \div d \in Nat /\ n % d \in Nat /\ n % d < d
         /\ n = (n \div d) * d + (n % d)
         /\ n < (n \div d + 1) * d
<1>1. n \div d \in Nat /\ n % d \in Nat /\ n % d < d
  BY Z3
<1>2. n = (n \div d) * d + (n % d)
  BY Z3
<1>3. n < (n \div d + 1) * d
  BY Z3
<1>. QED
  BY <1>1, <1>2, <1>3

\* A quotient rounded to the nearest number, halves either way.
Rounded(s, t, y) == s \in Int /\ 2 * (s * y) - y <= t /\ t <= 2 * (s * y) + y

LEMMA ScaleRounds ==
  ASSUME YMax \in Nat \ {0}, NEW value \in Nat, value <= YMax
  PROVE  Rounded(Scale(value), 2 * ((YMax - value) * (Dots - 1)), YMax)
<1>1. Dots - 1 \in Nat /\ YMax - value \in Nat
  BY ScreenAssumption DEF Dots
<1>2. PICK y \in Nat \ {0} : y = YMax
  OBVIOUS
<1>3. PICK t \in Nat : t = (YMax - value) * (Dots - 1)
  BY <1>1
<1>4. 2 * (YMax - value) * (Dots - 1) + YMax = 2 * t + y
  BY <1>1, <1>2, <1>3
<1> DEFINE q == (2 * t + y) \div (2 * y)
           r == (2 * t + y) % (2 * y)
<1>5. q \in Int /\ r \in Int /\ 0 <= r /\ r < 2 * y /\ 2 * t + y = q * (2 * y) + r
  <2>1. PICK n \in Nat, c \in Nat \ {0} : n = 2 * t + y /\ c = 2 * y
    OBVIOUS
  <2>2. /\ n \div c \in Nat /\ n % c \in Nat /\ n % c < c
        /\ n = (n \div c) * c + (n % c)
    BY Division
  <2>3. q = n \div c /\ r = n % c
    BY <2>1
  <2>. HIDE DEF q, r
  <2>. QED
    BY <2>1, <2>2, <2>3
<1>6. Scale(value) = IF r = 0 /\ q % 2 = 1 THEN q - 1 ELSE q
  BY <1>2, <1>4 DEF Scale
<1>. HIDE DEF q, r
<1>7. PICK p \in Int : p = q * y /\ q * (2 * y) = 2 * p
  BY <1>5
<1>8. CASE r = 0 /\ q % 2 = 1
  <2>1. Scale(value) = q - 1 /\ (q - 1) * y = p - y
    BY <1>5, <1>6, <1>7, <1>8
  <2>2. 2 * t + y = 2 * p
    BY <1>5, <1>7, <1>8
  <2>. QED
    BY <1>2, <1>3, <1>5, <2>1, <2>2 DEF Rounded
<1>9. CASE ~(r = 0 /\ q % 2 = 1)
  <2>1. Scale(value) = q
    BY <1>6, <1>9
  <2>. QED
    BY <1>2, <1>3, <1>5, <1>7, <2>1 DEF Rounded
<1>. QED
  BY <1>8, <1>9

\* A reading on the axis is in the chart.
LEMMA ScaleIsInChart ==
  ASSUME YMax \in Nat \ {0}, NEW value \in Nat, value <= YMax
  PROVE  Scale(value) \in 0..(Dots - 1)
<1>1. PICK d \in Nat : d = Dots - 1
  BY ScreenAssumption DEF Dots
<1>2. PICK y \in Nat \ {0} : y = YMax
  OBVIOUS
<1>3. PICK a \in Nat : a = YMax - value /\ a <= y
  BY <1>2
<1>4. Rounded(Scale(value), 2 * (a * d), y)
  BY <1>1, <1>2, <1>3, ScaleRounds
<1>5. PICK s \in Int : s = Scale(value) /\ 2 * (s * y) - y <= 2 * (a * d)
                       /\ 2 * (a * d) <= 2 * (s * y) + y
  BY <1>4 DEF Rounded
<1>6. a * d \in Nat /\ a * d <= y * d /\ s * y \in Int /\ y * d \in Int /\ y * d = d * y
  BY <1>3, ProductsKeepOrder
<1>7. s >= 0
  <2> SUFFICES ASSUME s <= -1 PROVE FALSE
    OBVIOUS
  <2>1. s * y <= (-1) * y
    BY ProductsKeepOrder
  <2>. QED
    BY <1>5, <1>6, <2>1
<1>8. s <= d
  <2> SUFFICES ASSUME d + 1 <= s PROVE FALSE
    OBVIOUS
  <2>1. (d + 1) * y <= s * y /\ (d + 1) * y = d * y + y
    BY ProductsKeepOrder
  <2>. QED
    BY <1>5, <1>6, <2>1
<1>. QED
  BY <1>1, <1>5, <1>7, <1>8

\* Of two readings more than a dot apart the higher is drawn above.
LEMMA ScaleKeepsOrder ==
  ASSUME YMax \in Nat \ {0}, NEW low \in Nat, NEW high \in Nat, high <= YMax,
         low + YMax \div (Dots - 1) < high
  PROVE  Scale(low) > Scale(high)
<1>1. PICK d \in Nat \ {0} : d = Dots - 1
  BY ScreenAssumption DEF Dots
<1>2. PICK y \in Nat \ {0} : y = YMax
  OBVIOUS
<1>3. PICK q \in Nat : q = y \div d /\ y < (q + 1) * d
  BY Division
<1>4. low + q < high /\ low <= YMax
  BY <1>1, <1>2, <1>3
<1>5. PICK a \in Nat, b \in Nat : a = YMax - low /\ b = YMax - high /\ b + (q + 1) <= a
  BY <1>2, <1>3, <1>4
<1>6. Rounded(Scale(low), 2 * (a * d), y) /\ Rounded(Scale(high), 2 * (b * d), y)
  BY <1>1, <1>2, <1>4, <1>5, ScaleRounds
<1>7. a * d > b * d + y /\ a * d \in Int /\ b * d \in Int
  <2>1. (b + (q + 1)) * d <= a * d
    BY <1>5, ProductsKeepOrder
  <2>2. (b + (q + 1)) * d = b * d + (q + 1) * d
    OBVIOUS
  <2>. QED
    BY <1>3, <2>1, <2>2
<1>8. PICK s \in Int, u \in Int :
        /\ s = Scale(low) /\ 2 * (a * d) <= 2 * (s * y) + y
        /\ u = Scale(high) /\ 2 * (u * y) - y <= 2 * (b * d)
  BY <1>6 DEF Rounded
<1>9. s > u
  <2> SUFFICES ASSUME s <= u PROVE FALSE
    OBVIOUS
  <2>1. s * y <= u * y /\ s * y \in Int /\ u * y \in Int
    BY ProductsKeepOrder
  <2>. QED
    BY <1>7, <1>8, <2>1
<1>. QED
  BY <1>8, <1>9

-----------------------------------------------------------------------------
\* The line.

\* The rows of the dots of a column.
Span(drawn, i) ==
  LET y == Scale(drawn[i])
      prev == Scale(From(drawn, i))
  IN  Min({y, prev})..Max({y, prev})

LEMMA SpanFacts ==
  ASSUME NEW drawn, NEW i, NEW d \in Nat,
         Scale(drawn[i]) \in 0..d, Scale(From(drawn, i)) \in 0..d
  PROVE  /\ Span(drawn, i) \subseteq 0..d
         /\ Scale(drawn[i]) \in Span(drawn, i) /\ Scale(From(drawn, i)) \in Span(drawn, i)
         /\ From(drawn, i) = drawn[i] => Span(drawn, i) = {Scale(drawn[i])}
<1>1. PICK a \in 0..d, b \in 0..d : a = Scale(drawn[i]) /\ b = Scale(From(drawn, i))
  OBVIOUS
<1>2. Min({a, b}) = (IF a <= b THEN a ELSE b) /\ Max({a, b}) = (IF a <= b THEN b ELSE a)
  BY MinMaxOfTwo
<1>3. Span(drawn, i) = (IF a <= b THEN a ELSE b)..(IF a <= b THEN b ELSE a)
  BY <1>1, <1>2 DEF Span
<1>4. From(drawn, i) = drawn[i] => a = b
  BY <1>1
<1>5. a = b => Span(drawn, i) = {a}
  BY <1>3
<1>6. Span(drawn, i) \subseteq 0..d /\ a \in Span(drawn, i) /\ b \in Span(drawn, i)
  BY <1>3
<1>. QED
  BY <1>1, <1>4, <1>5, <1>6

\* The dots of a line are those of its columns.
LEMMA LineIsColumns ==
  ASSUME NEW f, NEW dot
  PROVE  dot \in Line(f) <=>
           \E i \in DOMAIN Drawn(f) :
             Drawn(f)[i] # None /\ \E y \in Span(Drawn(f), i) : dot = <<X(Drawn(f), i), y>>
<1> DEFINE column(i) == {<<X(Drawn(f), i), y>> : y \in Span(Drawn(f), i)}
<1>1. Line(f) = UNION {column(i) : i \in {j \in DOMAIN Drawn(f) : Drawn(f)[j] # None}}
  BY DEF Line, Span
<1>2. dot \in Line(f) <=>
        \E i \in {j \in DOMAIN Drawn(f) : Drawn(f)[j] # None} : dot \in column(i)
  BY <1>1, Zenon
<1>. QED
  BY <1>2, Zenon

\* What stands in the column of a reading.
LEMMA ColumnFacts ==
  ASSUME HistoryInv, NEW f \in Charted, NEW i \in DOMAIN Drawn(f)
  PROVE  {dot[2] : dot \in {d \in Line(f) : d[1] = X(Drawn(f), i)}} =
           IF Drawn(f)[i] = None THEN {} ELSE Span(Drawn(f), i)
<1> DEFINE drawn == Drawn(f)
           at == {dot[2] : dot \in {d \in Line(f) : d[1] = X(drawn, i)}}
<1>1. drawn \in Seq(FanRpms) /\ Columns \in Nat
  BY DrawnFacts, ColumnsType DEF Charted, HistoryInv
<1>2. ASSUME NEW j \in DOMAIN drawn, X(drawn, j) = X(drawn, i) PROVE j = i
  BY <1>1, <1>2 DEF X
<1>3. ASSUME NEW y PROVE y \in at <=> drawn[i] # None /\ y \in Span(drawn, i)
  <2>1. y \in at <=> \E dot \in Line(f) : dot[1] = X(drawn, i) /\ y = dot[2]
    BY Zenon
  <2>2. ASSUME y \in at PROVE drawn[i] # None /\ y \in Span(drawn, i)
    <3>1. PICK dot \in Line(f) : dot[1] = X(drawn, i) /\ y = dot[2]
      BY <2>1, <2>2
    <3>2. PICK j \in DOMAIN drawn :
            drawn[j] # None /\ \E z \in Span(drawn, j) : dot = <<X(drawn, j), z>>
      BY LineIsColumns, Zenon
    <3>3. PICK z \in Span(drawn, j) : dot = <<X(drawn, j), z>>
      BY <3>2
    <3>. HIDE DEF drawn
    <3>4. X(drawn, j) = X(drawn, i) /\ y = z
      BY <3>1, <3>3
    <3>5. j = i
      BY <1>2, <3>4
    <3>. QED
      BY <3>2, <3>3, <3>4, <3>5
  <2>3. ASSUME drawn[i] # None, y \in Span(drawn, i) PROVE y \in at
    <3>1. <<X(drawn, i), y>> \in Line(f)
      BY <2>3, LineIsColumns, Zenon
    <3>2. <<X(drawn, i), y>>[1] = X(drawn, i) /\ y = <<X(drawn, i), y>>[2]
      OBVIOUS
    <3>. QED
      BY <2>1, <3>1, <3>2, Zenon
  <2>. QED
    BY <2>2, <2>3
<1>. HIDE DEF at
<1>4. at = IF drawn[i] = None THEN {} ELSE Span(drawn, i)
  <2>1. CASE drawn[i] = None
    BY <1>3, <2>1
  <2>2. CASE drawn[i] # None
    BY <1>3, <2>2
  <2>. QED
    BY <2>1, <2>2
<1>. QED
  BY <1>4 DEF at

\* The line of every fan is where its readings are, goes on as they do and ends at the
\* right edge, for every size of the chart (chart.py 36-74, dashboard.py 118-130).
THEOREM LineIsAlwaysTrue == ScreenSpec => []LineIsTrue
<1>1. ASSUME HistoryInv PROVE LineIsTrue
  <2>1. PICK d \in Nat : d = Dots - 1
    BY ScreenAssumption DEF Dots
  <2>2. YMax \in Nat \ {0} /\ Columns \in Nat
    BY <1>1, YMaxFacts, ColumnsType DEF HistoryInv
  <2>3. ASSUME NEW f \in Charted
        PROVE  /\ Drawn(f) \in Seq(FanRpms)
               /\ Len(Drawn(f)) \in Nat /\ Len(Drawn(f)) <= Columns
               /\ DOMAIN Drawn(f) = 1..Len(Drawn(f))
    BY <1>1, DrawnFacts DEF Charted
  <2>4. ASSUME NEW f \in Charted, NEW i \in DOMAIN Drawn(f), Drawn(f)[i] # None
        PROVE  /\ Scale(Drawn(f)[i]) \in 0..d
               /\ Scale(From(Drawn(f), i)) \in 0..d
    <3>1. ASSUME NEW j \in DOMAIN Drawn(f), Drawn(f)[j] # None
          PROVE  Scale(Drawn(f)[j]) \in 0..d
      BY <1>1, <2>1, <2>2, <3>1, DrawnIsOnAxis, ScaleIsInChart
    <3>2. CASE From(Drawn(f), i) = Drawn(f)[i]
      BY <2>4, <3>1, <3>2
    <3>3. CASE From(Drawn(f), i) # Drawn(f)[i]
      <4>1. i # 1 /\ Drawn(f)[i - 1] # None /\ From(Drawn(f), i) = Drawn(f)[i - 1]
        BY <3>3 DEF From
      <4>2. i - 1 \in DOMAIN Drawn(f)
        BY <2>3, <4>1
      <4>. QED
        BY <2>4, <3>1, <4>1, <4>2
    <3>. QED
      BY <3>2, <3>3
  <2>5. ASSUME NEW f \in Charted, NEW i \in DOMAIN Drawn(f), Drawn(f)[i] # None
        PROVE  /\ Span(Drawn(f), i) \subseteq 0..d
               /\ Scale(Drawn(f)[i]) \in Span(Drawn(f), i)
               /\ Scale(From(Drawn(f), i)) \in Span(Drawn(f), i)
               /\ From(Drawn(f), i) = Drawn(f)[i] => Span(Drawn(f), i) = {Scale(Drawn(f)[i])}
    BY <2>4, <2>5, SpanFacts
  <2>6. ASSUME NEW f \in Charted
        PROVE  Line(f) \subseteq (0..(Columns - 1)) \X (0..(Dots - 1))
    <3> SUFFICES ASSUME NEW dot \in Line(f) PROVE dot \in (0..(Columns - 1)) \X (0..d)
      BY <2>1
    <3>1. PICK i \in DOMAIN Drawn(f) :
            Drawn(f)[i] # None /\ \E y \in Span(Drawn(f), i) : dot = <<X(Drawn(f), i), y>>
      BY LineIsColumns, Zenon
    <3>2. PICK y \in Span(Drawn(f), i) : dot = <<X(Drawn(f), i), y>>
      BY <3>1
    <3>3. y \in 0..d
      BY <2>5, <3>1
    <3>4. X(Drawn(f), i) \in 0..(Columns - 1)
      <4>1. PICK n \in Nat : n = Len(Drawn(f)) /\ n <= Columns /\ i \in 1..n
        BY <2>3
      <4>. QED
        BY <2>2, <4>1 DEF X
    <3>. QED
      BY <3>2, <3>3, <3>4
  <2>7. ASSUME NEW f \in Charted PROVE X(Drawn(f), Len(Drawn(f))) = Columns - 1
    BY <2>2, <2>3 DEF X
  <2> DEFINE at(f, i) == {dot[2] : dot \in {e \in Line(f) : e[1] = X(Drawn(f), i)}}
  <2>8. ASSUME NEW f \in Charted, NEW i \in DOMAIN Drawn(f)
        PROVE  at(f, i) = IF Drawn(f)[i] = None THEN {} ELSE Span(Drawn(f), i)
    BY <1>1, ColumnFacts
  <2>. HIDE DEF at
  <2>9. ASSUME NEW f \in Charted, NEW i \in DOMAIN Drawn(f)
        PROVE  IF Drawn(f)[i] = None THEN at(f, i) = {}
               ELSE /\ Scale(Drawn(f)[i]) \in at(f, i)
                    /\ i > 1 /\ Drawn(f)[i - 1] # None => at(f, i) \cap at(f, i - 1) # {}
                    /\ i = 1 \/ Drawn(f)[i - 1] = None => at(f, i) = {Scale(Drawn(f)[i])}
    <3>1. CASE Drawn(f)[i] = None
      BY <2>8, <3>1
    <3>2. CASE Drawn(f)[i] # None
      <4>1. at(f, i) = Span(Drawn(f), i)
        BY <2>8, <3>2
      <4>2. Scale(Drawn(f)[i]) \in at(f, i)
        BY <2>5, <3>2, <4>1
      <4>3. ASSUME i > 1, Drawn(f)[i - 1] # None PROVE at(f, i) \cap at(f, i - 1) # {}
        <5>1. i - 1 \in DOMAIN Drawn(f)
          BY <2>3, <4>3
        <5>2. From(Drawn(f), i) = Drawn(f)[i - 1]
          BY <2>3, <4>3 DEF From
        <5>3. at(f, i - 1) = Span(Drawn(f), i - 1)
          BY <2>8, <4>3, <5>1
        <5>4. Scale(Drawn(f)[i - 1]) \in Span(Drawn(f), i - 1)
          BY <2>5, <4>3, <5>1
        <5>5. Scale(Drawn(f)[i - 1]) \in Span(Drawn(f), i)
          BY <2>5, <3>2, <5>2
        <5>. QED
          BY <4>1, <5>3, <5>4, <5>5
      <4>4. ASSUME i = 1 \/ Drawn(f)[i - 1] = None PROVE at(f, i) = {Scale(Drawn(f)[i])}
        <5>1. From(Drawn(f), i) = Drawn(f)[i]
          BY <4>4 DEF From
        <5>. QED
          BY <2>5, <3>2, <4>1, <5>1
      <4>. QED
        BY <3>2, <4>2, <4>3, <4>4
    <3>. QED
      BY <3>1, <3>2
  <2>10. ASSUME NEW f \in Charted, NEW g \in Charted,
                NEW i \in DOMAIN Drawn(f), NEW j \in DOMAIN Drawn(g),
                Drawn(f)[i] # None, Drawn(g)[j] # None,
                Drawn(f)[i] + YMax \div (Dots - 1) < Drawn(g)[j]
         PROVE  Scale(Drawn(f)[i]) > Scale(Drawn(g)[j])
    <3>1. Drawn(f)[i] \in Nat /\ Drawn(g)[j] \in Nat /\ Drawn(g)[j] <= YMax
      BY <1>1, <2>10, DrawnIsOnAxis
    <3>. QED
      BY <2>2, <2>10, <3>1, ScaleKeepsOrder
  <2>. QED
    BY <2>6, <2>7, <2>9, <2>10 DEF LineIsTrue, at
<1>2. ScreenInv => LineIsTrue
  BY <1>1 DEF ScreenInv
<1>. QED
  BY <1>2, ScreenIsInductive, PTL

-----------------------------------------------------------------------------
\* The report: the samples that a run has taken.

Phases == {"idle", "cpu", "gpu", "both", "recovery"}
Samples == [phase : Phases, fan : Readings, time : Nat]

ReportTypes ==
  /\ samples \in Seq(Samples)
  /\ ran \in Seq(1..Len(Plan)) /\ Len(ran) = Len(samples)
  /\ current \in 0..Len(Plan)

\* The clock goes forward and so does the plan.
ReportOrder ==
  /\ \A i \in 1..Len(samples) : samples[i].phase = Plan[ran[i]] /\ ran[i] <= current
  /\ \A i, j \in 1..Len(samples) :
       i < j => samples[i].time < samples[j].time /\ ran[i] <= ran[j]

ReportInv == ReportTypes /\ ReportOrder

OneLonger(next, s, e) ==
  /\ Len(next) = Len(s) + 1 /\ next[Len(s) + 1] = e
  /\ \A i \in 1..Len(s) : next[i] = s[i]

LEMMA AppendFacts ==
  ASSUME NEW S, NEW s \in Seq(S), NEW e \in S
  PROVE  Append(s, e) \in Seq(S) /\ OneLonger(Append(s, e), s, e)
<1>1. /\ Append(s, e) \in Seq(S) /\ Len(Append(s, e)) = Len(s) + 1
      /\ Append(s, e)[Len(s) + 1] = e
      /\ \A i \in 1..Len(s) : Append(s, e)[i] = s[i]
  BY AppendProperties
<1>. QED
  BY <1>1 DEF OneLonger

\* A sample is put at the end, later than every other.
LEMMA OneMore ==
  ASSUME ReportInv, [ReportNext]_reportVars
  PROVE  \/ UNCHANGED <<samples, ran, current>>
         \/ \E s \in Samples, p \in 1..Len(Plan) :
              /\ samples' = Append(samples, s) /\ ran' = Append(ran, p)
              /\ current' = p /\ p >= current /\ s.phase = Plan[p]
              /\ \A i \in 1..Len(samples) : samples[i].time < s.time
<1>1. PICK len \in Nat : len = Len(Plan)
  BY ReportAssumption
<1>2. ASSUME NEW p \in 1..len, p >= current, TakeOne(p), ran' = Append(ran, p), current' = p
      PROVE  \E s \in Samples :
               /\ samples' = Append(samples, s) /\ s.phase = Plan[p]
               /\ \A i \in 1..Len(samples) : samples[i].time < s.time
  <2>1. PICK fan \in Readings, wait \in Waits :
          samples' = Append(samples, [phase |-> Plan[p], fan |-> fan,
                       time |-> IF samples = <<>> THEN 0 ELSE Last(samples).time + wait])
    BY <1>2 DEF TakeOne
  <2>2. Plan[p] \in Phases
    BY <1>1, ReportAssumption DEF Phases
  <2>3. wait \in Nat \ {0}
    BY ReportAssumption
  <2>4. PICK m \in Nat : m = Len(samples) /\ samples \in Seq(Samples)
    BY DEF ReportInv, ReportTypes
  <2>5. CASE samples = <<>>
    <3> DEFINE s == [phase |-> Plan[p], fan |-> fan, time |-> 0]
    <3>1. s \in Samples /\ s.phase = Plan[p]
      BY <2>2 DEF Samples
    <3>2. samples' = Append(samples, s)
      BY <2>1, <2>5
    <3>. HIDE DEF s
    <3>3. \A i \in 1..Len(samples) : samples[i].time < s.time
      BY <2>5
    <3>. QED
      BY <3>1, <3>2, <3>3
  <2>6. CASE samples # <<>>
    <3> DEFINE last == Last(samples).time
               s == [phase |-> Plan[p], fan |-> fan, time |-> last + wait]
    <3>1. m >= 1 /\ m \in 1..m
      BY <2>4, <2>6
    <3>2. last = samples[m].time /\ last \in Nat
      <4>1. samples[m] \in Samples
        BY <2>4, <3>1
      <4>2. samples[m].time \in Nat
        BY <4>1 DEF Samples
      <4>. QED
        BY <2>4, <4>2 DEF Last
    <3>. HIDE DEF last
    <3>3. s \in Samples /\ s.phase = Plan[p] /\ s.time = last + wait
      BY <2>2, <2>3, <3>2 DEF Samples
    <3>4. samples' = Append(samples, s)
      BY <2>1, <2>6 DEF last
    <3>. HIDE DEF s
    <3>5. ASSUME NEW i \in 1..Len(samples) PROVE samples[i].time < s.time
      <4>1. samples[i].time \in Nat
        <5>1. samples[i] \in Samples
          BY <2>4
        <5>. QED
          BY <5>1 DEF Samples
      <4>2. samples[i].time <= last
        BY <2>4, <3>1, <3>2, <4>1 DEF ReportInv, ReportOrder
      <4>. QED
        BY <2>3, <3>2, <3>3, <4>1, <4>2
    <3>. QED
      BY <3>3, <3>4, <3>5
  <2>. QED
    BY <2>5, <2>6
<1>3. CASE SampleAgain
  <2>1. /\ current \in 1..len /\ current >= current
        /\ TakeOne(current) /\ ran' = Append(ran, current) /\ current' = current
    BY <1>1, <1>3 DEF SampleAgain, ReportInv, ReportTypes
  <2>. QED
    BY <1>1, <1>2, <2>1
<1>4. CASE SampleNext
  <2>1. /\ current' \in 1..len /\ current' >= current
        /\ TakeOne(current') /\ ran' = Append(ran, current')
    BY <1>1, <1>4 DEF SampleNext, ReportInv, ReportTypes
  <2>. QED
    BY <1>1, <1>2, <2>1
<1>5. CASE UNCHANGED reportVars
  BY <1>5 DEF reportVars
<1>. QED
  BY <1>3, <1>4, <1>5 DEF ReportNext

LEMMA NextReport == ReportInv /\ [ReportNext]_reportVars => ReportInv'
<1> SUFFICES ASSUME ReportInv, [ReportNext]_reportVars PROVE ReportInv'
  OBVIOUS
<1>1. CASE UNCHANGED <<samples, ran, current>>
  BY <1>1 DEF ReportInv, ReportTypes, ReportOrder
<1>2. CASE \E s \in Samples, p \in 1..Len(Plan) :
             /\ samples' = Append(samples, s) /\ ran' = Append(ran, p)
             /\ current' = p /\ p >= current /\ s.phase = Plan[p]
             /\ \A i \in 1..Len(samples) : samples[i].time < s.time
  <2>1. PICK s \in Samples, p \in 1..Len(Plan) :
          /\ samples' = Append(samples, s) /\ ran' = Append(ran, p)
          /\ current' = p /\ p >= current /\ s.phase = Plan[p]
          /\ \A i \in 1..Len(samples) : samples[i].time < s.time
    BY <1>2
  <2>2. PICK m \in Nat : m = Len(samples) /\ m = Len(ran)
                         /\ samples \in Seq(Samples) /\ ran \in Seq(1..Len(Plan))
    BY DEF ReportInv, ReportTypes
  <2>3. /\ samples' \in Seq(Samples) /\ Len(samples') = m + 1
        /\ samples'[m + 1] = s /\ \A i \in 1..m : samples'[i] = samples[i]
    <3>1. samples' = Append(samples, s)
      BY <2>1
    <3>2. samples' \in Seq(Samples) /\ OneLonger(samples', samples, s)
      BY <2>2, <3>1, AppendFacts
    <3>. QED
      BY <2>2, <3>2 DEF OneLonger
  <2>4. /\ ran' \in Seq(1..Len(Plan)) /\ Len(ran') = m + 1
        /\ ran'[m + 1] = p /\ \A i \in 1..m : ran'[i] = ran[i]
    <3>1. ran' = Append(ran, p)
      BY <2>1
    <3>2. ran' \in Seq(1..Len(Plan)) /\ OneLonger(ran', ran, p)
      BY <2>2, <3>1, AppendFacts
    <3>. QED
      BY <2>2, <3>2 DEF OneLonger
  <2>5. PICK len \in Nat : len = Len(Plan)
    BY ReportAssumption
  <2>6. current \in 0..len /\ current' \in 0..len /\ p \in 1..len
    BY <2>1, <2>5 DEF ReportInv, ReportTypes
  <2>7. ReportTypes'
    BY <2>3, <2>4, <2>5, <2>6 DEF ReportTypes
  <2>8. ASSUME NEW i \in 1..(m + 1) PROVE samples'[i].phase = Plan[ran'[i]] /\ ran'[i] <= current'
    <3>1. CASE i = m + 1
      BY <2>1, <2>3, <2>4, <2>6, <3>1
    <3>2. CASE i # m + 1
      <4>1. i \in 1..m
        BY <3>2
      <4>2. ran[i] \in 1..len /\ ran[i] <= current /\ samples[i].phase = Plan[ran[i]]
        BY <2>2, <2>5, <4>1 DEF ReportInv, ReportOrder
      <4>. QED
        BY <2>1, <2>3, <2>4, <2>6, <4>1, <4>2
    <3>. QED
      BY <3>1, <3>2
  <2>9. ASSUME NEW i \in 1..(m + 1), NEW j \in 1..(m + 1), i < j
        PROVE  samples'[i].time < samples'[j].time /\ ran'[i] <= ran'[j]
    <3>1. i \in 1..m
      BY <2>9
    <3>2. CASE j = m + 1
      <4>1. ran[i] \in 1..len /\ ran[i] <= current
        BY <2>2, <2>5, <3>1 DEF ReportInv, ReportOrder
      <4>. QED
        BY <2>1, <2>2, <2>3, <2>4, <2>6, <3>1, <3>2, <4>1
    <3>3. CASE j # m + 1
      <4>1. j \in 1..m
        BY <3>3
      <4>. QED
        BY <2>2, <2>3, <2>4, <2>9, <3>1, <4>1 DEF ReportInv, ReportOrder
    <3>. QED
      BY <3>2, <3>3
  <2>10. ReportOrder'
    BY <2>3, <2>8, <2>9 DEF ReportOrder
  <2>. QED
    BY <2>7, <2>10 DEF ReportInv
<1>. QED
  BY <1>1, <1>2, OneMore

\* The samples of a run are in the order of the clock and of the plan (stress.py 412-463).
THEOREM ReportIsInductive == ReportSpec => []ReportInv
<1>1. ReportInit => ReportInv
  BY ReportAssumption DEF ReportInit, ReportInv, ReportTypes, ReportOrder
<1>. QED
  BY <1>1, NextReport, PTL DEF ReportSpec

-----------------------------------------------------------------------------
\* The blocks of a report, which are stretches of its samples.

IsBlock(block, all, first, last) ==
  /\ first \in 1..Len(all) /\ last \in first..Len(all)
  /\ block \in Seq(Samples) /\ Len(block) = last - first + 1
  /\ \A i \in 1..Len(block) : block[i] = all[first + i - 1]

\* A block goes on to the next cut, or to the end.
EndsAt(all, first, last) ==
  /\ \A i \in (first + 1)..last : i \notin Starts(all)
  /\ last = Len(all) \/ last + 1 \in Starts(all)

LEMMA OneStretch ==
  ASSUME NEW all \in Seq(Samples), NEW first \in 1..Len(all), NEW last \in first..Len(all)
  PROVE  IsBlock(SubSeq(all, first, last), all, first, last)
<1> DEFINE block == SubSeq(all, first, last)
<1>1. PICK m \in Nat : m = Len(all)
  OBVIOUS
<1>2. first \in 1..m /\ last \in first..m /\ first \in Int /\ last \in Int
  BY <1>1
<1>3. \A i \in first..last : all[i] \in Samples
  <2> SUFFICES ASSUME NEW i \in first..last PROVE all[i] \in Samples
    OBVIOUS
  <2>1. i \in 1..Len(all)
    BY <1>1, <1>2
  <2>. QED
    BY <2>1
<1>4. /\ block \in Seq(Samples)
      /\ Len(block) = IF first <= last THEN last - first + 1 ELSE 0
      /\ \A i \in 1..(last - first + 1) : block[i] = all[first + i - 1]
  BY <1>2, <1>3, SubSeqProperties
<1>. HIDE DEF block
<1>5. Len(block) = last - first + 1
  BY <1>2, <1>4
<1>6. IsBlock(block, all, first, last)
  BY <1>4, <1>5 DEF IsBlock
<1>. QED
  BY <1>6 DEF block

LEMMA BlockEnds ==
  ASSUME NEW all \in Seq(Samples), NEW first \in Starts(all)
  PROVE  \E last \in first..Len(all) :
           /\ IsBlock(Block(all, first), all, first, last)
           /\ EndsAt(all, first, last)
<1> DEFINE later == {i \in Starts(all) : i > first}
           last == IF later = {} THEN Len(all) ELSE Min(later) - 1
<1>1. PICK m \in Nat : m = Len(all) /\ DOMAIN all = 1..m
  OBVIOUS
<1>2. Starts(all) \subseteq 1..m /\ first \in 1..m
  BY <1>1 DEF Starts
<1>3. later \subseteq Nat /\ later \subseteq 1..m /\ \A i \in later : i > first
  BY <1>2
<1>4. Block(all, first) = SubSeq(all, first, last)
  BY DEF Block
<1>5. \A i \in Starts(all) : i > first => i \in later
  OBVIOUS
<1>6. later \subseteq Starts(all)
  OBVIOUS
<1>7. last \in first..m /\ EndsAt(all, first, last)
  <2>1. CASE later = {}
    <3>1. last = m
      BY <1>1, <2>1
    <3> HIDE DEF later, last
    <3>. QED
      BY <1>1, <1>2, <1>5, <2>1, <3>1 DEF EndsAt
  <2>2. CASE later # {}
    <3> HIDE DEF later
    <3>1. Min(later) \in later /\ \A i \in later : Min(later) <= i
      BY <1>3, <2>2, MinFacts
    <3>2. PICK k \in 1..m : k = Min(later)
      BY <1>3, <3>1
    <3>3. last = k - 1 /\ k > first /\ k \in Starts(all) /\ \A i \in later : k <= i
      BY <1>3, <1>6, <2>2, <3>1, <3>2
    <3> HIDE DEF last
    <3>. QED
      BY <1>1, <1>2, <1>5, <3>2, <3>3 DEF EndsAt
  <2>. QED
    BY <2>1, <2>2
<1>. HIDE DEF later, last
<1>8. IsBlock(SubSeq(all, first, last), all, first, last)
  BY <1>1, <1>2, <1>7, OneStretch
<1>. QED
  BY <1>1, <1>4, <1>7, <1>8

\* Where a block of a name starts and ends is where a block of the plan does.
LEMMA BlockIsPhase == ReportInv => BlocksArePhases
<1> SUFFICES ASSUME ReportInv, ~RanTwiceInARow, NEW index \in ToSet(ran)
             PROVE  LET of == {i \in DOMAIN samples : ran[i] = index}
                        summary == Summary(Block(samples, Min(of)))
                    IN  /\ of \cap Starts(samples) = {Min(of)}
                        /\ summary.phase = Plan[index]
                        /\ summary.seconds = samples[Max(of)].time - samples[Min(of)].time + 1
  BY DEF BlocksArePhases
<1> DEFINE of == {i \in DOMAIN samples : ran[i] = index}
           summary == Summary(Block(samples, Min(of)))
<1>1. PICK m \in Nat : m = Len(samples) /\ m = Len(ran)
                       /\ samples \in Seq(Samples) /\ ran \in Seq(1..Len(Plan))
                       /\ DOMAIN samples = 1..m
  BY DEF ReportInv, ReportTypes
<1>2. PICK len \in Nat : len = Len(Plan)
  BY ReportAssumption
<1>3. \A i \in 1..m : ran[i] \in 1..len /\ samples[i].phase = Plan[ran[i]]
  BY <1>1, <1>2 DEF ReportInv, ReportOrder
<1>4. \A i, j \in 1..m : i < j => ran[i] <= ran[j]
  BY <1>1 DEF ReportInv, ReportOrder
<1>5. of # {} /\ of \subseteq Nat /\ of \subseteq 1..m /\ index \in 1..len
  BY <1>1, <1>3 DEF ToSet
<1>6. \A i \in 1..m : i \in of <=> ran[i] = index
  BY <1>1
<1>7. PICK a \in of, b \in of : /\ a = Min(of) /\ b = Max(of)
                                /\ \A i \in of : a <= i /\ i <= b
  <2>. HIDE DEF of
  <2>1. Min(of) \in of /\ \A i \in of : Min(of) <= i
    BY <1>5, MinFacts
  <2>2. Max(of) \in of /\ \A i \in of : Max(of) >= i
    <3>1. \A i \in of : i <= m
      BY <1>5
    <3>. QED
      BY <1>5, <3>1, MaxFacts
  <2>3. \A i \in of : Min(of) <= i /\ i <= Max(of)
    BY <1>5, <2>1, <2>2
  <2>. QED
    BY <2>1, <2>2, <2>3
<1>. HIDE DEF of
<1>8. a \in 1..m /\ b \in a..m /\ ran[a] = index /\ ran[b] = index
  BY <1>5, <1>6, <1>7
<1>9. \A i \in a..b : i \in of
  <2> SUFFICES ASSUME NEW i \in a..b, i # a, i # b PROVE i \in of
    BY <1>7
  <2>1. i \in 1..m /\ a < i /\ i < b
    BY <1>8
  <2>2. ran[a] <= ran[i] /\ ran[i] <= ran[b]
    BY <1>4, <1>8, <2>1
  <2>. QED
    BY <1>3, <1>5, <1>6, <1>8, <2>1, <2>2
<1>10. \A i \in 1..m : i \in Starts(samples) <=> (i = 1 \/ ran[i - 1] # ran[i])
  <2> SUFFICES ASSUME NEW i \in 1..m
               PROVE  i \in Starts(samples) <=> (i = 1 \/ ran[i - 1] # ran[i])
    OBVIOUS
  <2>1. i \in Starts(samples) <=> (i = 1 \/ samples[i - 1].phase # samples[i].phase)
    BY <1>1 DEF Starts, StartsBlock
  <2>2. CASE i # 1
    <3>1. i \in 2..Len(samples) /\ i - 1 \in 1..m
      BY <1>1, <2>2
    <3>2. ran[i] # ran[i - 1] => samples[i].phase # samples[i - 1].phase
      BY <3>1 DEF RanTwiceInARow
    <3>3. ran[i] = ran[i - 1] => samples[i].phase = samples[i - 1].phase
      BY <1>3, <3>1
    <3>. QED
      BY <2>1, <2>2, <3>2, <3>3
  <2>. QED
    BY <2>1, <2>2
<1>11. a \in Starts(samples)
  <2>1. CASE a # 1
    <3>1. a - 1 \in 1..m /\ ~(a <= a - 1)
      BY <1>8, <2>1
    <3>2. a - 1 \notin of
      BY <1>7, <3>1
    <3>. QED
      BY <1>6, <1>8, <1>10, <3>1, <3>2
  <2>. QED
    BY <1>8, <1>10, <2>1
<1>12. \A i \in (a + 1)..b : i \notin Starts(samples)
  <2> SUFFICES ASSUME NEW i \in (a + 1)..b PROVE i \notin Starts(samples)
    OBVIOUS
  <2>1. i \in a..b /\ i - 1 \in a..b /\ i \in 1..m /\ i - 1 \in 1..m /\ i # 1
    BY <1>8
  <2>. QED
    BY <1>6, <1>9, <1>10, <2>1
<1>13. b = m \/ b + 1 \in Starts(samples)
  <2> SUFFICES ASSUME b # m PROVE b + 1 \in Starts(samples)
    OBVIOUS
  <2>1. b + 1 \in 1..m /\ (b + 1) - 1 = b /\ ~(b + 1 <= b)
    BY <1>8
  <2>2. b + 1 \notin of
    BY <1>7, <2>1
  <2>3. ran[b + 1] # ran[(b + 1) - 1]
    BY <1>6, <1>8, <2>1, <2>2
  <2>. QED
    BY <1>10, <2>1, <2>3
<1>14. of \cap Starts(samples) = {a}
  <2>1. ASSUME NEW i \in of, i \in Starts(samples) PROVE i = a
    <3>1. i \in 1..m /\ a <= i /\ i <= b
      BY <1>5, <1>7, <2>1
    <3>2. i \notin (a + 1)..b
      BY <1>12, <2>1
    <3>. QED
      BY <1>8, <3>1, <3>2
  <2>. QED
    BY <1>7, <1>11, <2>1
<1>15. PICK last \in a..Len(samples) : /\ IsBlock(Block(samples, a), samples, a, last)
                                       /\ EndsAt(samples, a, last)
  BY <1>1, <1>11, BlockEnds
<1>16. last = b
  <2>1. last \in a..m
    BY <1>1, <1>15
  <2>2. CASE last < b
    <3>1. last + 1 \in (a + 1)..b /\ last # m
      BY <1>8, <2>1, <2>2
    <3>. QED
      BY <1>1, <1>12, <1>15, <3>1 DEF EndsAt
  <2>3. CASE last > b
    <3>1. b + 1 \in (a + 1)..last /\ b # m
      BY <1>8, <2>1, <2>3
    <3>. QED
      BY <1>13, <1>15, <3>1 DEF EndsAt
  <2>. QED
    BY <1>8, <2>1, <2>2, <2>3
<1> DEFINE block == Block(samples, a)
<1>17. /\ block \in Seq(Samples) /\ Len(block) = b - a + 1
       /\ \A i \in 1..Len(block) : block[i] = samples[a + i - 1]
  BY <1>15, <1>16 DEF IsBlock
<1>. HIDE DEF block
<1>18. 1 \in 1..Len(block) /\ Len(block) \in 1..Len(block)
       /\ a + 1 - 1 = a /\ a + Len(block) - 1 = b
  BY <1>8, <1>17
<1>19. block[1] = samples[a] /\ Last(block) = samples[b] /\ Head(block) = samples[a]
  BY <1>17, <1>18 DEF Last
<1>20. Summary(block).phase = Plan[index]
  BY <1>3, <1>8, <1>19 DEF Summary
<1>21. Seconds(block) = samples[b].time - samples[a].time + 1
  <2>1. CASE Len(block) < 2
    <3>1. samples[a] \in Samples /\ a = b /\ Len(block) = 1
      BY <1>1, <1>8, <1>17, <2>1
    <3>2. samples[a].time \in Nat
      BY <3>1 DEF Samples
    <3>. QED
      BY <2>1, <3>1, <3>2 DEF Seconds
  <2>2. CASE ~(Len(block) < 2)
    BY <1>19, <2>2 DEF Seconds
  <2>. QED
    BY <2>1, <2>2
<1>22. Summary(block).seconds = samples[b].time - samples[a].time + 1
  BY <1>21 DEF Summary
<1>23. summary = Summary(block)
  BY <1>7 DEF block
<1>. HIDE DEF summary
<1>24. /\ of \cap Starts(samples) = {Min(of)}
       /\ summary.phase = Plan[index]
       /\ summary.seconds = samples[Max(of)].time - samples[Min(of)].time + 1
  BY <1>7, <1>14, <1>20, <1>22, <1>23
<1>. QED
  BY <1>24 DEF of, summary

\* A report has one block for each phase that ran, of its name and as long as it was
\* (stress.py 242-272).
THEOREM BlocksAreAlwaysPhases == ReportSpec => []BlocksArePhases
<1>1. ReportInv => BlocksArePhases
  BY BlockIsPhase
<1>. QED
  BY <1>1, ReportIsInductive, PTL

-----------------------------------------------------------------------------
\* What is said of the fan in a block.

IsRun(block) ==
  /\ block \in Seq(Samples) /\ Len(block) \in Nat \ {0}
  /\ \A i, j \in 1..Len(block) : i < j => block[i].time < block[j].time

LEMMA BlockIsRun ==
  ASSUME ReportInv, NEW first \in Starts(samples)
  PROVE  IsRun(Block(samples, first))
<1> DEFINE block == Block(samples, first)
<1>1. PICK m \in Nat : m = Len(samples) /\ samples \in Seq(Samples)
  BY DEF ReportInv, ReportTypes
<1>2. PICK last \in first..Len(samples) : IsBlock(block, samples, first, last)
  BY <1>1, BlockEnds
<1>. HIDE DEF block
<1>3. /\ first \in 1..m /\ last \in first..m
      /\ block \in Seq(Samples) /\ Len(block) = last - first + 1
      /\ \A i \in 1..Len(block) : block[i] = samples[first + i - 1]
  BY <1>1, <1>2 DEF IsBlock
<1>4. Len(block) \in Nat \ {0}
  BY <1>3
<1>5. ASSUME NEW i \in 1..Len(block), NEW j \in 1..Len(block), i < j
      PROVE  block[i].time < block[j].time
  <2> DEFINE p == first + i - 1
             q == first + j - 1
  <2>1. p \in 1..m /\ q \in 1..m
    BY <1>3
  <2>2. p < q
    BY <1>3, <1>5
  <2>3. block[i] = samples[p] /\ block[j] = samples[q]
    BY <1>3
  <2> HIDE DEF p, q
  <2>4. samples[p].time < samples[q].time
    BY <1>1, <2>1, <2>2 DEF ReportInv, ReportOrder
  <2>. QED
    BY <2>3, <2>4
<1>6. IsRun(block)
  BY <1>3, <1>4, <1>5 DEF IsRun
<1>. QED
  BY <1>6 DEF block

\* The two series of the fan, and where it is in them.
LEMMA SeriesOfBlock ==
  ASSUME NEW block \in Seq(Samples)
  PROVE  /\ RpmsOf(block) \in Seq(Nat \cup {None}) /\ Len(RpmsOf(block)) = Len(block)
         /\ DutiesOf(block) \in Seq(Nat \cup {None}) /\ Len(DutiesOf(block)) = Len(block)
         /\ Present(block) \subseteq 1..Len(block)
         /\ Known(RpmsOf(block)) \subseteq Present(block)
         /\ Known(DutiesOf(block)) \subseteq Present(block)
         /\ \A i \in Present(block) : /\ block[i].fan.rpm = RpmsOf(block)[i]
                                      /\ block[i].fan.duty = DutiesOf(block)[i]
<1>1. PICK m \in Nat : m = Len(block) /\ DOMAIN block = 1..m
  OBVIOUS
<1>2. Present(block) \subseteq 1..m
  BY <1>1 DEF Present
<1>3. ASSUME NEW i \in Present(block)
      PROVE  block[i].fan.rpm \in Nat \cup {None} /\ block[i].fan.duty \in Nat \cup {None}
  <2>1. block[i] \in Samples /\ block[i].fan # None
    BY <1>1, <1>2 DEF Present
  <2>2. block[i].fan \in [rpm : Rpms, duty : Duties]
    BY <2>1 DEF Samples, Readings
  <2>3. block[i].fan.rpm \in Rpms /\ block[i].fan.duty \in Duties
    BY <2>2
  <2>. QED
    BY <2>3, ReportAssumption
<1> DEFINE R == RpmsOf(block)
           D == DutiesOf(block)
<1>4. /\ R = [i \in 1..m |-> IF i \in Present(block) THEN block[i].fan.rpm ELSE None]
      /\ D = [i \in 1..m |-> IF i \in Present(block) THEN block[i].fan.duty ELSE None]
  BY <1>1 DEF RpmsOf, DutiesOf
<1>. HIDE DEF R, D
<1>5. R \in [1..m -> Nat \cup {None}] /\ D \in [1..m -> Nat \cup {None}]
  BY <1>3, <1>4
<1>6. R \in Seq(Nat \cup {None}) /\ Len(R) = m /\ D \in Seq(Nat \cup {None}) /\ Len(D) = m
  BY <1>5, SeqDef
<1>7. Known(R) \subseteq Present(block) /\ Known(D) \subseteq Present(block)
  BY <1>4 DEF Known
<1>8. \A i \in Present(block) : block[i].fan.rpm = R[i] /\ block[i].fan.duty = D[i]
  BY <1>2, <1>4
<1>. QED
  BY <1>1, <1>2, <1>6, <1>7, <1>8 DEF R, D

\* A rise over the first reading is a rise of the peak, comes after the first reading,
\* and needs both; for the speed and for the duty alike.
RpmRises(readings) == {i \in DOMAIN readings : RoseRpm(FirstOf(readings), readings[i])}
DutyRises(readings) == {i \in DOMAIN readings : RoseDuty(FirstOf(readings), readings[i])}

LEMMA RiseOfRpm ==
  ASSUME NEW readings \in Seq(Nat \cup {None})
  PROVE  /\ RpmRises(readings) # {} <=> RoseRpm(FirstOf(readings), PeakOf(readings))
         /\ \A i \in RpmRises(readings) : i \in Known(readings) /\ i \in 2..Len(readings)
<1> DEFINE first == FirstOf(readings)
           peak == PeakOf(readings)
<1>1. DOMAIN readings = 1..Len(readings) /\ Len(readings) \in Nat
  OBVIOUS
<1>2. \A i \in Known(readings) : i \in 1..Len(readings) /\ readings[i] \in Nat
  BY <1>1 DEF Known
<1>3. ASSUME NEW i \in RpmRises(readings)
      PROVE  i \in Known(readings) /\ i \in 2..Len(readings) /\ RoseRpm(first, peak)
  <2>1. /\ i \in Known(readings) /\ i \in 1..Len(readings) /\ readings[i] \in Nat
        /\ first # None /\ 10 * readings[i] >= 11 * first + 10
    BY <1>1, <1>2, <1>3 DEF RpmRises, RoseRpm, Known
  <2>2. PICK k \in Known(readings) : first = readings[k] /\ k <= i /\ first \in Nat
    BY <2>1, FirstFacts
  <2>3. readings[i] # first
    BY <2>1, <2>2
  <2>4. k # i
    BY <2>2, <2>3
  <2>5. k \in 1..Len(readings)
    BY <1>2
  <2>6. i \in 2..Len(readings)
    BY <1>1, <2>1, <2>2, <2>4, <2>5
  <2>7. peak \in Nat /\ peak # None /\ readings[i] <= peak
    BY <2>1, PeakFacts DEF Known
  <2> HIDE DEF first, peak
  <2>. QED
    BY <2>1, <2>2, <2>6, <2>7 DEF RoseRpm
<1>4. ASSUME RoseRpm(first, peak) PROVE RpmRises(readings) # {}
  <2>1. peak # None
    BY <1>4 DEF RoseRpm
  <2>2. PICK i \in Known(readings) : readings[i] = peak
    BY <2>1, PeakIsTaken
  <2>3. i \in DOMAIN readings /\ RoseRpm(first, readings[i])
    BY <1>4, <2>2 DEF Known
  <2>. QED
    BY <2>3 DEF RpmRises
<1>. QED
  BY <1>3, <1>4

LEMMA RiseOfDuty ==
  ASSUME NEW readings \in Seq(Nat \cup {None})
  PROVE  /\ DutyRises(readings) # {} <=> RoseDuty(FirstOf(readings), PeakOf(readings))
         /\ \A i \in DutyRises(readings) : i \in Known(readings) /\ i \in 2..Len(readings)
<1> DEFINE first == FirstOf(readings)
           peak == PeakOf(readings)
<1>1. DOMAIN readings = 1..Len(readings) /\ Len(readings) \in Nat
  OBVIOUS
<1>2. \A i \in Known(readings) : i \in 1..Len(readings) /\ readings[i] \in Nat
  BY <1>1 DEF Known
<1>3. ASSUME NEW i \in DutyRises(readings)
      PROVE  i \in Known(readings) /\ i \in 2..Len(readings) /\ RoseDuty(first, peak)
  <2>1. /\ i \in Known(readings) /\ i \in 1..Len(readings) /\ readings[i] \in Nat
        /\ first # None /\ readings[i] >= first + 2
    BY <1>1, <1>2, <1>3 DEF DutyRises, RoseDuty, Known
  <2>2. PICK k \in Known(readings) : first = readings[k] /\ k <= i /\ first \in Nat
    BY <2>1, FirstFacts
  <2>3. readings[i] # first
    BY <2>1, <2>2
  <2>4. k # i
    BY <2>2, <2>3
  <2>5. k \in 1..Len(readings)
    BY <1>2
  <2>6. i \in 2..Len(readings)
    BY <1>1, <2>1, <2>2, <2>4, <2>5
  <2>7. peak \in Nat /\ peak # None /\ readings[i] <= peak
    BY <2>1, PeakFacts DEF Known
  <2> HIDE DEF first, peak
  <2>. QED
    BY <2>1, <2>2, <2>6, <2>7 DEF RoseDuty
<1>4. ASSUME RoseDuty(first, peak) PROVE DutyRises(readings) # {}
  <2>1. peak # None
    BY <1>4 DEF RoseDuty
  <2>2. PICK i \in Known(readings) : readings[i] = peak
    BY <2>1, PeakIsTaken
  <2>3. i \in DOMAIN readings /\ RoseDuty(first, readings[i])
    BY <1>4, <2>2 DEF Known
  <2>. QED
    BY <2>3 DEF DutyRises
<1>. QED
  BY <1>3, <1>4

LEMMA RisesOfBlock ==
  ASSUME NEW block \in Seq(Samples)
  PROVE  /\ Rises(block) = RpmRises(RpmsOf(block)) \cup DutyRises(DutiesOf(block))
         /\ Rises(block) \subseteq 2..Len(block)
<1> DEFINE R == RpmsOf(block)
           D == DutiesOf(block)
<1>1. /\ R \in Seq(Nat \cup {None}) /\ Len(R) = Len(block)
      /\ D \in Seq(Nat \cup {None}) /\ Len(D) = Len(block)
      /\ Present(block) \subseteq 1..Len(block)
      /\ Known(R) \subseteq Present(block) /\ Known(D) \subseteq Present(block)
      /\ \A i \in Present(block) : block[i].fan.rpm = R[i] /\ block[i].fan.duty = D[i]
  BY SeriesOfBlock
<1>2. Rises(block) = {i \in Present(block) : \/ RoseRpm(FirstOf(R), block[i].fan.rpm)
                                             \/ RoseDuty(FirstOf(D), block[i].fan.duty)}
  BY DEF Rises, Reference
<1>. HIDE DEF R, D
<1>3. DOMAIN R = 1..Len(block) /\ DOMAIN D = 1..Len(block)
  BY <1>1
<1>4. ASSUME NEW i \in RpmRises(R) PROVE i \in Present(block) /\ i \in 2..Len(block)
  BY <1>1, <1>4, RiseOfRpm
<1>5. ASSUME NEW i \in DutyRises(D) PROVE i \in Present(block) /\ i \in 2..Len(block)
  BY <1>1, <1>5, RiseOfDuty
<1>6. \A i \in Present(block) : /\ i \in RpmRises(R) <=> RoseRpm(FirstOf(R), block[i].fan.rpm)
                                /\ i \in DutyRises(D) <=> RoseDuty(FirstOf(D), block[i].fan.duty)
  BY <1>1, <1>3 DEF RpmRises, DutyRises
<1>7. Rises(block) = RpmRises(R) \cup DutyRises(D)
  BY <1>2, <1>4, <1>5, <1>6
<1>8. Rises(block) \subseteq 2..Len(block)
  BY <1>4, <1>5, <1>7
<1>. QED
  BY <1>7, <1>8 DEF R, D

\* The order in which _fan_summary asks decides nothing: one question excludes another.
LEMMA VerdictFacts ==
  ASSUME NEW block, IsRun(block), Present(block) # {}
  PROVE  LET R == RpmsOf(block)
             D == DutiesOf(block)
             unknown == PeakOf(R) = None /\ PeakOf(D) = None
             atEnd == block[Max(Present(block))].fan
         IN  /\ unknown => ~StoppedFan(block) /\ Rises(block) = {}
             /\ StoppedFan(block) => atEnd.rpm = 0 /\ atEnd.duty \notin {0, None}
             /\ PeakOf(R) = 0 /\ (\A i \in Present(block) : /\ block[i].fan.rpm # None
                                                            /\ block[i].fan.duty \notin {0, None})
                  => StoppedFan(block)
<1> DEFINE R == RpmsOf(block)
           D == DutiesOf(block)
           unknown == PeakOf(R) = None /\ PeakOf(D) = None
           present == Present(block)
           after(i) == {j \in present : j > i}
           tail == {i \in present : Cardinality(after(i)) < STALL_SAMPLES}
           atEnd == block[Max(present)].fan
<1>1. block \in Seq(Samples) /\ Len(block) \in Nat
  BY DEF IsRun
<1>2. /\ R \in Seq(Nat \cup {None}) /\ Len(R) = Len(block)
      /\ D \in Seq(Nat \cup {None}) /\ Len(D) = Len(block)
      /\ present \subseteq 1..Len(block)
      /\ \A i \in present : block[i].fan.rpm = R[i] /\ block[i].fan.duty = D[i]
  BY <1>1, SeriesOfBlock
<1>3. StoppedFan(block) <=>
        /\ tail # {}
        /\ \A i \in tail : block[i].fan.rpm = 0 /\ block[i].fan.duty \in Nat \ {0}
  BY DEF StoppedFan
<1>4. Rises(block) = RpmRises(R) \cup DutyRises(D)
  BY <1>1, RisesOfBlock
<1>5. PICK newest \in present : newest = Max(present) /\ \A i \in present : newest >= i
  <2> HIDE DEF present
  <2>1. present \subseteq Nat /\ \A i \in present : i <= Len(block)
    BY <1>1, <1>2
  <2>2. present # {}
    BY DEF present
  <2>. QED
    BY <1>1, <2>1, <2>2, MaxFacts
<1>6. newest \in tail
  <2>1. after(newest) = {}
    <3> HIDE DEF present
    <3>1. \A i \in present : ~(i > newest)
      BY <1>1, <1>2, <1>5
    <3>. QED
      BY <3>1
  <2>2. Cardinality(after(newest)) = 0
    BY <2>1, FS_EmptySet
  <2>. QED
    BY <2>2, ReportAssumption
<1>7. tail \subseteq present
  OBVIOUS
<1>. HIDE DEF R, D, present, tail
<1>8. \A i \in present : R[i] \in Nat \cup {None} /\ D[i] \in Nat \cup {None}
  BY <1>1, <1>2
<1>9. \A i \in present : R[i] # None => /\ PeakOf(R) \in Nat /\ PeakOf(R) # None
                                        /\ R[i] <= PeakOf(R)
  BY <1>1, <1>2, PeakFacts
<1>10. ASSUME unknown PROVE ~StoppedFan(block) /\ Rises(block) = {}
  <2>1. RpmRises(R) = {}
    <3>1. ~RoseRpm(FirstOf(R), PeakOf(R))
      BY <1>10 DEF RoseRpm
    <3>. QED
      BY <1>2, <3>1, RiseOfRpm
  <2>2. DutyRises(D) = {}
    <3>1. ~RoseDuty(FirstOf(D), PeakOf(D))
      BY <1>10 DEF RoseDuty
    <3>. QED
      BY <1>2, <3>1, RiseOfDuty
  <2>3. ASSUME StoppedFan(block) PROVE FALSE
    <3>1. R[newest] = 0
      BY <1>2, <1>3, <1>5, <1>6, <2>3
    <3>2. R[newest] # None
      BY <3>1, ReportAssumption
    <3>. QED
      BY <1>5, <1>9, <1>10, <3>2
  <2>. QED
    BY <1>4, <2>1, <2>2, <2>3
<1>11. ASSUME StoppedFan(block) PROVE atEnd.rpm = 0 /\ atEnd.duty \notin {0, None}
  <2>1. block[newest].fan.rpm = 0 /\ block[newest].fan.duty \in Nat \ {0}
    BY <1>3, <1>6, <1>11
  <2>. QED
    BY <1>5, <2>1, ReportAssumption
<1>12. ASSUME PeakOf(R) = 0, \A i \in present : /\ block[i].fan.rpm # None
                                               /\ block[i].fan.duty \notin {0, None}
       PROVE  StoppedFan(block)
  <2>1. ASSUME NEW i \in tail
        PROVE  block[i].fan.rpm = 0 /\ block[i].fan.duty \in Nat \ {0}
    <3>1. i \in present
      BY <1>7
    <3>2. R[i] # None /\ D[i] \notin {0, None}
      BY <1>2, <1>12, <3>1
    <3>3. R[i] \in Nat /\ D[i] \in Nat /\ R[i] <= 0
      BY <1>8, <1>9, <1>12, <3>1, <3>2
    <3>4. R[i] = 0 /\ D[i] \in Nat \ {0}
      BY <3>2, <3>3
    <3>. QED
      BY <1>2, <3>1, <3>4
  <2>. QED
    BY <1>3, <1>6, <2>1
<1>. QED
  BY <1>10, <1>11, <1>12 DEF R, D, present

\* When the fan responded, and that it is within the seconds of the phase.
LEMMA ResponseFacts ==
  ASSUME NEW block, IsRun(block)
  PROVE  /\ RespondedAfter(block) # None <=> Rises(block) # {}
         /\ Rises(block) # {} => RespondedAfter(block) \in 1..(Seconds(block) - 1)
<1>1. /\ block \in Seq(Samples) /\ Len(block) \in Nat \ {0}
      /\ \A i, j \in 1..Len(block) : i < j => block[i].time < block[j].time
  BY DEF IsRun
<1> DEFINE rises == Rises(block)
           time(i) == block[i].time
<1>2. \A i \in 1..Len(block) : time(i) \in Nat
  <2> SUFFICES ASSUME NEW i \in 1..Len(block) PROVE time(i) \in Nat
    OBVIOUS
  <2>1. block[i] \in Samples
    BY <1>1
  <2>. QED
    BY <2>1 DEF Samples
<1>3. rises \subseteq 2..Len(block)
  BY <1>1, RisesOfBlock
<1>4. RespondedAfter(block) = IF rises = {} THEN None ELSE time(Min(rises)) - time(1)
  BY DEF RespondedAfter
<1>5. Seconds(block) = IF Len(block) < 2 THEN Len(block) ELSE time(Len(block)) - time(1) + 1
  BY <1>1 DEF Seconds, Last
<1>6. \A i, j \in 1..Len(block) : i < j => time(i) < time(j)
  BY <1>1
<1>. HIDE DEF rises, time
<1>7. ASSUME rises # {} PROVE RespondedAfter(block) \in 1..(Seconds(block) - 1)
  <2>1. Min(rises) \in rises
    <3>1. rises \subseteq Nat
      BY <1>3
    <3>. QED
      BY <1>7, <3>1, MinFacts
  <2>2. PICK k \in 2..Len(block) : k = Min(rises)
    BY <1>3, <2>1
  <2>3. time(1) < time(k) /\ time(k) <= time(Len(block)) /\ ~(Len(block) < 2)
    <3>1. 1 \in 1..Len(block) /\ k \in 1..Len(block) /\ Len(block) \in 1..Len(block)
          /\ 1 < k /\ (k < Len(block) \/ k = Len(block))
      BY <1>1
    <3>2. time(k) \in Nat
      BY <1>2, <3>1
    <3>. QED
      BY <1>1, <1>2, <1>6, <3>1, <3>2
  <2>4. time(1) \in Nat /\ time(k) \in Nat /\ time(Len(block)) \in Nat
    BY <1>1, <1>2
  <2>5. RespondedAfter(block) = time(k) - time(1)
    BY <1>4, <1>7, <2>2
  <2>6. Seconds(block) = time(Len(block)) - time(1) + 1
    BY <1>5, <2>3
  <2>. QED
    BY <2>3, <2>4, <2>5, <2>6
<1>8. ASSUME rises # {} PROVE RespondedAfter(block) # None
  <2>1. Seconds(block) \in Int
    BY <1>1, <1>2, <1>5
  <2>2. RespondedAfter(block) \in Nat
    BY <1>7, <1>8, <2>1
  <2>. QED
    BY <2>2, ReportAssumption
<1>9. rises = {} => RespondedAfter(block) = None
  BY <1>4
<1>. QED
  BY <1>7, <1>8, <1>9 DEF rises

LEMMA RunIsBorneOut == ReportInv => VerdictIsBorneOut
<1> SUFFICES ASSUME ReportInv, NEW first \in Starts(samples)
             PROVE  LET block == Block(samples, first)
                        fan == FanSummary(block)
                        rose == RoseRpm(fan.rpmStart, fan.rpmPeak)
                                \/ RoseDuty(fan.dutyStart, fan.dutyPeak)
                        readings == {block[i].fan : i \in Present(block)}
                        atEnd == block[Max(Present(block))].fan
                    IN  fan # None =>
                          /\ fan.respondedAfter # None <=> rose
                          /\ rose => fan.respondedAfter \in 1..(Seconds(block) - 1)
                          /\ fan.verdict = "responded" => rose
                          /\ fan.verdict = "flat" => ~rose
                          /\ fan.verdict = "unknown" <=> fan.rpmPeak = None /\ fan.dutyPeak = None
                          /\ fan.verdict = "stopped" => atEnd.rpm = 0 /\ atEnd.duty \notin {0, None}
                          /\ fan.rpmPeak = 0 /\ (\A r \in readings : /\ r.rpm # None
                                                                     /\ r.duty \notin {0, None}) =>
                               fan.verdict = "stopped"
  BY DEF VerdictIsBorneOut
<1> DEFINE block == Block(samples, first)
           fan == FanSummary(block)
           rose == RoseRpm(fan.rpmStart, fan.rpmPeak) \/ RoseDuty(fan.dutyStart, fan.dutyPeak)
           R == RpmsOf(block)
           D == DutiesOf(block)
           unknown == PeakOf(R) = None /\ PeakOf(D) = None
           readings == {block[i].fan : i \in Present(block)}
           atEnd == block[Max(Present(block))].fan
<1>1. IsRun(block)
  BY BlockIsRun
<1>. HIDE DEF block
<1> SUFFICES ASSUME fan # None
             PROVE  /\ fan.respondedAfter # None <=> rose
                    /\ rose => fan.respondedAfter \in 1..(Seconds(block) - 1)
                    /\ fan.verdict = "responded" => rose
                    /\ fan.verdict = "flat" => ~rose
                    /\ fan.verdict = "unknown" <=> fan.rpmPeak = None /\ fan.dutyPeak = None
                    /\ fan.verdict = "stopped" => atEnd.rpm = 0 /\ atEnd.duty \notin {0, None}
                    /\ fan.rpmPeak = 0 /\ (\A r \in readings : /\ r.rpm # None
                                                               /\ r.duty \notin {0, None}) =>
                         fan.verdict = "stopped"
  BY DEF block
<1>2. /\ Present(block) # {}
      /\ fan.rpmStart = FirstOf(R) /\ fan.rpmPeak = PeakOf(R)
      /\ fan.dutyStart = FirstOf(D) /\ fan.dutyPeak = PeakOf(D)
      /\ fan.respondedAfter = RespondedAfter(block) /\ fan.verdict = Verdict(block)
  BY DEF FanSummary, Reference
<1>. HIDE DEF fan
<1>3. rose <=> RoseRpm(FirstOf(R), PeakOf(R)) \/ RoseDuty(FirstOf(D), PeakOf(D))
  BY <1>2
<1>4. rose <=> Rises(block) # {}
  <2>1. block \in Seq(Samples)
    BY <1>1 DEF IsRun
  <2>2. R \in Seq(Nat \cup {None}) /\ D \in Seq(Nat \cup {None})
    BY <2>1, SeriesOfBlock
  <2>3. Rises(block) = RpmRises(R) \cup DutyRises(D)
    BY <2>1, RisesOfBlock
  <2> HIDE DEF R, D, rose
  <2>4. RpmRises(R) # {} <=> RoseRpm(FirstOf(R), PeakOf(R))
    BY <2>2, RiseOfRpm
  <2>5. DutyRises(D) # {} <=> RoseDuty(FirstOf(D), PeakOf(D))
    BY <2>2, RiseOfDuty
  <2>. QED
    BY <1>3, <2>3, <2>4, <2>5
<1>5. /\ RespondedAfter(block) # None <=> Rises(block) # {}
      /\ Rises(block) # {} => RespondedAfter(block) \in 1..(Seconds(block) - 1)
  BY <1>1, ResponseFacts
<1>6. /\ unknown => ~StoppedFan(block) /\ Rises(block) = {}
      /\ StoppedFan(block) => atEnd.rpm = 0 /\ atEnd.duty \notin {0, None}
      /\ PeakOf(R) = 0 /\ (\A i \in Present(block) : /\ block[i].fan.rpm # None
                                                    /\ block[i].fan.duty \notin {0, None})
           => StoppedFan(block)
  BY <1>1, <1>2, VerdictFacts
<1>7. Verdict(block) = CASE unknown -> "unknown"
                         [] StoppedFan(block) -> "stopped"
                         [] ~StoppedFan(block) /\ RespondedAfter(block) # None -> "responded"
                         [] OTHER -> "flat"
  BY DEF Verdict
<1>8. (\A r \in readings : r.rpm # None /\ r.duty \notin {0, None})
        => \A i \in Present(block) : /\ block[i].fan.rpm # None
                                     /\ block[i].fan.duty \notin {0, None}
  OBVIOUS
<1>9. unknown <=> fan.rpmPeak = None /\ fan.dutyPeak = None
  BY <1>2
<1>10. fan.rpmPeak = 0 => ~unknown
  BY <1>2, ReportAssumption
<1> DEFINE allTurn == \A r \in readings : r.rpm # None /\ r.duty \notin {0, None}
           ended == atEnd.rpm = 0 /\ atEnd.duty \notin {0, None}
<1>11. /\ StoppedFan(block) => ended
       /\ fan.rpmPeak = 0 /\ allTurn => StoppedFan(block)
  BY <1>2, <1>6, <1>8
<1>. HIDE DEF unknown, rose, allTurn, ended
<1>12. CASE unknown
  <2>1. Verdict(block) = "unknown"
    BY <1>4, <1>5, <1>6, <1>7, <1>12
  <2>2. /\ fan.respondedAfter # None <=> rose
        /\ rose => fan.respondedAfter \in 1..(Seconds(block) - 1)
        /\ fan.verdict = "unknown"
        /\ ~(fan.rpmPeak = 0)
    BY <1>2, <1>4, <1>5, <1>10, <1>12, <2>1
  <2>. QED
    BY <1>9, <1>12, <2>2 DEF allTurn, ended
<1>13. CASE ~unknown /\ StoppedFan(block)
  <2>1. Verdict(block) = "stopped"
    BY <1>7, <1>13
  <2>2. /\ fan.respondedAfter # None <=> rose
        /\ rose => fan.respondedAfter \in 1..(Seconds(block) - 1)
        /\ fan.verdict = "stopped"
    BY <1>2, <1>4, <1>5, <2>1
  <2>. QED
    BY <1>9, <1>11, <1>13, <2>2 DEF allTurn, ended
<1>14. CASE ~unknown /\ ~StoppedFan(block)
  <2>1. Verdict(block) = IF RespondedAfter(block) # None THEN "responded" ELSE "flat"
    BY <1>7, <1>14
  <2>2. /\ fan.respondedAfter # None <=> rose
        /\ rose => fan.respondedAfter \in 1..(Seconds(block) - 1)
        /\ fan.verdict = IF rose THEN "responded" ELSE "flat"
    BY <1>2, <1>4, <1>5, <2>1
  <2>. QED
    BY <1>9, <1>11, <1>14, <2>2 DEF allTurn, ended
<1>. QED
  BY <1>12, <1>13, <1>14

\* The numbers beside the verdict of every fan in every block bear it out
\* (stress.py 195-239).
THEOREM VerdictIsAlwaysBorneOut == ReportSpec => []VerdictIsBorneOut
<1>. QED
  BY RunIsBorneOut, ReportIsInductive, PTL

-----------------------------------------------------------------------------
\* A sample more of the same phase.

Grown(next, s) == Len(next) = Len(s) + 1 /\ \A i \in 1..Len(s) : next[i] = s[i]

\* The newest block goes on to the last sample.
LEMMA NewestBlock ==
  ASSUME NEW all \in Seq(Samples), all # <<>>
  PROVE  /\ Max(Starts(all)) \in Starts(all)
         /\ IsBlock(Block(all, Max(Starts(all))), all, Max(Starts(all)), Len(all))
<1> DEFINE first == Max(Starts(all))
<1>1. Len(all) \in Nat /\ DOMAIN all = 1..Len(all) /\ 1 \in 1..Len(all)
  OBVIOUS
<1>2. Starts(all) \subseteq Nat /\ (\A i \in Starts(all) : i <= Len(all)) /\ 1 \in Starts(all)
  BY <1>1 DEF Starts, StartsBlock
<1>3. first \in Starts(all) /\ \A i \in Starts(all) : first >= i
  BY <1>1, <1>2, MaxFacts
<1>. HIDE DEF first
<1>4. PICK last \in first..Len(all) : /\ IsBlock(Block(all, first), all, first, last)
                                      /\ EndsAt(all, first, last)
  BY <1>3, BlockEnds
<1>5. last = Len(all)
  <2>1. ~(first >= last + 1)
    BY <1>1, <1>2, <1>3
  <2>. QED
    BY <1>3, <1>4, <2>1 DEF EndsAt
<1>. QED
  BY <1>3, <1>4, <1>5 DEF first

LEMMA NewestGrows ==
  ASSUME NEW all \in Seq(Samples), all # <<>>, NEW s \in Samples,
         s.phase = Last(all).phase, NEW longer, longer = Append(all, s)
  PROVE  LET newest == Block(all, Max(Starts(all)))
             next == Block(longer, Max(Starts(longer)))
         IN  /\ newest \in Seq(Samples) /\ Len(newest) \in Nat \ {0}
             /\ next \in Seq(Samples) /\ Grown(next, newest)
<1> DEFINE newest == Block(all, Max(Starts(all)))
           next == Block(longer, Max(Starts(longer)))
<1>1. PICK m \in Nat : m = Len(all) /\ m >= 1 /\ DOMAIN all = 1..m
  OBVIOUS
<1>2. /\ longer \in Seq(Samples) /\ Len(longer) = m + 1 /\ longer[m + 1] = s
      /\ \A i \in 1..m : longer[i] = all[i]
  <2>1. longer \in Seq(Samples) /\ OneLonger(longer, all, s)
    BY AppendFacts
  <2>. QED
    BY <1>1, <2>1 DEF OneLonger
<1>3. Starts(longer) = Starts(all)
  <2>1. DOMAIN longer = 1..(m + 1)
    BY <1>2
  <2>2. m + 1 \notin Starts(longer)
    <3>1. longer[(m + 1) - 1] = Last(all)
      BY <1>1, <1>2 DEF Last
    <3>. QED
      BY <1>1, <1>2, <3>1 DEF Starts, StartsBlock
  <2>3. ASSUME NEW i \in 1..m PROVE i \in Starts(longer) <=> i \in Starts(all)
    <3>1. i = 1 \/ i - 1 \in 1..m
      BY <1>1
    <3>. QED
      BY <1>1, <1>2, <2>1, <3>1 DEF Starts, StartsBlock
  <2>4. Starts(longer) \subseteq 1..(m + 1) /\ Starts(all) \subseteq 1..m
    BY <1>1, <2>1 DEF Starts
  <2>5. \A i \in 1..(m + 1) : i = m + 1 \/ i \in 1..m
    BY <1>1
  <2>6. 1..m \subseteq 1..(m + 1) /\ m + 1 \notin 1..m
    BY <1>1
  <2>. QED
    BY <2>2, <2>3, <2>4, <2>5, <2>6, Zenon
<1>4. PICK first \in Starts(all) : /\ first = Max(Starts(all)) /\ first = Max(Starts(longer))
                                   /\ IsBlock(newest, all, first, m)
  BY <1>1, <1>3, NewestBlock
<1>5. IsBlock(next, longer, first, m + 1)
  <2>1. longer # <<>>
    BY <1>1, <1>2
  <2>. QED
    BY <1>2, <1>4, <2>1, NewestBlock
<1>. HIDE DEF newest, next
<1>6. /\ first \in 1..m
      /\ newest \in Seq(Samples) /\ Len(newest) = m - first + 1
      /\ \A i \in 1..Len(newest) : newest[i] = all[first + i - 1]
  BY <1>1, <1>4 DEF IsBlock
<1>7. /\ next \in Seq(Samples) /\ Len(next) = (m + 1) - first + 1
      /\ \A i \in 1..Len(next) : next[i] = longer[first + i - 1]
  BY <1>5 DEF IsBlock
<1>8. Len(newest) \in Nat \ {0} /\ Len(next) = Len(newest) + 1
  BY <1>6, <1>7
<1>9. ASSUME NEW i \in 1..Len(newest) PROVE next[i] = newest[i]
  <2>1. first + i - 1 \in 1..m /\ i \in 1..Len(next)
    BY <1>6, <1>7
  <2>. QED
    BY <1>2, <1>6, <1>7, <2>1
<1>. QED
  BY <1>6, <1>7, <1>8, <1>9 DEF Grown, newest, next

\* The first reading of a series stands when one is added.
LEMMA FirstStands ==
  ASSUME NEW readings \in Seq(Nat \cup {None}), NEW next \in Seq(Nat \cup {None}),
         Grown(next, readings), Known(readings) # {}
  PROVE  FirstOf(next) = FirstOf(readings)
<1>1. PICK m \in Nat : m = Len(readings) /\ DOMAIN readings = 1..m /\ DOMAIN next = 1..(m + 1)
                       /\ \A i \in 1..m : next[i] = readings[i]
  BY DEF Grown
<1>2. Known(readings) \subseteq 1..m /\ Known(next) \subseteq 1..(m + 1)
  BY <1>1 DEF Known
<1>3. \A i \in 1..m : i \in Known(next) <=> i \in Known(readings)
  BY <1>1 DEF Known
<1>4. PICK k \in Known(readings) : /\ \A i \in Known(readings) : k <= i
                                   /\ FirstOf(readings) = readings[k]
  BY FirstFacts
<1>5. k \in 1..m /\ k \in Known(next)
  BY <1>2, <1>3
<1>6. PICK j \in Known(next) : /\ \A i \in Known(next) : j <= i
                               /\ FirstOf(next) = next[j]
  BY <1>5, FirstFacts
<1>7. j <= k /\ j \in 1..(m + 1)
  BY <1>2, <1>5, <1>6
<1>8. j \in 1..m
  BY <1>5, <1>7
<1>9. k <= j
  BY <1>3, <1>4, <1>8
<1>10. j = k
  BY <1>5, <1>7, <1>8, <1>9
<1>. QED
  BY <1>1, <1>4, <1>6, <1>8, <1>10

LEMMA RisesStand ==
  ASSUME NEW readings \in Seq(Nat \cup {None}), NEW next \in Seq(Nat \cup {None}),
         Grown(next, readings), NEW i \in 1..Len(readings)
  PROVE  /\ i \in RpmRises(next) <=> i \in RpmRises(readings)
         /\ i \in DutyRises(next) <=> i \in DutyRises(readings)
<1>1. /\ next[i] = readings[i]
      /\ i \in DOMAIN readings /\ i \in DOMAIN next
  BY DEF Grown
<1>2. CASE Known(readings) = {}
  <2>1. readings[i] = None
    BY <1>1, <1>2 DEF Known
  <2>. QED
    BY <1>1, <2>1 DEF RpmRises, DutyRises, RoseRpm, RoseDuty
<1>3. CASE Known(readings) # {}
  <2>1. FirstOf(next) = FirstOf(readings)
    BY <1>3, FirstStands
  <2>. QED
    BY <1>1, <2>1 DEF RpmRises, DutyRises
<1>. QED
  BY <1>2, <1>3

\* A response found in a block is found in the longer one, at the same sample.
LEMMA ResponseIsKept ==
  ASSUME NEW block \in Seq(Samples), Len(block) \in Nat \ {0},
         NEW next \in Seq(Samples), Grown(next, block)
  PROVE  IsKept(FanSummary(block), FanSummary(next))
<1> DEFINE R == RpmsOf(block)
           D == DutiesOf(block)
           nextR == RpmsOf(next)
           nextD == DutiesOf(next)
<1>1. PICK m \in Nat \ {0} : /\ m = Len(block) /\ DOMAIN block = 1..m
                             /\ Len(next) = m + 1 /\ DOMAIN next = 1..(m + 1)
                             /\ \A i \in 1..m : next[i] = block[i]
  BY DEF Grown
<1>2. /\ R \in Seq(Nat \cup {None}) /\ Len(R) = m
      /\ D \in Seq(Nat \cup {None}) /\ Len(D) = m
      /\ Present(block) \subseteq 1..m
  BY <1>1, SeriesOfBlock
<1>3. /\ nextR \in Seq(Nat \cup {None}) /\ Len(nextR) = m + 1
      /\ nextD \in Seq(Nat \cup {None}) /\ Len(nextD) = m + 1
  BY <1>1, SeriesOfBlock
<1>4. \A i \in 1..m : i \in Present(next) <=> i \in Present(block)
  BY <1>1 DEF Present
<1>5. \A i \in 1..m : nextR[i] = R[i] /\ nextD[i] = D[i]
  BY <1>1, <1>4 DEF RpmsOf, DutiesOf
<1>6. Grown(nextR, R) /\ Grown(nextD, D)
  BY <1>2, <1>3, <1>5 DEF Grown
<1>7. /\ Rises(block) = RpmRises(R) \cup DutyRises(D) /\ Rises(block) \subseteq 2..m
      /\ Rises(next) = RpmRises(nextR) \cup DutyRises(nextD) /\ Rises(next) \subseteq 2..(m + 1)
  BY <1>1, RisesOfBlock
<1>. HIDE DEF R, D, nextR, nextD
<1>8. \A i \in 1..m : i \in Rises(next) <=> i \in Rises(block)
  BY <1>2, <1>3, <1>6, <1>7, RisesStand
<1>9. ASSUME FirstOf(R) # None PROVE FirstOf(nextR) = FirstOf(R)
  <2>1. Known(R) # {}
    BY <1>9 DEF FirstOf
  <2>. QED
    BY <1>2, <1>3, <1>6, <2>1, FirstStands
<1>10. ASSUME FirstOf(D) # None PROVE FirstOf(nextD) = FirstOf(D)
  <2>1. Known(D) # {}
    BY <1>10 DEF FirstOf
  <2>. QED
    BY <1>2, <1>3, <1>6, <2>1, FirstStands
<1>11. ASSUME Rises(block) # {} PROVE RespondedAfter(next) = RespondedAfter(block)
  <2> DEFINE old == Rises(block)
             new == Rises(next)
  <2>1. old \subseteq 2..m /\ new \subseteq 2..(m + 1) /\ old # {}
        /\ \A i \in 1..m : i \in new <=> i \in old
    BY <1>7, <1>8, <1>11
  <2>2. /\ RespondedAfter(block) = block[Min(old)].time - block[1].time
        /\ new # {} => RespondedAfter(next) = next[Min(new)].time - next[1].time
    BY <1>11 DEF RespondedAfter
  <2> HIDE DEF old, new
  <2>3. old \subseteq Nat /\ new \subseteq Nat
    BY <2>1
  <2>4. PICK k \in old : k = Min(old) /\ \A i \in old : k <= i
    BY <2>1, <2>3, MinFacts
  <2>5. k \in 2..m /\ k \in new
    BY <1>1, <2>1
  <2>6. PICK j \in new : j = Min(new) /\ \A i \in new : j <= i
    BY <2>3, <2>5, MinFacts
  <2>7. j <= k /\ j \in 2..(m + 1)
    BY <2>1, <2>5, <2>6
  <2>8. j \in old
    BY <1>1, <2>1, <2>5, <2>7
  <2>9. j = k
    BY <2>4, <2>5, <2>7, <2>8
  <2>10. next[k] = block[k] /\ next[1] = block[1]
    BY <1>1, <2>5
  <2>. QED
    BY <2>2, <2>4, <2>5, <2>6, <2>9, <2>10
<1> DEFINE before == FanSummary(block)
           after == FanSummary(next)
<1>12. ASSUME before # None
       PROVE  /\ before.rpmStart = FirstOf(R) /\ before.dutyStart = FirstOf(D)
              /\ before.respondedAfter = RespondedAfter(block)
              /\ after.rpmStart = FirstOf(nextR) /\ after.dutyStart = FirstOf(nextD)
              /\ after.respondedAfter = RespondedAfter(next)
  <2>1. Present(block) # {} /\ Present(next) # {}
    BY <1>2, <1>4, <1>12 DEF FanSummary
  <2>. QED
    BY <2>1 DEF FanSummary, Reference, R, D, nextR, nextD
<1>13. RespondedAfter(block) # None => Rises(block) # {}
  BY DEF RespondedAfter
<1>. HIDE DEF before, after
<1>14. IsKept(before, after)
  BY <1>9, <1>10, <1>11, <1>12, <1>13 DEF IsKept
<1>. QED
  BY <1>14 DEF before, after

\* What is said of a fan's response is not taken back within its phase
\* (stress.py 198-216).
THEOREM ResponseAlwaysStands == ReportSpec => ResponseStands
<1>1. ASSUME ReportInv, [ReportNext]_reportVars
      PROVE  [samples # <<>> /\ Last(samples').phase = Last(samples).phase =>
                IsKept(NewestSummary(samples), NewestSummary(samples'))]_reportVars
  <2>1. CASE UNCHANGED <<samples, ran, current>>
    BY <2>1 DEF reportVars
  <2>2. ASSUME NEW s \in Samples, samples' = Append(samples, s),
               samples # <<>>, Last(samples').phase = Last(samples).phase
        PROVE  IsKept(NewestSummary(samples), NewestSummary(samples'))
    <3> DEFINE block == Block(samples, Max(Starts(samples)))
               next == Block(samples', Max(Starts(samples')))
    <3>1. samples \in Seq(Samples)
      BY <1>1 DEF ReportInv, ReportTypes
    <3>2. Last(samples') = s
      <4>1. OneLonger(samples', samples, s)
        BY <2>2, <3>1, AppendFacts
      <4>. QED
        BY <4>1 DEF OneLonger, Last
    <3>3. /\ block \in Seq(Samples) /\ Len(block) \in Nat \ {0}
          /\ next \in Seq(Samples) /\ Grown(next, block)
      BY <2>2, <3>1, <3>2, NewestGrows
    <3>4. NewestSummary(samples) = FanSummary(block) /\ NewestSummary(samples') = FanSummary(next)
      BY DEF NewestSummary
    <3> HIDE DEF block, next
    <3>. QED
      BY <3>3, <3>4, ResponseIsKept
  <2>3. (\E s \in Samples : samples' = Append(samples, s)) \/ UNCHANGED <<samples, ran, current>>
    BY <1>1, OneMore
  <2>. QED
    BY <2>1, <2>2, <2>3
<1>. QED
  BY <1>1, ReportIsInductive, PTL DEF ReportSpec, ResponseStands
=============================================================================
