------------------------------- MODULE Screen -------------------------------
(***************************************************************************)
(* What the dashboard draws from its histories: the chart of the fans      *)
(* (src/src/fanwatch/chart.py) and the throttling of the CPU in the header *)
(* and in its row (src/src/fanwatch/dashboard.py).  When it samples and    *)
(* draws is Watch's; here a sample is one step, and the screen is what     *)
(* would be drawn now.                                                     *)
(*                                                                         *)
(* A chart is the set of its dots <<x, y>>, counted from the upper left.   *)
(***************************************************************************)
EXTENDS Series

CONSTANTS
  Fans,
  FanRpms,           \* readings of a fan, None among them
  Gone,              \* the fan is not in the snapshot
  HISTORY,
  Widths,            \* of the terminal, wide enough for a chart
  Rows,              \* of cells, in a chart
  MaxEvents          \* bound of the model: throttle events since boot

ASSUME ScreenAssumption ==
  /\ FanRpms \subseteq Nat \cup {None} /\ Gone \notin FanRpms
  /\ Fans # {} /\ IsFiniteSet(Fans) /\ HISTORY \in Nat /\ 2 <= HISTORY
  /\ Widths \subseteq Nat /\ Rows \in Nat \ {0}
  /\ MaxEvents \in Nat

VARIABLES
  width,
  histories,   \* readings of each fan of the last snapshot, oldest first
  throttle,    \* package events of the last snapshot, None if there are no counters
  throttles,   \* the history of that, of snapshots that have one
  events,      \* package throttle events there were
  \* history
  seen,        \* the snapshots, as many as a history holds
  counted,     \* for each of throttles, the events there were
  lastGood     \* the last good count before the last snapshot, or None

screenVars == <<width, histories, throttle, throttles, events, seen, counted, lastGood>>

Columns == 2 * Max({1, width - 5})
Dots == 4 * Rows

ScreenInit ==
  /\ width \in Widths
  /\ histories = [f \in {} |-> <<>>]
  /\ throttle = None /\ throttles = <<>>
  /\ events = 0
  /\ seen = <<>> /\ counted = <<>> /\ lastGood = None

-----------------------------------------------------------------------------
\* The counters of _collect_throttle: one that cannot be read counts as zero.
Counts == {None, 0, events}

\* The count of the last snapshot is what there was.
Good == throttle # None /\ Last(counted) = throttle

\* _record: append to the history of every fan that is there ...
Lengthened(history, reading) == Newest(HISTORY, Append(history, reading))
Appended(snapshot) ==
  [f \in DOMAIN histories \cup {g \in Fans : snapshot[g] # Gone} |->
     IF snapshot[f] = Gone THEN histories[f]
     ELSE Lengthened(IF f \in DOMAIN histories THEN histories[f] ELSE <<>>, snapshot[f])]

\* Mutant: a history outlives its fan.
EveryKey(snapshot) == DOMAIN histories \cup {f \in Fans : snapshot[f] # Gone}

\* ... and forget the others.
Live(snapshot) == {f \in Fans : snapshot[f] # Gone}

Sample ==
  /\ \E snapshot \in [Fans -> FanRpms \cup {Gone}] :
       /\ histories' = Restrict(Appended(snapshot), Live(snapshot))
       /\ seen' = Lengthened(seen, snapshot)
  /\ throttle' \in Counts
  /\ IF throttle' = None
     THEN UNCHANGED <<throttles, counted>>
     ELSE /\ throttles' = Lengthened(throttles, throttle')
          /\ counted' = Lengthened(counted, events)
  /\ lastGood' = IF Good THEN throttle ELSE lastGood
  /\ UNCHANGED <<width, events>>

Throttled == events < MaxEvents /\ events' = events + 1
          /\ UNCHANGED <<width, histories, throttle, throttles, seen, counted, lastGood>>

Resize ==
  /\ width' \in Widths
  /\ UNCHANGED <<histories, throttle, throttles, events, seen, counted, lastGood>>

ScreenNext == Sample \/ Throttled \/ Resize

-----------------------------------------------------------------------------
\* fan_group: the fans that have turned, and the top of their axis.
Charted == {f \in DOMAIN histories : PeakOf(histories[f]) \notin {None, 0}}

Top == Max({0} \cup {PeakOf(histories[f]) : f \in Charted})

YMax == Max({500, ((Top + 499) \div 500) * 500})

-----------------------------------------------------------------------------
\* render_chart.

\* _scale: Python rounds a half to the even neighbour.
Scale(value) ==
  LET above == IF value > YMax THEN 0 ELSE YMax - value
      twice == 2 * above * (Dots - 1) + YMax
      nearest == twice \div (2 * YMax)
  IN  IF twice % (2 * YMax) = 0 /\ nearest % 2 = 1 THEN nearest - 1 ELSE nearest

Drawn(f) == Newest(Columns, histories[f])

\* Newest sample at the right edge.
X(drawn, i) == Columns - Len(drawn) + i - 1

\* Mutant: a gap is closed from the sample on its other side.
FromAnySample(drawn, i) ==
  LET before == {j \in Known(drawn) : j < i}
  IN  IF before = {} THEN drawn[i] ELSE drawn[Max(before)]

\* Where the line comes from: the sample before, unless that is missing.
From(drawn, i) == IF i = 1 \/ drawn[i - 1] = None THEN drawn[i] ELSE drawn[i - 1]

Line(f) ==
  LET drawn == Drawn(f)
      column(i) == LET y == Scale(drawn[i])
                       prev == Scale(From(drawn, i))
                   IN  {<<X(drawn, i), dot>> : dot \in Min({y, prev})..Max({y, prev})}
  IN  UNION {column(i) : i \in {j \in DOMAIN drawn : drawn[j] # None}}

\* The left end of x_labels, in samples before the newest.
LeftLabel == HISTORY

-----------------------------------------------------------------------------
\* Throttling.

\* Mutant: the counter has moved since the oldest sample.
MovedEver == /\ throttle # None /\ Len(throttles) >= 2
             /\ Last(throttles) # Head(throttles)

\* throttling_now.
ThrottlingNow == /\ throttle # None /\ Len(throttles) >= 2
                 /\ Last(throttles) # throttles[Len(throttles) - 1]

\* status_line and _throttle_row.  The counters of the cores are read with the one
\* of the package and are zero with it.
Header == IF ThrottlingNow THEN "throttling now" ELSE "alerts and board"
ThrottleRow ==
  CASE throttle = None -> "no row"
    [] throttle = 0 -> "none since boot"
    [] throttle \in Nat \ {0} /\ ThrottlingNow -> "throttling now"
    [] throttle \in Nat \ {0} /\ ~ThrottlingNow -> "events"

-----------------------------------------------------------------------------
ScreenSpec == ScreenInit /\ [][ScreenNext]_screenVars

-----------------------------------------------------------------------------
\* Dots above each other are from the same moment: one column is one snapshot for
\* all fans, however they come and go (dashboard.py 439-452, chart.py 62-70).
ColumnsAgree ==
  \A f \in DOMAIN histories : LET drawn == Drawn(f) IN
    \A i \in DOMAIN drawn : drawn[i] = seen[Len(seen) - (Columns - 1 - X(drawn, i))][f]

\* A line neither lies nor breaks off: it has a dot at every reading of its window and
\* none at a missing one; columns of neighbouring readings touch; of two readings
\* more than a dot apart the higher is drawn above; and the newest is at the right edge
\* (chart.py 36-74, dashboard.py 118-130).
LineIsTrue ==
  \A f \in Charted :
    LET drawn == Drawn(f)
        line == Line(f)
        at(i) == {dot[2] : dot \in {d \in line : d[1] = X(drawn, i)}}
    IN  /\ line \subseteq (0..(Columns - 1)) \X (0..(Dots - 1))
        /\ X(drawn, Len(drawn)) = Columns - 1
        /\ \A i \in DOMAIN drawn :
             IF drawn[i] = None THEN at(i) = {}
             ELSE /\ Scale(drawn[i]) \in at(i)
                  /\ i > 1 /\ drawn[i - 1] # None => at(i) \cap at(i - 1) # {}
                  /\ i = 1 \/ drawn[i - 1] = None => at(i) = {Scale(drawn[i])}
        /\ \A g \in Charted : \A i \in DOMAIN drawn, j \in DOMAIN Drawn(g) :
             drawn[i] # None /\ Drawn(g)[j] # None
               /\ drawn[i] + YMax \div (Dots - 1) < Drawn(g)[j] =>
               Scale(drawn[i]) > Scale(Drawn(g)[j])

\* No throttling is missed, whatever the snapshots in between could not read: a good
\* count is cried exactly if it is not the last good one, or if the one before it was
\* misread; and the row agrees with the header.  Counters that cannot be read count as
\* zero, and a snapshot without counters leaves no trace (dashboard.py 314-331,
\* 359-360, 448-449, probe.py 265-289).
MisreadBefore == LET last == Len(counted)
                 IN  last >= 2 /\ throttles[last - 1] # counted[last - 1]
ThrottlingIsCried ==
  Good => /\ Header = "throttling now" <=> lastGood \notin {None, throttle} \/ MisreadBefore
          /\ Header = "throttling now" <=> ThrottleRow = "throttling now"

\* The time axis tells "how far back the left edge is" (chart.py 102, dashboard.py 480).
LeftEdgeIsLabelled == \A f \in Charted : Len(histories[f]) >= Columns => LeftLabel = Columns
=============================================================================
