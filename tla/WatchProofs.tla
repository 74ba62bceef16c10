---------------------------- MODULE WatchProofs ----------------------------
(***************************************************************************)
(* What the dashboard shows and what the log says is true, for any         *)
(* readings, any length of the history and any number of samples that make *)
(* a stall.                                                                *)
(***************************************************************************)
EXTENDS Watch, SeriesProofs

WatchTypes ==
  /\ mode \in {"dashboard", "log"}
  /\ pc \in {"loop", "fans", "usb", "use", "keys", "ended"}
  /\ devnum \in {1, 2, None}
  /\ bound \in BOOLEAN
  /\ fan \in Fans \cup {None}
  /\ usb \in Controllers \cup {None}
  /\ history \in Seq(Rpms) /\ Len(history) <= HISTORY
  /\ zeroFor \in 0..STALL_SAMPLES /\ stoppedFor \in 0..STALL_SAMPLES
  /\ stoppedFor <= zeroFor

\* The readings end in count zeroes, and in no more unless that is a stall.
Tallied(readings, count) ==
  /\ count <= Len(readings)
  /\ \A i \in 1..count : readings[Len(readings) + 1 - i] = 0
  /\ count < STALL_SAMPLES => count = Len(readings) \/ readings[Len(readings) - count] # 0

\* A fan that was read had its hwmon device at least then.
Seen == fan # None => ~blind

\* The history is the tally of the samples, but for one that is not recorded yet.
Tally ==
  mode = "dashboard" => Tallied(IF pc \in {"usb", "use"} THEN Recorded ELSE history, zeroFor)

ScreenIsCurrent == Drawn => shown = AlertsFor(history)

\* The baseline is the last line.
BaselineIsPrinted ==
  baseline # None \/ printed # None => baseline \in Snapshots /\ printed.text = baseline

WatchInv ==
  /\ WatchTypes
  /\ Seen
  /\ Tally
  /\ ScreenIsCurrent
  /\ BaselineIsPrinted
  /\ LogIsCurrent
-----------------------------------------------------------------------------
\* The tally of a stall.

\* One more reading, and the oldest forgotten when there are too many.
LEMMA TalliedGoesOn ==
  ASSUME NEW readings \in Seq(Rpms), NEW count \in 0..STALL_SAMPLES,
         Tallied(readings, count), NEW rpm \in Rpms
  PROVE  LET next == Newest(HISTORY, Append(readings, rpm))
         IN  /\ next \in Seq(Rpms) /\ Len(next) <= HISTORY
             /\ Tallied(next, AnotherInARow(count, rpm = 0))
<1> DEFINE next == Newest(HISTORY, Append(readings, rpm))
           k == AnotherInARow(count, rpm = 0)
<1>1. /\ STALL_SAMPLES \in Nat \ {0} /\ HISTORY \in Nat \ {0} /\ STALL_SAMPLES <= HISTORY
      /\ Len(readings) \in Nat /\ count <= Len(readings)
  <2>1. STALL_SAMPLES \in Nat \ {0} /\ HISTORY \in Nat /\ STALL_SAMPLES <= HISTORY
    BY WatchAssumption
  <2>2. HISTORY \in Nat \ {0}
    BY <2>1
  <2>3. count <= Len(readings)
    BY Zenon DEF Tallied
  <2>4. Len(readings) \in Nat
    OBVIOUS
  <2>. QED
    BY <2>1, <2>2, <2>3, <2>4
<1>2. /\ next \in Seq(Rpms)
      /\ Len(next) = IF Len(readings) + 1 > HISTORY THEN HISTORY ELSE Len(readings) + 1
      /\ next[Len(next)] = rpm
      /\ \A i \in 2..Len(next) : next[Len(next) + 1 - i] = readings[Len(readings) + 2 - i]
  <2> DEFINE longer == Append(readings, rpm)
  <2>1. /\ longer \in Seq(Rpms) /\ Len(longer) = Len(readings) + 1
        /\ longer[Len(readings) + 1] = rpm
        /\ \A i \in 1..Len(readings) : longer[i] = readings[i]
    BY AppendProperties
  <2>. HIDE DEF longer
  <2>2. /\ next \in Seq(Rpms)
        /\ Len(next) = IF Len(longer) > HISTORY THEN HISTORY ELSE Len(longer)
        /\ \A i \in 1..Len(next) : next[Len(next) + 1 - i] = longer[Len(longer) + 1 - i]
    BY <1>1, <2>1, NewestFacts DEF longer
  <2>. HIDE DEF next
  <2>3. Len(next) = IF Len(readings) + 1 > HISTORY THEN HISTORY ELSE Len(readings) + 1
    BY <2>1, <2>2
  <2>4. Len(next) \in Nat /\ Len(next) >= 1 /\ Len(next) <= Len(readings) + 1
    BY <1>1, <2>3
  <2>5. next[Len(next)] = rpm
    <3>1. 1 \in 1..Len(next) /\ Len(next) + 1 - 1 = Len(next)
          /\ Len(longer) + 1 - 1 = Len(readings) + 1
      BY <2>1, <2>4
    <3>. QED
      BY <2>1, <2>2, <3>1
  <2>6. ASSUME NEW i \in 2..Len(next)
        PROVE  next[Len(next) + 1 - i] = readings[Len(readings) + 2 - i]
    <3>1. i \in 1..Len(next) /\ Len(longer) + 1 - i = Len(readings) + 2 - i
          /\ Len(readings) + 2 - i \in 1..Len(readings)
      BY <1>1, <2>1, <2>4
    <3>. QED
      BY <2>1, <2>2, <3>1
  <2>. QED
    BY <2>2, <2>3, <2>5, <2>6
<1>. HIDE DEF next
<1>3. Len(next) \in Nat /\ Len(next) <= HISTORY /\ Len(next) >= 1
      /\ Len(next) <= Len(readings) + 1
  BY <1>1, <1>2
<1>4. CASE rpm # 0
  <2>1. k = 0
    BY <1>4 DEF AnotherInARow
  <2>2. next[Len(next) - 0] # 0
    BY <1>3, <1>2, <1>4
  <2>3. \A i \in 1..0 : next[Len(next) + 1 - i] = 0
    OBVIOUS
  <2>4. 0 <= Len(next)
    BY <1>3
  <2>5. Tallied(next, 0)
    BY <2>2, <2>3, <2>4 DEF Tallied
  <2>. QED
    BY <1>2, <1>3, <2>1, <2>5 DEF next
<1>5. CASE rpm = 0
  <2>1. k = IF count < STALL_SAMPLES THEN count + 1 ELSE count
    BY <1>5 DEF AnotherInARow
  <2>2. k \in 1..STALL_SAMPLES /\ k <= Len(next) /\ k <= count + 1
    BY <1>1, <1>2, <2>1
  <2>3. ASSUME NEW i \in 1..k PROVE next[Len(next) + 1 - i] = 0
    <3>1. CASE i = 1
      <4>1. Len(next) + 1 - i = Len(next)
        BY <1>3, <3>1
      <4>. QED
        BY <1>2, <1>5, <4>1
    <3>2. CASE i # 1
      <4>1. i \in 2..Len(next) /\ i - 1 \in 1..count
            /\ Len(readings) + 1 - (i - 1) = Len(readings) + 2 - i
        BY <1>1, <1>3, <2>2, <3>2
      <4>2. readings[Len(readings) + 1 - (i - 1)] = 0
        BY <4>1 DEF Tallied
      <4>. QED
        BY <1>2, <4>1, <4>2
    <3>. QED
      BY <3>1, <3>2
  <2>4. ASSUME k < STALL_SAMPLES, k # Len(next) PROVE next[Len(next) - k] # 0
    <3>1. count < STALL_SAMPLES /\ k = count + 1
      BY <2>1, <2>4
    <3>2. count # Len(readings)
      BY <1>1, <1>2, <2>4, <3>1
    <3>3. readings[Len(readings) - count] # 0
      BY <3>1, <3>2 DEF Tallied
    <3>4. k + 1 \in 2..Len(next) /\ Len(next) + 1 - (k + 1) = Len(next) - k
          /\ Len(readings) + 2 - (k + 1) = Len(readings) - count
      BY <1>1, <1>3, <2>2, <2>4, <3>1
    <3>. QED
      BY <1>2, <3>3, <3>4
  <2>. HIDE DEF k
  <2>5. Tallied(next, k)
    BY <2>2, <2>3, <2>4 DEF Tallied
  <2>. QED
    BY <1>2, <1>3, <2>5 DEF next, k
<1>. QED
  BY <1>4, <1>5

\* The readings end in STALL_SAMPLES zeroes exactly when the tally says so.
LEMMA TalliedStall ==
  ASSUME NEW readings \in Seq(Rpms), NEW count \in 0..STALL_SAMPLES, Tallied(readings, count)
  PROVE  /\ Len(readings) >= STALL_SAMPLES
         /\ ToSet(Newest(STALL_SAMPLES, readings)) = {0}
         <=> count = STALL_SAMPLES
<1> DEFINE r == Newest(STALL_SAMPLES, readings)
<1>1. /\ STALL_SAMPLES \in Nat \ {0}
      /\ Len(readings) \in Nat /\ count <= Len(readings)
  BY WatchAssumption DEF Tallied
<1>2. /\ r \in Seq(Rpms)
      /\ Len(r) = IF Len(readings) > STALL_SAMPLES THEN STALL_SAMPLES ELSE Len(readings)
      /\ \A i \in 1..Len(r) : r[Len(r) + 1 - i] = readings[Len(readings) + 1 - i]
  BY <1>1, NewestFacts
<1>. HIDE DEF r
<1>3. DOMAIN r = 1..Len(r)
  BY <1>2
<1>4. ASSUME count = STALL_SAMPLES
      PROVE  Len(readings) >= STALL_SAMPLES /\ ToSet(r) = {0}
  <2>1. Len(r) = STALL_SAMPLES
    BY <1>1, <1>2, <1>4
  <2>2. ASSUME NEW j \in 1..Len(r) PROVE r[j] = 0
    <3>1. Len(r) + 1 - j \in 1..count /\ Len(r) + 1 - j \in 1..Len(r)
          /\ Len(r) + 1 - (Len(r) + 1 - j) = j
      BY <1>1, <1>4, <2>1
    <3>2. readings[Len(readings) + 1 - (Len(r) + 1 - j)] = 0
      BY <3>1 DEF Tallied
    <3>. QED
      BY <1>2, <3>1, <3>2
  <2>3. 1 \in 1..Len(r)
    BY <1>1, <2>1
  <2>4. ToSet(r) = {0}
    BY <1>3, <2>2, <2>3 DEF ToSet
  <2>. QED
    BY <1>1, <1>4, <2>4
<1>5. ASSUME Len(readings) >= STALL_SAMPLES, ToSet(r) = {0}, count # STALL_SAMPLES
      PROVE  FALSE
  <2>1. count < STALL_SAMPLES /\ count # Len(readings) /\ Len(r) = STALL_SAMPLES
    BY <1>1, <1>2, <1>5
  <2>2. readings[Len(readings) - count] # 0
    BY <2>1 DEF Tallied
  <2>3. count + 1 \in 1..Len(r) /\ Len(readings) + 1 - (count + 1) = Len(readings) - count
        /\ Len(r) + 1 - (count + 1) \in 1..Len(r)
    BY <1>1, <2>1
  <2>4. r[Len(r) + 1 - (count + 1)] # 0
    BY <1>2, <2>2, <2>3
  <2>. QED
    BY <1>3, <1>5, <2>3, <2>4 DEF ToSet
<1>. QED
  BY <1>4, <1>5 DEF r
-----------------------------------------------------------------------------
\* Fans and alerts.

LEMMA FanFacts ==
  ASSUME NEW f \in Fans
  PROVE  /\ f.rpm \in Rpms
         /\ f.status \in {"UNKNOWN", "ROTATING", "IDLE", "STOPPED", "FAULT", "ALARM"}
<1>1. PICK r \in Rpms, d \in Duties, flag \in Flags :
        f = [rpm |-> r, duty |-> d, status |-> Status(r, d, flag)]
  BY DEF Fans
<1>2. flag \in {"none", "FAULT", "ALARM"}
  BY WatchAssumption
<1>3. Status(r, d, flag) \in {"UNKNOWN", "ROTATING", "IDLE", "STOPPED", "FAULT", "ALARM"}
  BY <1>2 DEF Status
<1>. QED
  BY <1>1, <1>3

LEMMA AlertFacts ==
  ASSUME NEW readings
  PROVE  /\ "stalled" \in AlertsFor(readings) => Stalled(readings)
         /\ AlertsFor(readings) = {} =>
              /\ fan # None /\ fan.status \notin {"UNKNOWN", "FAULT", "ALARM"}
              /\ ~Stalled(readings)
<1>1. \A name, holds : Alert(name, holds) \in {{}, {name}}
  BY DEF Alert
<1>2. "stalled" \notin Alerts
  BY <1>1 DEF Alerts, FanAlert, DriverAlert, BoardAlert, Alert
<1>3. "stalled" \in AlertsFor(readings) => Stalled(readings)
  BY <1>2 DEF AlertsFor, Alert
<1>4. ASSUME AlertsFor(readings) = {} PROVE Alerts = {} /\ ~Stalled(readings)
  BY <1>4 DEF AlertsFor, Alert
<1>5. ASSUME Alerts = {} PROVE fan # None /\ fan.status \notin {"UNKNOWN", "FAULT", "ALARM"}
  <2>1. FanAlert = {} /\ BoardAlert = {}
    BY <1>5 DEF Alerts
  <2>2. ~(fan # None /\ fan.status \in {"UNKNOWN", "FAULT", "ALARM"})
    BY <2>1 DEF FanAlert, Alert
  <2>3. Alert("not detected", usb = None) = {}
        /\ Alert("readings unavailable", usb # None /\ fan = None) = {}
    BY <2>1 DEF BoardAlert
  <2>4. ~(usb = None) /\ ~(usb # None /\ fan = None)
    BY <2>3 DEF Alert
  <2>. QED
    BY <2>2, <2>4
<1>. QED
  BY <1>3, <1>4, <1>5

-----------------------------------------------------------------------------
\* The log.

\* A reading that has not moved is within the jitter of the last one that was logged.
LEMMA StillWithinJitter ==
  ASSUME NEW before \in Rpms, NEW after \in Rpms, ~RpmChanged(before, after)
  PROVE  /\ (before = None) = (after = None)
         /\ before \in Nat /\ after \in Nat =>
              after * 100 \in (before * (100 - RPM_JITTER))..(before * (100 + RPM_JITTER))
<1>1. CASE before = None \/ after = None \/ before = 0 \/ after = 0
  <2>1. before = after
    BY <1>1 DEF RpmChanged
  <2>2. before \in Nat => before * 100 \in (before * 95)..(before * 105)
    OBVIOUS
  <2>. QED
    BY <2>1, <2>2 DEF RPM_JITTER
<1>2. CASE ~(before = None \/ after = None \/ before = 0 \/ after = 0)
  <2>1. before \in Nat /\ after \in Nat
    BY <1>2, WatchAssumption
  <2>2. ~((IF after > before THEN after - before ELSE before - after) * 100 >= 5 * before)
    BY <1>2 DEF RpmChanged, RPM_JITTER
  <2>3. after * 100 \in (before * 95)..(before * 105)
    BY <2>1, <2>2
  <2>. QED
    BY <1>2, <2>3 DEF RPM_JITTER
<1>. QED
  BY <1>1, <1>2

\* A reading has moved only if it is another.
LEMMA ChangedIsAnother ==
  ASSUME NEW before \in Rpms, NEW after \in Rpms, RpmChanged(before, after)
  PROVE  before # after
<1> SUFFICES ASSUME before = after PROVE FALSE
  OBVIOUS
<1>1. ~(before = None \/ after = None \/ before = 0 \/ after = 0)
  BY DEF RpmChanged
<1>2. before \in Nat /\ before # 0
  BY <1>1, WatchAssumption
<1>3. (before - before) * 100 >= 5 * before
  BY <1>1, <1>2 DEF RpmChanged, RPM_JITTER
<1>. QED
  BY <1>2, <1>3

\* What the lines of the log tell apart.
Says(text, now) ==
  /\ text.usb = now.usb
  /\ (text.fan = None) = (now.fan = None)
  /\ now.fan # None =>
       /\ text.fan.status = now.fan.status
       /\ text.fan.rpm \in Nat /\ now.fan.rpm \in Nat =>
            now.fan.rpm * 100
              \in (text.fan.rpm * (100 - RPM_JITTER))..(text.fan.rpm * (100 + RPM_JITTER))
       /\ (text.fan.rpm = None) = (now.fan.rpm = None)

LEMMA NotMovedSays ==
  ASSUME NEW before \in Snapshots, NEW now \in Snapshots, ~Moved(before, now)
  PROVE  Says(before, now)
<1>1. /\ before.fan \in Fans \cup {None} /\ now.fan \in Fans \cup {None}
      /\ before.usb = now.usb /\ (before.fan = None) = (now.fan = None)
  BY DEF Snapshots, Moved
<1>2. ASSUME now.fan # None
      PROVE  /\ before.fan.status = now.fan.status
             /\ ~RpmChanged(before.fan.rpm, now.fan.rpm)
             /\ before.fan.rpm \in Rpms /\ now.fan.rpm \in Rpms
  <2>1. before.fan # None /\ before.fan \in Fans /\ now.fan \in Fans
    BY <1>1, <1>2
  <2>2. before.fan.rpm \in Rpms /\ now.fan.rpm \in Rpms
    BY <2>1, FanFacts
  <2>. QED
    BY <1>2, <2>1, <2>2 DEF Moved
<1>. QED
  BY <1>1, <1>2, StillWithinJitter DEF Says

LEMMA SameSays ==
  ASSUME NEW now \in Snapshots
  PROVE  Says(now, now)
<1>1. ASSUME NEW v \in Nat
      PROVE  v * 100 \in (v * (100 - RPM_JITTER))..(v * (100 + RPM_JITTER))
  BY DEF RPM_JITTER
<1>. QED
  BY <1>1 DEF Says
-----------------------------------------------------------------------------
LEMMA InitWatch == WatchInit => WatchInv
<1> SUFFICES ASSUME WatchInit PROVE WatchInv
  OBVIOUS
<1>1. WatchTypes
  BY WatchAssumption DEF WatchInit, WatchTypes
<1>2. Seen /\ BaselineIsPrinted /\ ~Drawn /\ ~(mode = "log" /\ pc = "keys")
  BY DEF WatchInit, Seen, BaselineIsPrinted, Drawn
<1>3. Tally
  BY DEF WatchInit, Tally, Tallied
<1>. QED
  BY <1>1, <1>2, <1>3 DEF WatchInv, ScreenIsCurrent, LogIsCurrent

LEMMA BoardMovesWatch ==
  ASSUME WatchInv, BoardMoves
  PROVE  WatchInv'
<1>1. /\ UNCHANGED <<mode, pc, fan, usb, history, shown, baseline, printed, zeroFor, stoppedFor>>
      /\ devnum' \in {1, 2, None}
  BY DEF BoardMoves, WatchInv, WatchTypes, snapshotVars, dashboardVars, logVars, countVars
<1>2. bound' \in BOOLEAN
  BY DEF BoardMoves, WatchInv, WatchTypes
<1>3. ~blind => ~blind'
  BY Zenon DEF BoardMoves
<1>4. Seen'
  BY <1>1, <1>3 DEF WatchInv, Seen
<1>5. WatchTypes'
  BY <1>1, <1>2 DEF WatchInv, WatchTypes
<1>6. Tally' /\ ScreenIsCurrent'
  BY <1>1 DEF WatchInv, Tally, ScreenIsCurrent, Recorded, Drawn, AlertsFor, Stalled, Alerts,
              FanAlert, DriverAlert, BoardAlert
<1>7. BaselineIsPrinted' /\ LogIsCurrent'
  BY <1>1 DEF WatchInv, BaselineIsPrinted, LogIsCurrent
<1>. QED
  BY <1>4, <1>5, <1>6, <1>7 DEF WatchInv

LEMMA CollectFansWatch ==
  ASSUME WatchInv, CollectFans
  PROVE  WatchInv'
<1>1. /\ pc = "fans" /\ pc' = "usb"
      /\ UNCHANGED <<devnum, bound, mode, usb, history, shown, baseline, printed>>
  BY DEF CollectFans, machineVars, dashboardVars, logVars
<1>2. fan' \in Fans \cup {None}
  BY DEF CollectFans
<1>3. Seen'
  <2>1. CASE Present
    <3>1. ~blind'
      BY <2>1 DEF CollectFans
    <3>. QED
      BY <3>1 DEF Seen
  <2>2. CASE ~Present
    BY <2>2 DEF CollectFans, Seen
  <2>. QED
    BY <2>1, <2>2
<1>4. /\ zeroFor' \in 0..STALL_SAMPLES /\ stoppedFor' \in 0..STALL_SAMPLES
      /\ stoppedFor' <= zeroFor'
  <2>1. /\ zeroFor' = AnotherInARow(zeroFor, fan' # None /\ fan'.rpm = 0)
        /\ stoppedFor' = AnotherInARow(stoppedFor, fan' # None /\ fan'.rpm = 0 /\ fan'.duty # 0)
    BY DEF CollectFans
  <2>2. /\ zeroFor \in 0..STALL_SAMPLES /\ stoppedFor \in 0..STALL_SAMPLES
        /\ stoppedFor <= zeroFor /\ STALL_SAMPLES \in Nat \ {0}
    BY WatchAssumption DEF WatchInv, WatchTypes
  <2>. QED
    BY <2>1, <2>2 DEF AnotherInARow
<1>5. WatchTypes'
  BY <1>1, <1>2, <1>4 DEF WatchInv, WatchTypes
<1>6. Tally'
  <2> SUFFICES ASSUME mode = "dashboard" PROVE Tallied(Recorded', zeroFor')
    BY <1>1 DEF Tally
  <2>1. /\ Tallied(history, zeroFor) /\ history \in Seq(Rpms)
        /\ zeroFor \in 0..STALL_SAMPLES
    BY <1>1 DEF WatchInv, WatchTypes, Tally
  <2>2. zeroFor' = AnotherInARow(zeroFor, fan' # None /\ fan'.rpm = 0)
    BY DEF CollectFans
  <2>3. CASE fan' = None
    <3>1. Recorded' = <<>> /\ zeroFor' = 0
      BY <2>2, <2>3 DEF Recorded, AnotherInARow
    <3>. QED
      BY <3>1 DEF Tallied
  <2>4. CASE fan' # None
    <3>1. fan'.rpm \in Rpms
      BY <1>2, <2>4, FanFacts
    <3>2. zeroFor' = AnotherInARow(zeroFor, fan'.rpm = 0)
      BY <2>2, <2>4 DEF AnotherInARow
    <3>3. Recorded' = Newest(HISTORY, Append(history, fan'.rpm))
      BY <1>1, <2>4 DEF Recorded
    <3>. QED
      BY <2>1, <3>1, <3>2, <3>3, TalliedGoesOn
  <2>. QED
    BY <2>3, <2>4
<1>7. ScreenIsCurrent' /\ BaselineIsPrinted' /\ LogIsCurrent'
  BY <1>1 DEF WatchInv, ScreenIsCurrent, Drawn, BaselineIsPrinted, LogIsCurrent
<1>. QED
  BY <1>3, <1>5, <1>6, <1>7 DEF WatchInv

LEMMA CollectUsbWatch ==
  ASSUME WatchInv, CollectUsb
  PROVE  WatchInv'
<1>1. /\ pc = "usb" /\ pc' = "use"
      /\ UNCHANGED <<devnum, bound, mode, fan, history, shown, baseline, printed, blind,
                     zeroFor, stoppedFor>>
  BY DEF CollectUsb, machineVars, logVars, countVars
<1>2. usb' \in Controllers \cup {None}
  <2>1. devnum = None \/ [devnum |-> devnum, bound |-> bound] \in Controllers
    BY DEF WatchInv, WatchTypes, Controllers
  <2>. QED
    BY <2>1 DEF CollectUsb
<1>3. WatchTypes'
  BY <1>1, <1>2 DEF WatchInv, WatchTypes
<1>4. Tally'
  BY <1>1 DEF WatchInv, Tally, Recorded
<1>5. Seen' /\ ScreenIsCurrent' /\ BaselineIsPrinted' /\ LogIsCurrent'
  BY <1>1 DEF WatchInv, Seen, ScreenIsCurrent, Drawn, BaselineIsPrinted, LogIsCurrent
<1>. QED
  BY <1>3, <1>4, <1>5 DEF WatchInv

\* Steps of the dashboard leave the log, the machine and the counts alone.
LEMMA DashboardWatch ==
  ASSUME WatchInv, Dashboard \/ TimePasses \/ Quit
  PROVE  WatchInv'
<1>1. /\ mode = "dashboard"
      /\ UNCHANGED <<devnum, bound, mode, fan, usb, baseline, printed, blind,
                     zeroFor, stoppedFor>>
  BY DEF Dashboard, SampleIfDue, RecordAndDraw, DrawAgain, Key, TimePasses, Quit,
         machineVars, snapshotVars, logVars, countVars
<1>2. Seen' /\ BaselineIsPrinted' /\ LogIsCurrent'
  BY <1>1 DEF WatchInv, Seen, BaselineIsPrinted, LogIsCurrent
<1>3. \A readings : AlertsFor(readings)' = AlertsFor(readings)
  BY <1>1 DEF AlertsFor, Stalled, Alerts, FanAlert, DriverAlert, BoardAlert
<1>4. CASE RecordAndDraw
  <2>1. /\ pc = "use" /\ pc' = "keys" /\ history' = Recorded /\ shown' = AlertsFor(Recorded)
    BY <1>4 DEF RecordAndDraw
  <2>2. Tallied(Recorded, zeroFor)
    BY <1>1, <2>1 DEF WatchInv, Tally
  <2>3. Tally'
    BY <1>1, <2>1, <2>2 DEF Tally
  <2>4. ScreenIsCurrent'
    BY <1>1, <1>3, <2>1 DEF ScreenIsCurrent, AlertsFor, Stalled
  <2>5. Recorded \in Seq(Rpms) /\ Len(Recorded) <= HISTORY
    <3>1. CASE fan = None
      BY <3>1, WatchAssumption DEF Recorded
    <3>2. CASE fan # None
      <4>1. fan.rpm \in Rpms /\ history \in Seq(Rpms) /\ HISTORY \in Nat
        BY <3>2, FanFacts, WatchAssumption DEF WatchInv, WatchTypes
      <4>2. Append(history, fan.rpm) \in Seq(Rpms)
        BY <4>1, AppendProperties
      <4>3. Recorded = Newest(HISTORY, Append(history, fan.rpm))
        BY <3>2 DEF Recorded
      <4>4. /\ Recorded \in Seq(Rpms)
            /\ Len(Recorded) = IF Len(Append(history, fan.rpm)) > HISTORY THEN HISTORY
                               ELSE Len(Append(history, fan.rpm))
        BY <4>1, <4>2, <4>3, NewestFacts
      <4>5. PICK n \in Nat : n = Len(Append(history, fan.rpm))
        BY <4>2
      <4>. QED
        BY <4>1, <4>4, <4>5
    <3>. QED
      BY <3>1, <3>2
  <2>6. WatchTypes'
    BY <1>1, <2>1, <2>5 DEF WatchInv, WatchTypes
  <2>. QED
    BY <1>2, <2>3, <2>4, <2>6 DEF WatchInv
<1>5. CASE DrawAgain
  <2>1. /\ pc = "loop" /\ pc' = "keys" /\ history' = history /\ shown' = AlertsFor(history)
    BY <1>5 DEF DrawAgain
  <2>2. ScreenIsCurrent'
    BY <1>1, <2>1 DEF ScreenIsCurrent, AlertsFor, Stalled, Alerts, FanAlert, DriverAlert,
                      BoardAlert
  <2>3. Tally' /\ WatchTypes'
    BY <1>1, <2>1 DEF WatchInv, Tally, WatchTypes
  <2>. QED
    BY <1>2, <2>2, <2>3 DEF WatchInv
<1>6. CASE SampleIfDue \/ Key \/ Quit
  <2>1. /\ pc \in {"loop", "keys"} /\ pc' \in {"fans", "loop", "ended"}
        /\ history' = history
    BY <1>6 DEF SampleIfDue, Key, Quit, dashboardVars
  <2>2. Tally' /\ WatchTypes' /\ ScreenIsCurrent'
    BY <1>1, <2>1 DEF WatchInv, Tally, WatchTypes, ScreenIsCurrent, Drawn
  <2>. QED
    BY <1>2, <2>2 DEF WatchInv
<1>7. CASE TimePasses
  <2>1. UNCHANGED <<pc, history, shown>>
    BY <1>7 DEF TimePasses
  <2>2. Tally' /\ WatchTypes'
    BY <1>1, <2>1 DEF WatchInv, Tally, WatchTypes, Recorded
  <2>3. ScreenIsCurrent'
    BY <1>1, <2>1 DEF WatchInv, ScreenIsCurrent, Drawn, AlertsFor, Stalled, Alerts, FanAlert,
                      DriverAlert, BoardAlert
  <2>. QED
    BY <1>2, <2>2, <2>3 DEF WatchInv
<1>. QED
  BY <1>4, <1>5, <1>6, <1>7 DEF Dashboard

LEMMA SnapshotTyped == WatchTypes => Snapshot \in Snapshots
  BY DEF WatchTypes, Snapshot, Snapshots

LEMMA LogWatch ==
  ASSUME WatchInv, Observe \/ LogSleep
  PROVE  WatchInv'
<1>1. /\ mode = "log"
      /\ UNCHANGED <<devnum, bound, mode, fan, usb, history, shown, blind, zeroFor, stoppedFor>>
  BY DEF Observe, LogSleep, machineVars, snapshotVars, dashboardVars, countVars
<1>2. pc' \in {"keys", "fans"}
  BY DEF Observe, LogSleep
<1>3. WatchTypes' /\ Seen' /\ Tally' /\ ScreenIsCurrent'
  BY <1>1, <1>2 DEF WatchInv, WatchTypes, Seen, Tally, ScreenIsCurrent, Drawn
<1>4. CASE LogSleep
  <2>1. UNCHANGED <<baseline, printed>> /\ pc' = "fans"
    BY <1>4 DEF LogSleep, logVars
  <2>2. BaselineIsPrinted' /\ LogIsCurrent'
    BY <2>1 DEF WatchInv, BaselineIsPrinted, LogIsCurrent
  <2>. QED
    BY <1>3, <2>2 DEF WatchInv
<1>5. CASE Observe
  <2>1. Snapshot \in Snapshots
    BY SnapshotTyped DEF WatchInv
  <2>2. CASE baseline = None \/ Moved(baseline, Snapshot)
    <3>1. baseline' = Snapshot /\ printed'.text = Snapshot
      BY <1>5, <2>2 DEF Observe, BaselineAfter
    <3>2. Says(printed'.text, Snapshot)
      BY <2>1, <3>1, SameSays
    <3>. QED
      BY <1>1, <1>3, <2>1, <3>1, <3>2
      DEF WatchInv, BaselineIsPrinted, LogIsCurrent, Says, Snapshot
  <2>3. CASE ~(baseline = None \/ Moved(baseline, Snapshot))
    <3>1. baseline \in Snapshots /\ printed.text = baseline
      BY <2>3 DEF WatchInv, BaselineIsPrinted
    <3>2. baseline' = baseline /\ printed'.text = baseline
      BY <1>5, <2>3, <3>1 DEF Observe, BaselineAfter
    <3>3. Says(printed'.text, Snapshot)
      BY <2>1, <2>3, <3>1, <3>2, NotMovedSays
    <3>. QED
      BY <1>1, <1>3, <3>1, <3>2, <3>3
      DEF WatchInv, BaselineIsPrinted, LogIsCurrent, Says, Snapshot
  <2>. QED
    BY <2>2, <2>3
<1>. QED
  BY <1>4, <1>5

LEMMA NextWatch == WatchInv /\ [WatchNext]_watchVars => WatchInv'
<1> SUFFICES ASSUME WatchInv, [WatchNext]_watchVars PROVE WatchInv'
  OBVIOUS
<1>1. CASE BoardMoves
  BY <1>1, BoardMovesWatch
<1>2. CASE CollectFans
  BY <1>2, CollectFansWatch
<1>3. CASE CollectUsb
  BY <1>3, CollectUsbWatch
<1>4. CASE Dashboard \/ TimePasses \/ Quit
  BY <1>4, DashboardWatch
<1>5. CASE Log
  BY <1>5, LogWatch DEF Log
<1>6. CASE UNCHANGED watchVars
  <2>1. UNCHANGED <<devnum, bound, mode, pc, fan, usb, history, shown, baseline, printed, blind,
                    zeroFor, stoppedFor>>
    BY <1>6 DEF watchVars, machineVars, snapshotVars, dashboardVars, logVars, countVars
  <2>2. WatchTypes' /\ Seen' /\ Tally'
    BY <2>1 DEF WatchInv, WatchTypes, Seen, Tally, Recorded
  <2>3. ScreenIsCurrent'
    BY <2>1 DEF WatchInv, ScreenIsCurrent, Drawn, AlertsFor, Stalled, Alerts, FanAlert,
                DriverAlert, BoardAlert
  <2>4. BaselineIsPrinted' /\ LogIsCurrent'
    BY <2>1 DEF WatchInv, BaselineIsPrinted, LogIsCurrent
  <2>. QED
    BY <2>2, <2>3, <2>4 DEF WatchInv
<1>. QED
  BY <1>1, <1>2, <1>3, <1>4, <1>5, <1>6 DEF WatchNext

\* The invariant that the four results about fanwatch rest on.
THEOREM WatchIsInductive == WatchSpec => []WatchInv
<1>. QED
  BY InitWatch, NextWatch, PTL DEF WatchSpec

-----------------------------------------------------------------------------
\* A screen without alerts can be trusted, at whatever moment of a collection the board
\* left or came back (dashboard.py 177-185): the fan was there, and turned, idled, or has
\* stood, while commanded on, for less than STALL_SAMPLES samples.
THEOREM SilenceIsAlwaysTrue == WatchSpec => []SilenceIsTrue
<1>1. WatchInv => SilenceIsTrue
  <2> SUFFICES ASSUME WatchInv, Drawn, shown = {}
               PROVE  /\ ~blind
                      /\ \/ fan.status \in {"ROTATING", "IDLE"}
                         \/ fan.status = "STOPPED" /\ stoppedFor < STALL_SAMPLES
    BY DEF SilenceIsTrue
  <2>1. AlertsFor(history) = {}
    BY DEF WatchInv, ScreenIsCurrent
  <2>2. /\ fan # None /\ fan.status \notin {"UNKNOWN", "FAULT", "ALARM"}
        /\ ~Stalled(history)
    BY <2>1, AlertFacts
  <2>3. ~blind
    BY <2>2 DEF WatchInv, Seen
  <2>4. fan.status \in {"ROTATING", "IDLE", "STOPPED"}
    BY <2>2, FanFacts DEF WatchInv, WatchTypes
  <2>5. ASSUME fan.status = "STOPPED" PROVE stoppedFor < STALL_SAMPLES
    <3>1. /\ history \in Seq(Rpms) /\ zeroFor \in 0..STALL_SAMPLES
          /\ stoppedFor \in 0..STALL_SAMPLES /\ stoppedFor <= zeroFor
          /\ Tallied(history, zeroFor)
      BY DEF WatchInv, WatchTypes, Tally, Drawn
    <3>2. zeroFor # STALL_SAMPLES
      BY <2>2, <2>5, <3>1, TalliedStall DEF Stalled
    <3>. QED
      BY <3>1, <3>2, WatchAssumption
  <2>. QED
    BY <2>3, <2>4, <2>5
<1>. QED
  BY <1>1, WatchIsInductive, PTL

\* A stall is told of a fan that read zero in each of the last STALL_SAMPLES samples,
\* never from readings of before it was away or turned (dashboard.py 169-174, 450-451).
THEOREM StallIsAlwaysFresh == WatchSpec => []StallIsFresh
<1>1. WatchInv => StallIsFresh
  <2> SUFFICES ASSUME WatchInv, Drawn, "stalled" \in shown
               PROVE  zeroFor = STALL_SAMPLES
    BY DEF StallIsFresh
  <2>1. Stalled(history)
    BY AlertFacts DEF WatchInv, ScreenIsCurrent
  <2>2. /\ history \in Seq(Rpms) /\ zeroFor \in 0..STALL_SAMPLES
        /\ Tallied(history, zeroFor)
    BY DEF WatchInv, WatchTypes, Tally, Drawn
  <2>. QED
    BY <2>1, <2>2, TalliedStall DEF Stalled
<1>. QED
  BY <1>1, WatchIsInductive, PTL

\* However slowly the speed drifts, what the log said last is within the jitter of what
\* the sensors say now, and true of everything else that a line shows (cli.py 101-111).
THEOREM LogIsAlwaysCurrent == WatchSpec => []LogIsCurrent
<1>1. WatchInv => LogIsCurrent
  BY DEF WatchInv
<1>. QED
  BY <1>1, WatchIsInductive, PTL

\* A line of the log differs from the one before it in what it shows (cli.py 74-98).
THEOREM LogIsAlwaysQuiet == WatchSpec => LogIsQuiet
<1>1. WatchInv /\ [WatchNext]_watchVars =>
        [Observe /\ printed'.fresh /\ printed # None =>
           \/ printed'.text.usb # printed.text.usb
           \/ (fan = None) # (printed.text.fan = None)
           \/ /\ fan # None /\ printed.text.fan # None
              /\ <<fan.rpm, fan.status>> # <<printed.text.fan.rpm, printed.text.fan.status>>
        ]_watchVars
  <2> SUFFICES ASSUME WatchInv, Observe, printed'.fresh, printed # None
               PROVE  \/ printed'.text.usb # printed.text.usb
                      \/ (fan = None) # (printed.text.fan = None)
                      \/ /\ fan # None /\ printed.text.fan # None
                         /\ \/ fan.rpm # printed.text.fan.rpm
                            \/ fan.status # printed.text.fan.status
    OBVIOUS
  <2>1. baseline \in Snapshots /\ printed.text = baseline /\ baseline # None
    BY SnapshotAssumption DEF WatchInv, BaselineIsPrinted
  <2>2. Snapshot \in Snapshots
    BY SnapshotTyped DEF WatchInv
  <2>3. baseline = None \/ Moved(baseline, Snapshot)
    BY DEF Observe
  <2>4. Moved(baseline, Snapshot) /\ printed'.text = Snapshot
    BY <2>1, <2>3 DEF Observe
  <2>5. /\ baseline.fan \in Fans \cup {None} /\ fan \in Fans \cup {None}
        /\ Snapshot.usb = usb /\ Snapshot.fan = fan
    BY <2>1 DEF Snapshots, Snapshot, WatchInv, WatchTypes
  <2>6. CASE baseline.usb # usb
    BY <2>1, <2>4, <2>5, <2>6
  <2>7. CASE (baseline.fan = None) # (fan = None)
    BY <2>1, <2>7
  <2>8. CASE /\ baseline.fan # None /\ fan # None
             /\ baseline.fan.status # fan.status \/ RpmChanged(baseline.fan.rpm, fan.rpm)
    <3>1. baseline.fan.rpm \in Rpms /\ fan.rpm \in Rpms
      BY <2>5, <2>8, FanFacts
    <3>2. baseline.fan.status # fan.status \/ baseline.fan.rpm # fan.rpm
      BY <2>8, <3>1, ChangedIsAnother
    <3>. QED
      BY <2>1, <2>8, <3>2
  <2>. QED
    BY <2>4, <2>5, <2>6, <2>7, <2>8 DEF Moved
<1>. QED
  BY <1>1, WatchIsInductive, PTL DEF WatchSpec, LogIsQuiet
=============================================================================
