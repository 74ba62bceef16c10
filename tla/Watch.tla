-------------------------------- MODULE Watch --------------------------------
(***************************************************************************)
(* fanwatch: a process that samples the sensors over and over, and either  *)
(* draws the dashboard or logs a line per change, src/src/fanwatch/        *)
(* probe.py, dashboard.py and cli.py.                                      *)
(*                                                                         *)
(* What is followed is the intake fan on the Io board.  A sample reads the *)
(* hwmon devices first and USB later, and the board may come and go in     *)
(* between.  The fans of the mainboard are always there.  Throttle         *)
(* counters, temperatures and the GPU are left out.  Ctrl-C is a process   *)
(* that takes no further step.                                             *)
(***************************************************************************)
EXTENDS Series

CONSTANTS
  Rpms,          \* readings of the tachometer
  Duties,        \* ... and of pwm2 in percent, None if unreadable
  Flags,         \* "none", and the hardware flags of the fan: "FAULT", "ALARM"
  STALL_SAMPLES,
  HISTORY

ASSUME WatchAssumption ==
  /\ 0 \in Rpms /\ Rpms \subseteq Nat \cup {None}
  /\ Duties \subseteq (0..100) \cup {None}
  /\ "none" \in Flags /\ Flags \subseteq {"none", "FAULT", "ALARM"}
  /\ STALL_SAMPLES \in Nat \ {0} /\ HISTORY \in Nat
  /\ STALL_SAMPLES <= HISTORY

RPM_JITTER == 5

VARIABLES
  \* the machine
  devnum,     \* USB number of the Io board, None while it is away
  bound,      \* its driver is bound, so that it has a hwmon device
  \* the process
  mode,       \* "dashboard" or "log"
  pc,         \* "loop", "fans", "usb", "use", "keys" or "ended"
  fan,        \* Fan of the snapshot, None if it has none
  usb,        \* Controller of the snapshot, None if it has none
  \* the dashboard
  taken,      \* there is a snapshot
  history,    \* readings of the fan, oldest first
  paused,
  due,        \* the time of the next sample has come
  shown,      \* alerts on the screen
  \* the log
  baseline,   \* snapshot of the last line, None before the first
  printed,    \* the last line, and whether the last sample gave one
  \* history
  blind,      \* the fan had no hwmon device at any time of the collection
  zeroFor,    \* samples in a row with the fan at zero, up to STALL_SAMPLES
  stoppedFor  \* ... and commanded on

machineVars == <<devnum, bound>>
snapshotVars == <<fan, usb>>
dashboardVars == <<taken, history, paused, due, shown>>
logVars == <<baseline, printed>>
countVars == <<zeroFor, stoppedFor>>
watchVars == <<machineVars, mode, pc, snapshotVars, dashboardVars, logVars, blind, countVars>>

WatchInit ==
  /\ devnum \in {1, None} /\ bound \in BOOLEAN
  /\ mode \in {"dashboard", "log"}
  /\ pc = IF mode = "dashboard" THEN "loop" ELSE "fans"
  /\ fan = None /\ usb = None
  /\ taken = FALSE /\ history = <<>> /\ paused = FALSE /\ due = TRUE /\ shown = {}
  /\ baseline = None /\ printed = None
  /\ blind = FALSE /\ zeroFor = 0 /\ stoppedFor = 0

Present == devnum # None /\ bound

-----------------------------------------------------------------------------
\* The board.

\* It leaves, comes back under another number, or is bound or unbound.
BoardMoves ==
  /\ \/ devnum' = None /\ devnum # None /\ UNCHANGED bound
     \/ devnum' \in {1, 2} /\ devnum = None /\ bound' \in BOOLEAN
     \/ bound' = ~bound /\ devnum # None /\ UNCHANGED devnum
  /\ blind' = IF pc = "usb" THEN blind /\ ~Present' ELSE blind
  /\ UNCHANGED <<mode, pc, snapshotVars, dashboardVars, logVars, countVars>>

-----------------------------------------------------------------------------
\* A snapshot.

Status(rpm, duty, flag) ==
  CASE flag # "none" -> flag
    [] flag = "none" /\ rpm = None -> "UNKNOWN"
    [] flag = "none" /\ rpm # None /\ rpm # 0 -> "ROTATING"
    [] flag = "none" /\ rpm = 0 /\ duty = 0 -> "IDLE"
    [] OTHER -> "STOPPED"

Fans == {[rpm |-> r, duty |-> d, status |-> Status(r, d, f)] :
           r \in Rpms, d \in Duties, f \in Flags}

Controllers == [devnum : {1, 2}, bound : BOOLEAN]
Snapshots == [usb : Controllers \cup {None}, fan : Fans \cup {None}]

ASSUME SnapshotAssumption == None \notin Snapshots

AnotherInARow(count, holds) ==
  IF ~holds THEN 0 ELSE IF count < STALL_SAMPLES THEN count + 1 ELSE count

CollectFans ==
  /\ pc = "fans"
  /\ fan' \in IF Present THEN Fans ELSE {None}
  /\ pc' = "usb"
  /\ blind' = ~Present
  /\ zeroFor' = AnotherInARow(zeroFor, fan' # None /\ fan'.rpm = 0)
  /\ stoppedFor' = AnotherInARow(stoppedFor, fan' # None /\ fan'.rpm = 0 /\ fan'.duty # 0)
  /\ UNCHANGED <<machineVars, mode, usb, dashboardVars, logVars>>

CollectUsb ==
  /\ pc = "usb"
  /\ usb' = IF devnum = None THEN None ELSE [devnum |-> devnum, bound |-> bound]
  /\ pc' = "use"
  /\ taken' = TRUE
  /\ UNCHANGED <<machineVars, mode, fan, history, paused, due, shown, logVars, blind, countVars>>

Alert(name, holds) == IF holds THEN {name} ELSE {}

FanAlert == Alert("fan", fan # None /\ fan.status \in {"UNKNOWN", "FAULT", "ALARM"})
DriverAlert == Alert("driver missing", usb # None /\ ~usb.bound)

\* Mutant: a board that is away raises no alert.
BoardAlertIfThere == Alert("readings unavailable", usb # None /\ fan = None)

BoardAlert == Alert("not detected", usb = None)
         \cup Alert("readings unavailable", usb # None /\ fan = None)

\* What one snapshot can tell.
Alerts == FanAlert \cup DriverAlert \cup BoardAlert

-----------------------------------------------------------------------------
\* The dashboard.

\* Mutant: the readings of a fan that is away are kept.
RecordedForEver == IF fan = None THEN history ELSE Newest(HISTORY, Append(history, fan.rpm))

\* _record: a fan that is away loses its history.
Recorded == IF fan = None THEN <<>> ELSE Newest(HISTORY, Append(history, fan.rpm))

\* _stalled.
Stalled(readings) ==
  /\ fan # None /\ fan.status = "STOPPED"
  /\ Len(readings) >= STALL_SAMPLES
  /\ ToSet(Newest(STALL_SAMPLES, readings)) = {0}

AlertsFor(readings) == Alerts \cup Alert("stalled", Stalled(readings))

\* The head of the loop.
SampleIfDue ==
  /\ mode = "dashboard" /\ pc = "loop"
  /\ ~taken \/ (~paused /\ due)
  /\ pc' = "fans"
  /\ UNCHANGED <<machineVars, mode, snapshotVars, dashboardVars, logVars, blind, countVars>>

\* Record the sample, set the time of the next, and draw.
RecordAndDraw ==
  /\ mode = "dashboard" /\ pc = "use"
  /\ history' = Recorded
  /\ due' = FALSE
  /\ shown' = AlertsFor(Recorded)
  /\ pc' = "keys"
  /\ UNCHANGED <<machineVars, mode, snapshotVars, taken, paused, logVars, blind, countVars>>

\* Draw the same sample again.
DrawAgain ==
  /\ mode = "dashboard" /\ pc = "loop"
  /\ taken /\ (paused \/ ~due)
  /\ shown' = AlertsFor(history)
  /\ pc' = "keys"
  /\ UNCHANGED <<machineVars, mode, snapshotVars, taken, history, paused, due, logVars,
                 blind, countVars>>

TimePasses ==
  /\ mode = "dashboard" /\ taken /\ ~due
  /\ due' = TRUE
  /\ UNCHANGED <<machineVars, mode, pc, snapshotVars, taken, history, paused, shown, logVars,
                 blind, countVars>>

\* Space, r, and a key that only scrolls or none within 100 ms.
Key ==
  /\ pc = "keys"
  /\ \/ paused' = ~paused /\ due' = TRUE
     \/ paused' = FALSE /\ due' = TRUE
     \/ UNCHANGED <<paused, due>>
  /\ pc' = "loop"
  /\ UNCHANGED <<machineVars, mode, snapshotVars, taken, history, shown, logVars, blind,
                 countVars>>

-----------------------------------------------------------------------------
\* The log.

Snapshot == [usb |-> usb, fan |-> fan]

\* Mutant: a reading that is still missing is news.
RpmChangedIfMissing(before, after) ==
  IF before = None \/ after = None THEN TRUE ELSE IF before = 0 \/ after = 0 THEN before # after
  ELSE (IF after > before THEN after - before ELSE before - after) * 100 >= RPM_JITTER * before

\* _rpm_changed.
RpmChanged(before, after) ==
  IF before = None \/ after = None \/ before = 0 \/ after = 0 THEN before # after
  ELSE (IF after > before THEN after - before ELSE before - after) * 100 >= RPM_JITTER * before

\* log_line has something to say.
Moved(before, now) ==
  \/ before.usb # now.usb
  \/ (before.fan = None) # (now.fan = None)
  \/ /\ before.fan # None /\ now.fan # None
     /\ \/ before.fan.status # now.fan.status
        \/ RpmChanged(before.fan.rpm, now.fan.rpm)

\* Mutant: the sample that gave no line is the next one's baseline too.
BaselineOfEverySample(line) == Snapshot

BaselineAfter(line) == IF line THEN Snapshot ELSE baseline

\* LogTracker.observe, and the line is written.
Observe ==
  /\ mode = "log" /\ pc = "use"
  /\ LET line == baseline = None \/ Moved(baseline, Snapshot)
     IN  /\ baseline' = BaselineAfter(line)
         /\ printed' = [text |-> IF line THEN Snapshot ELSE printed.text, fresh |-> line]
  /\ pc' = "keys"
  /\ UNCHANGED <<machineVars, mode, snapshotVars, dashboardVars, blind, countVars>>

LogSleep ==
  /\ mode = "log" /\ pc = "keys"
  /\ pc' = "fans"
  /\ UNCHANGED <<machineVars, mode, snapshotVars, dashboardVars, logVars, blind, countVars>>

\* q or Escape.
Quit ==
  /\ mode = "dashboard" /\ pc = "keys"
  /\ pc' = "ended"
  /\ UNCHANGED <<machineVars, mode, snapshotVars, dashboardVars, logVars, blind, countVars>>

-----------------------------------------------------------------------------
Dashboard == SampleIfDue \/ RecordAndDraw \/ DrawAgain \/ (mode = "dashboard" /\ Key)
Log == Observe \/ LogSleep

WatchNext == BoardMoves \/ CollectFans \/ CollectUsb \/ Dashboard \/ TimePasses \/ Log \/ Quit

WatchSpec == WatchInit /\ [][WatchNext]_watchVars

-----------------------------------------------------------------------------
Drawn == mode = "dashboard" /\ pc = "keys"

\* A screen without alerts can be trusted: the fan was there in the last sample, and
\* turned, idled, or has not yet stood for STALL_SAMPLES samples while commanded on,
\* although hwmon and USB are read at different times (dashboard.py 177-185).
SilenceIsTrue ==
  Drawn /\ shown = {} =>
    /\ ~blind
    /\ \/ fan.status \in {"ROTATING", "IDLE"}
       \/ fan.status = "STOPPED" /\ stoppedFor < STALL_SAMPLES

\* A stall is never told from readings of before the fan was away or turned
\* (dashboard.py 169-174, 450-451).
StallIsFresh == Drawn /\ "stalled" \in shown => zeroFor = STALL_SAMPLES

\* "Commanded on but at zero RPM for STALL_SAMPLES consecutive samples"
\* (dashboard.py 170, docs/fanwatch.md 74-76).
StallIsCommanded == Drawn /\ "stalled" \in shown => stoppedFor = STALL_SAMPLES

\* What the log said last is still true to within the jitter, however slowly the
\* speed drifts (cli.py 101-111).
LogIsCurrent ==
  mode = "log" /\ pc = "keys" =>
    /\ printed.text.usb = usb
    /\ (printed.text.fan = None) = (fan = None)
    /\ fan # None =>
         LET said == printed.text.fan
         IN  /\ said.status = fan.status
             /\ said.rpm \in Nat /\ fan.rpm \in Nat =>
                  fan.rpm * 100 \in (said.rpm * (100 - RPM_JITTER))..(said.rpm * (100 + RPM_JITTER))
             /\ (said.rpm = None) = (fan.rpm = None)

\* The log does not repeat itself: a line differs from the one before it in more
\* than the duty, which it does not show (cli.py 74-98).
LogIsQuiet ==
  [][Observe /\ printed'.fresh /\ printed # None =>
       \/ printed'.text.usb # printed.text.usb
       \/ (fan = None) # (printed.text.fan = None)
       \/ /\ fan # None /\ printed.text.fan # None
          /\ <<fan.rpm, fan.status>> # <<printed.text.fan.rpm, printed.text.fan.status>>]_watchVars
=============================================================================
