------------------------------- MODULE Daemon -------------------------------
(***************************************************************************)
(* The fanctl process and the systemd unit that keeps it: main and the     *)
(* run loop of src/fanctl/src/main.rs over the service of Service, under   *)
(* src/packaging/fanctl.service.                                           *)
(*                                                                         *)
(* systemd itself is external and modelled from the unit's settings:       *)
(* ExecStopPost runs after any exit, Restart=always restarts unless the    *)
(* operator stopped the unit, StartLimitIntervalSec=0 never gives up, the  *)
(* watchdog watches once READY=1 was sent, and the runtime directory goes  *)
(* with the process.  Its timers are fair rather than timed.               *)
(***************************************************************************)
EXTENDS Service

CONSTANT DefaultExitPct   \* exit duty compiled in, for a broken config

ASSUME DaemonAssumption == DefaultExitPct \in MIN_EXIT_PCT..100

VARIABLES
  unit,        \* "running", "post" (ExecStopPost), "waiting" (RestartSec), "dead"
  wanted,      \* the operator wants the unit up
  termed,      \* SIGTERM was sent: STOP is set
  announced,   \* READY=1 was sent
  ending,      \* how the last process ended, until ExecStopPost has run
  hung,        \* the loop is wedged in a system call
  badConfig    \* /etc/fanctl.toml does not load or validate

unitVars == <<unit, wanted, termed, announced, ending, hung, badConfig>>
daemonVars == <<serviceVars, unitVars>>

DaemonInit ==
  /\ ServiceInit
  /\ unit = "running" /\ wanted = TRUE
  /\ termed = FALSE /\ announced = FALSE /\ ending = "none" /\ hung = FALSE
  /\ badConfig = FALSE

Running == unit = "running" /\ ~hung

-----------------------------------------------------------------------------
\* run_loop.

\* Mutant: READY=1 after the first tick, whatever became of it.
AnnounceAnyway == announced \/ pc = "record"

\* A tick that returns an error skips the notifications; any other ends in
\* Record, after which READY=1 goes out once control has been applied.
Announce == announced \/ (pc = "record" /\ ready)

LoopTick ==
  /\ Running
  /\ Tick
  /\ announced' = Announce
  /\ UNCHANGED <<unit, wanted, termed, ending, hung, badConfig>>

LoopSleep == Running /\ ~termed /\ Sleep /\ UNCHANGED unitVars
LoopStop  == Running /\ termed /\ Stop /\ UNCHANGED unitVars

\* main's last steps; the process then ends, with success or not.
MainShutdown == Running /\ Shutdown /\ UNCHANGED unitVars

-----------------------------------------------------------------------------
\* The unit.

\* What the next process starts from, whatever the last one believed.
ProcessMemory ==
  /\ ema' = None /\ appliedTemp' = None
  /\ curvePct' = FloorPct /\ appliedPct' = FloorPct
  /\ sinceStep' = None /\ sinceIncrease' = SpindownDelay /\ sinceWrite' = Reassert
  /\ lastWritten' = None /\ sensorFailures' = 0 /\ kickLeft' = 0
  /\ decision' = [pwm |-> PctToPwm(FloorPct), write |-> FALSE,
                  smoothed |-> None, panic |-> FALSE]
  /\ call' = "new"
  /\ pc' = "sense" /\ path' = None /\ newGeneration' = FALSE
  /\ devicePresent' = FALSE /\ pendingKick' = FALSE /\ writeFailures' = 0
  /\ ready' = FALSE /\ lastError' = "none"
  /\ termed' = FALSE /\ announced' = FALSE /\ hung' = FALSE
  /\ delivered' = None /\ kickDue' = StartSeconds /\ kickBegun' = FALSE
  /\ file' = "outdated"

\* The process is gone, by itself or by a signal, and its memory with it:
\* ExecStopPost is next.
Gone(how) ==
  /\ unit' = "post"
  /\ ending' = how
  /\ ProcessMemory
  /\ calm' = TRUE
  /\ UNCHANGED <<boardVars, settled, status, wanted, badConfig>>

Exit == Running /\ pc = "stopped" /\ Gone("exit")

\* A crash (panic = abort), the OOM killer, kill -9.
Killed == unit = "running" /\ Gone("killed")

Hang ==
  /\ Running /\ hung' = TRUE
  /\ UNCHANGED <<serviceVars, unit, wanted, termed, announced, ending, badConfig>>

\* WatchdogSec: no WATCHDOG=1 from a started unit.
Watchdog == unit = "running" /\ hung /\ announced /\ Gone("watchdog")

\* TimeoutStopSec: SIGTERM was not heeded.
StopTimeout == unit = "running" /\ hung /\ termed /\ Gone("timeout")

\* Mutant: only a loop that still turns is timed.
NoReadyThoughTicking == ~hung /\ pc = "idle"

NoReadyInTime == hung \/ pc = "idle"

\* A start job whose READY=1 does not come is stopped.
StartTimeout ==
  /\ unit = "running" /\ ~announced /\ ~termed
  /\ NoReadyInTime
  /\ termed' = TRUE
  /\ UNCHANGED <<serviceVars, unit, wanted, announced, ending, hung, badConfig>>

\* Mutant: Restart=on-abnormal.
RestartsIfAbnormal == wanted /\ ending # "exit"

Restarts == wanted

\* Mutant: a config that does not load stops safe as it stops run.
SafeBytesOfConfig == IF badConfig THEN {fanByte} ELSE Stored(PctToPwm(ExitPct))

SafeBytes == Stored(PctToPwm(IF badConfig THEN DefaultExitPct ELSE ExitPct))

\* fanctl safe: a fresh handle, one write, the compiled-in duty if the config
\* is broken.  The runtime directory is removed with it.
StopPost ==
  /\ unit = "post"
  /\ IF Writable THEN fanByte' \in SafeBytes ELSE UNCHANGED fanByte
  /\ status' = None
  /\ unit' = IF Restarts THEN "waiting" ELSE "dead"
  /\ ending' = "none"
  /\ UNCHANGED <<controllerVars, board, fault, pwmVars, countVars, historyVars, pc,
                 devicePresent, wanted, termed, announced, hung, badConfig>>

\* RestartSec is over.  main refuses a config that does not validate before it
\* has a service, and ExecStopPost runs again.
Start ==
  /\ unit = "waiting" /\ ~badConfig
  /\ unit' = "running"
  /\ UNCHANGED <<serviceVars, wanted, termed, announced, ending, hung, badConfig>>

StartRefused ==
  /\ unit = "waiting" /\ badConfig
  /\ Gone("exit")

OperatorStop ==
  /\ wanted /\ wanted' = FALSE
  /\ termed' = (unit = "running")
  /\ unit' = IF unit = "waiting" THEN "dead" ELSE unit
  /\ UNCHANGED <<serviceVars, announced, ending, hung, badConfig>>

OperatorStart ==
  /\ unit = "dead" /\ ~wanted /\ wanted' = TRUE
  /\ unit' = "waiting"
  /\ UNCHANGED <<serviceVars, termed, announced, ending, hung, badConfig>>

EditConfig ==
  /\ badConfig' = ~badConfig
  /\ UNCHANGED <<serviceVars, unit, wanted, termed, announced, ending, hung>>

Loop == LoopTick \/ LoopSleep \/ LoopStop \/ MainShutdown
Systemd == Exit \/ Watchdog \/ StopTimeout \/ StartTimeout \/ StopPost \/ Start \/ StartRefused
Operator == OperatorStop \/ OperatorStart \/ EditConfig
Board == Environment /\ UNCHANGED unitVars

DaemonNext == Loop \/ Systemd \/ Operator \/ Killed \/ Hang \/ Board

DaemonSpec == DaemonInit /\ [][DaemonNext]_daemonVars

\* A process that is neither wedged nor dead runs, and systemd's timers expire.
\* Operators, crashes, hangs and the board owe nothing.
DaemonFairness == WF_daemonVars(Loop) /\ WF_daemonVars(Systemd)
FairDaemonSpec == DaemonSpec /\ DaemonFairness

-----------------------------------------------------------------------------
\* Type invariant.
DaemonTypeOK ==
  /\ ServiceTypeOK
  /\ unit \in {"running", "post", "waiting", "dead"}
  /\ wanted \in BOOLEAN /\ termed \in BOOLEAN /\ announced \in BOOLEAN
  /\ ending \in {"none", "exit", "killed", "watchdog", "timeout"}
  /\ hung \in BOOLEAN /\ badConfig \in BOOLEAN

\* However a run ended (signal, error, crash, watchdog, broken config), once the
\* unit is down a working board that was left alone since holds at least the
\* smaller of the two exit duties (main.rs 179-195, 231-234; README
\* "Fail-safes").
UnattendedIsSafe ==
  unit \in {"waiting", "dead"} /\ calm /\ Writable =>
    fanByte + 1 >= PctToPwm(Smaller(ExitPct, DefaultExitPct))

\* systemd is told READY=1 only by a process that has had a byte accepted, and
\* hears nothing from one that was replaced (main.rs 129-132).
ReadyMeansControlled == unit = "running" /\ announced => delivered # None

\* The premise of recovery: from some time on the operator wants the unit up
\* with a good config, nothing kills or wedges it, and the board works and is
\* left alone.
Undisturbed ==
  /\ <>[](wanted /\ ~badConfig /\ Writable)
  /\ <>[][~Killed /\ ~Hang /\ ~Board]_daemonVars

\* ... and then the fan is under control again for good, whatever failed before:
\* the unit runs, has said so, and never goes down any more.
ControlReturns == Undisturbed => <>[](unit = "running" /\ announced)

\* A wedged loop does not stay: the watchdog, the start timeout or the stop
\* timeout ends it (fanctl.service WatchdogSec, TimeoutStopSec).
WedgedIsEnded == hung ~> ~hung
=============================================================================
