# Verification of thelio-fans

TLA+ models of the programs in this repository, TLC runs that check them on
small instances, and TLAPS proofs of their most important properties for every
value of the parameters.

The repository holds two programs. **fanctl** (Rust, `src/fanctl`) is an
unprivileged service that drives the intake fan of a Thelio case through one
sysfs attribute of a USB board, kept alive by a systemd unit (`src/packaging`).
**fanwatch** (Python, `src/src/fanwatch`) is a terminal dashboard and a stress
test that only read the sensors. The two share no more than a JSON file in
which fanctl tells how it is. fanctl can leave a machine without cooling, so
it is modelled first and in most detail.

## Inventory

| Component | State | Operations | Talks to |
|---|---|---|---|
| Control law, `controller.rs` | moving average, temperature at which the curve was read, curve and applied duty, times of the last step, rise and write, last byte, missing readings, end of the kick | `kick`, `write_failed`, `step` | called by the service; pure |
| Configuration, `config.rs` | the tunables | `load`, `validate` | file in `/etc`; read by `run` and by `safe` |
| PWM handle, `pwm.rs` | cached path, generation | `path`, `read`, `write`, `describe` | sysfs; the board renumbers on USB |
| Service, `service.rs` | device seen, generation seen, pending kick, failure count, ready, last error | `tick`, `shutdown` | control law, PWM handle, sensors, state file |
| Process, `main.rs` | signal flag, announced | `run_loop`, `safe`, `main` | service, systemd (`READY`, `WATCHDOG`), signals |
| Unit, `fanctl.service` | systemd's view of the process | start, stop, restart, timeouts, `ExecStopPost` | process |
| Sensors, `sensors.rs` | NVML session | `read_temps`, session open and reopen | service, NVML |
| State file, `state.rs`, `state.py` | file and temporary file | write and rename; defensive read | service writes, dashboard, installer and stress test read |
| Installer, `install.sh`, `uninstall.sh` | two units and the udev rule | mask, enable, restart, health check, rollback | system76-power, the unit |
| Stress test, `stress.py`, `load.py` | phase, running loads, samples, reason to stop | phases, guard, abort, Ctrl-C, GPU thread and its joins, report | sensors, worker processes, OpenCL |
| Probe and dashboard, `probe.py`, `dashboard.py`, `cli.py` | history of samples, stall alerts, log offsets | sample, detect, follow the log, draw | sensors, state file |
| GPU reader, `gpu.py` | NVML session, faults | open, read, recover, close | NVML |
| Chart and text, `chart.py`, `text.py` | none | pure | dashboard |

What is hard here: a tick of the service is a series of system calls, and the
board can vanish, come back under another number, fail or be written by another
program between any two of them; three mechanisms that hold the duty up overlap
in time; every way the process can end must leave a safe duty, although the
driver has no automatic mode; and systemd's timers race the process. In
fanwatch it is the stress test, whose loads must stop whatever fails and whose
verdicts are drawn from readings with gaps, and the screen, whose alerts,
charts and rows depend on histories of things that come and go. Between them
stand a file that is replaced while it is read and a GPU driver that restarts
under an open session. The list in `PROJECT.json`, "hazards", has the lines.

## Modules

`ControlLaw` holds the tunables with the assumptions `Config::validate`
enforces and the pure functions. `Controller` extends it with the state machine
of `struct Controller`. `Service` extends `Controller` with the board, the PWM
handle and the tick, and calls `Step`, `Kick` and `WriteFailed` at the lines
where the tick does. `Daemon` extends `Service` with the process and its unit.

    ControlLaw --> Controller --> Service --> Daemon
                       |
                       +-- DutyGovernor (abstract; refined by Controller)

    StateFile --> Telemetry            Loads --> Stress
        |                              Series --> Screen
        +-- StatusRegister                    \-> Report
            (abstract; refined by both)
                                       Nvml      Install      Watch

`StateFile` is the file between the two programs, system call by system call,
and `Telemetry` puts fanctl, its crashes and the dashboard's row around it.
`Nvml` has the GPU readers of both programs. `Stress` extends `Loads` with the
test that starts and stops the two loads; `Report` is what the test makes of its
samples, and `Screen` what the dashboard draws of its histories: both work on
the sequences with gaps of `Series`. `Install` takes fanctl for a unit that is
up, starting or down. `Watch` is the loop of the dashboard and the log.

`DutyGovernor` is what fanctl promises about its duty, with no average, curve,
kick timer or byte in it. `StatusRegister` is what the state file promises its
readers: one whole status or none. The modules named `*Proofs` hold the
theorems. `MC*` instantiate the modules for TLC. `MCTelemetry` puts `Telemetry`
and `Nvml`, and `MCScreen` the chart, the throttling and the report, into one
run each: they share no variable, and `about` chooses the one a behaviour is
about. Operators that a property's deliberately broken twin replaces are
preceded by that twin, marked "Mutant".

### Controller

Variables and actions are the fields and methods of the struct, with the same
names where TLA+ allows. Two abstractions:

- *Time.* The source keeps absolute times and only compares `now - t` with a
  tunable. The model keeps the ages and stops them at the tunable;
  `NEG_INFINITY` is an age that has reached it. `Elapse` ages them all.
- *Numbers.* Degrees, percents and seconds are integers. The moving average
  goes to any value of the grid between the old average and the reading, so
  every `ema_seconds` is covered. An interpolated duty is rounded down to a
  whole percent, which keeps it monotone and between its neighbours.

The invariants were stated for that integer grid; what they use of the
arithmetic is its order and its clamps.

### Service

`pc` is the place in the tick where a system call may follow: `Sense` (lines
76-95), `Decide` (96-98), one `Apply...` action per branch of 99-127, `Record`
(128-148), `Sleep`. `Environment` may act between any two. `Pwm::generation`
is only compared with the value last seen, so the model keeps whether they
differ. A board that appears holds any of `BootBytes` and may be a stopped one.
`Record` has the two outcomes of `write_state`: the file is replaced, or it
cannot be written, stays as it was, and nobody is told (`DiskFails`). A file
that stayed is older than the tick, and `StatusIsHonest` says how long it is still
true: until another byte is accepted. What a reader can do about an old file is
the matter of `Telemetry`. `calm`, `settled`, `delivered`, `kickDue`,
`kickBegun` and `file` (the age of the file) are history: no action of the
program reads them.

The board, its firmware and other writers are external, modelled from how
`pwm.rs` uses them and from what its comments say of the firmware (off by one).

### Daemon

Every step of the loop that `Service` has, under a process that can be killed
or wedged at any point, and a unit with its own state. A process that ends, in
whatever way, loses its memory (`ProcessMemory`), and `fanctl safe` runs
(`StopPost`). systemd is external and modelled from the unit's settings; its
timers are fair, not timed, which covers every duration of them.

### Loads and Stress

`Loads` has `CpuLoad` and `OpenClLoad`, one action per statement that another
process, the GPU thread or Ctrl-C can come between. `Stress` is `run` of
`stress.py`: `pc` is the statement, and `todo` the calls on the loads still to
be made before the next one. An exception throws `todo` away and puts the calls
of the handler in its place: first those of `CpuLoad.start` (`"unwind"`), then
those of the `finally` block.

- *Readings.* A sample is `"ok"`, `"hot"` or `"gone"` per sensor, and a counter
  that is still, moved, gone or there but unreadable. That is all `guard` asks.
- *OpenCL.* The five objects are made and freed together, so one stands for
  all. A launch is sized to a twentieth of a second and its join waits ten; the
  model lets the driver keep it for longer. `overran` remembers that a join gave
  up, and `stray` that the launch of an object already replaced still runs: the
  next phase makes an object of its own, so the check for a thread that is alive
  (`load.py:240`) never meets it. A Ctrl-C inside `gpu_load`, and a thread that
  cannot be started, are left out. The calls that release an object return.
- *The first launch* is one of its own: `_setup` measures a launch in the main
  thread (`load.py:210`) and waits for it without a limit. `pc` is `"calibrate"`
  while it does, no load but that launch is on, `guard` does not run, and Ctrl-C is
  not heeded. It may never return, and then the run never ends (`RunEnds`).
- *Output* drains in `RunEnds`. The safety properties do not rely on it.

`limitHit` and `overran` are history.

### Report

`samples` grows by one sample at a time, as `run` appends them, with the phases
of the plan in order and the skipped ones left out; `ran` is history, the index
of the phase each was taken in. `Summary` is `summarise` for one block, with
`Rises`, `StoppedFan` and `Verdict` in the order of the code. A fan that is in no
sample of a block has no summary, and a sample without it counts as one without
readings. The ten percent of a rise is a comparison of integers where the code
multiplies a float; no reading of the instance is where the two could differ.

### Install

A script is a list of commands under `set -e`; every command works, is refused,
or meets a kill or a reboot before it. What a failure does depends on where the
command stands: in the function `run`, followed by `||`, or in the health check.
systemd, udev and the board are external. The board may come and go at any time
and udev applies the rules it has loaded. `handedOver` and `stopRefused` are
history.

### Watch

One process in one of two modes, as `cli.main` chooses: the dashboard's loop
(`SampleIfDue`, `RecordAndDraw`, `DrawAgain`, `Key`) or the log's (`Observe`,
`LogSleep`). Both take snapshots in two actions, `CollectFans` and `CollectUsb`,
because `collect` scans hwmon first and USB later. Only the intake fan and the
Io board are followed: they are the ones that come and go. What a snapshot reads
of the fan is any combination of speed, duty and hardware flag. `shown` is the
set of alerts on the screen, `printed` the last line of the log. `blind`,
`zeroFor` and `stoppedFor` are history.

### Screen

`_record` and the drawing after it, for fans that appear and disappear and for
throttle counters that may be missing or unreadable. When the dashboard samples
and draws is the matter of `Watch`; here a sample is one step. A chart is the set
of its dots, which is what `render_chart` fills its grid with, and a dot's height
is rounded as Python rounds, halves to the even. `seen`, `counted` and
`lastGood` are history: what was really read of the fans, how many events there
were at each count, and the last count that was not misread.

### StateFile and Telemetry

`write_state` is `OpenTmp`, `Fill`, `Rename` and `Remove`, each of which may fail,
and `read_state` is `OpenState` and `ReadState`. The names of the directory point
to inodes, so a reader that has opened the file keeps what it opened. A kill may
come between any two calls, and systemd removes the runtime directory of a unit
that stopped. `Telemetry` adds the ages of the statuses, the tick that writes
and the screen that shows a snapshot for longer than it was fresh; `okAgo` is
history.

### Nvml

`NvmlSession` of fanwatch is one action per call into the library, `NvmlGpu` of
fanctl the two steps of `temp_c`. The library counts its inits and belongs to the
driver that the first of them found; when the driver restarts, what was obtained
before is stale, and every call through it fails. An `nvmlShutdown` may fail too,
which `close` does not tell: it forgets the session all the same, and the library
keeps the init. `quiet` and `quietGpu` are history, readings begun since the driver
last failed in any way, and so is `refused`, the number of those `nvmlShutdown`
calls. fanctl has no call for this: its session is dropped as a whole, and what its
binding does then is outside the repository.

## Runs

| Run | Module | Question |
|---|---|---|
| `controller` | `MCController` | Is the invariant of the proofs one, does the duty always cover the temperature, does each step account for its byte, is the law the governor it promises to be, and does the duty come down to the curve in the end? |
| `service` | `MCService` | Is the fan put right by one undisturbed tick, is every board that returns kicked, is the state file true, also when it could not be written for a while? |
| `service_reuse` | `MCService` | The same kick, if a board may return under its old number: **violated** |
| `daemon` | `MCDaemon` | Is a stopped unit safe, does READY=1 mean control was applied, does control return after any failure, and does a wedged loop end? |
| `stress` | `MCStress` | Are all loads stopped before output and before the report, do phases stay apart, are objects freed only when idle, does success mean a complete test, and does every run end? A launch that outlasts its ten seconds is the only exception to the safety properties, and no other follows it; the first launch, which is not given a limit, is the only one to the end. |
| `install` | `MCInstall` | Are there never two writers, does an installation last, and is fanctl down, without a unit, a rule or a board it may write, after an uninstall? |
| `install_failure` | `MCInstall` | Does any failure after the handover restore system76-power? **violated** |
| `watch` | `MCWatch` | Can a screen without alerts be trusted, is a stall told from recent readings, and is the log true without repeating itself? |
| `watch_stall` | `MCWatch` | Was a stalled fan commanded on all the time? **violated** |
| `telemetry` | `MCTelemetry` | Does a reader of the state file see a whole status or none, is a row that looks calm recent, and do GPU sessions balance and recover after one lost reading, but for an `nvmlShutdown` that failed? |
| `screen` | `MCScreen` | Are the lines of the chart where the readings are and aligned in time, is no throttling missed whatever could not be read in between, are the blocks of a report its phases, and do its verdicts agree with its numbers? |
| `chart_axis` | `MCScreen` | Does the label at the left edge of a chart tell the age of what is drawn there? **violated** |

### Bounds

- *Temperatures* are a few values around the points of a short curve: one below
  it, one above, one to interpolate and three that creep up by less than the
  deadband each time but by more than it in all.
  The test curve starts under the floor and ends under 100 %, so that the floor
  and the panic override both show.
- *Times* are one second apart, with every delay and window two or three seconds
  long: enough for each to end before, with and after each other one. `MaxGap`
  is the longest pause between two steps.
- *Board.* Two slots make every renumbering possible, since only "same number or
  not" matters. One boot byte of 0 is a stopped fan; a foreign byte of 80 % is
  far from every byte the law decides; the firmware adds nothing or one.
- *Counts.* Two failed writes end the run, two missing readings are a panic
  (one in `service` and `daemon`): enough for a count to start, be reset and reach its limit.
- *State file.* Its writes may fail in `service`, any number of them. In `daemon` and
  `service_reuse` they do not: no property there reads the file.
- `daemon` has one temperature and one-second delays: what the control law does
  over time is checked in `controller`, and only which step the process was in
  when it ended matters here.
- *Stress.* The default phases, which enter each load from none, after the
  other and after both. Two workers: one that runs while the other is started
  or has died. Two presses of Ctrl-C: the second meets the cleanup of the first.
- *Install.* Three scripts (install, upgrade or uninstall, install again) and
  two refused commands: one that fails and one more in its rollback.
- *Watch.* Speeds 600, 620 and 640: each within the jitter of the next, the
  first and last not. Two samples make a stall and three are kept, so that a
  history overflows; the board alternates between two numbers.
- *Telemetry.* Three inodes: the file, the next one and one that a reader holds;
  no system call needs a fourth. They are symmetric. A status is stale after two
  units of time, so that it can be fresh, at the limit and past it. Two
  `nvmlShutdown` calls fail: the second meets a library that is already kept.
- *Screen.* Two fans, a history of three snapshots, and terminals that give the
  chart one or three cells: a window narrower than the history and one that is
  wider. Speeds 700 and 1200 put the top of the axis on two different steps.
  Two throttle events. The plan of the report runs `cpu` twice with a phase
  that may be skipped and one that is not in between; four samples let a phase have all of them, and
  two make a fan that stopped.

TLC checks deadlock in the run of `Controller`. A service, a test, a script and a
session end, so the other runs do not.

### Fairness

`Controller` alone: the caller keeps stepping and time passes. `Daemon`: a
process that is neither wedged nor dead runs (`WF` of the loop), and systemd's
timers expire (`WF` of its actions). Nothing is assumed of crashes, hangs,
operators, configs or the board. `ControlReturns` is conditional on the
disturbances ending: the operator wants the unit up with a config that loads,
the board works, and nothing kills or wedges the process from some time on.
`Stress`: the main thread runs, the GPU thread looks at its flag between two
launches (`WF`), and a phase that is sampled again and again reaches its end (`SF`
of `PhaseOver`), because every sample is followed by a sleep and the end is a time.
Nothing is assumed of the workers, since `CpuLoad.stop` kills the one that does
not heed its flag, nor of a launch, which need not return: the join of the thread
gives up, and a run that waits for ever for the first launch (`Calibrated`, which
has no fairness) is the exception that `RunEnds` states.
The other modules state safety only and assume no fairness.

### Violated claims

1. `service_reuse`. `Pwm::path` scans again only when the cached path is gone
   (`pwm.rs:54`). A board replaced between two ticks that gets its old number
   back is the same board to it, its fan is not kicked, and the duty written
   next may be too low to start it. `src/fanctl/README.md:55` promises the kick.
2. `install_failure`. The ERR trap of `install.sh:53` is not inherited by the
   function `run` (that takes `set -E`), so a failing `mask`, `enable` or
   `restart` ends the script with system76-power masked, against line 52.
3. `watch_stall`. `_stalled` asks only the newest sample whether the fan is
   commanded on (`dashboard.py:171`); a fan that idled at 0 % long enough is
   called STALLED in the first sample after it is commanded on, where
   `docs/fanwatch.md:74` promises "starting".
4. `chart_axis`. The axis is labelled with the span of the whole history
   (`dashboard.py:480`), but a chart shows two samples per cell of the terminal
   (`chart.py:61`): in 120 columns its left edge is 230 samples old and labelled
   with ten minutes, against `chart.py:102` and `docs/fanwatch.md:29`.

The models behave in eight more ways that a doc describes otherwise. No run is
spent on them:

- A board that leaves between the start of a tick and its write is counted as a
  failed write (`service.rs:85, 100`), against `service.rs:57`.
- Throttle counter files that cannot be read count as 0 (`probe.py:280`), which
  `guard` takes for a counter that has not moved, against `docs/fanwatch.md:158`.
  `Counters` of `Stress` may be given `"unreadable"` to see it; the run `stress`
  checks `AlarmStopsLoad` without it.
- A Ctrl-C after a limit was reached, during the stops or the print, makes the
  exit status 0 (`stress.py:465`), against `docs/fanwatch.md:160`.
  `SuccessIsComplete` leaves interrupted runs out.
- Two equal phases in a row share a block (`stress.py:248`), against
  `docs/fanwatch.md:163`. `BlocksArePhases` leaves them out.
- A phase with fewer than three samples calls a fan stopped on those it has
  (`stress.py:238`), against `docs/fanwatch.md:167`.
- The header cries "throttling now" at the first count after a gap, however long
  ago the counter moved, and at a count that was misread as 0 and the one after it
  (`dashboard.py:317`, `448`; `probe.py:280`), against "moves between two refreshes"
  in `docs/fanwatch.md:115-117`. `ThrottlingIsCried` says exactly when.
- A reader whose `nvmlShutdown` failed (`gpu.py:119`) before the driver restarts
  stays with the stale library, and every later reading is lost, against "a driver
  restart is survivable" (`gpu.py:70`). `OneReadingLost` leaves that case out.
- A Ctrl-C between the release of an object and the clearing of its attribute makes
  the cleanup release it again (`load.py:269-272`), against "safe to call twice"
  (`load.py:255`). `FreedWhenIdle` counts those releases by the presses.

## Theorems

| Theorem | Says |
|---|---|
| `ControllerProofs!InterpolateMonotone` | a hotter reading never gets a smaller duty |
| `ControllerProofs!Invariant`, `TypeCorrect`, `BeliefIsSound` | the inductive invariant and two of its parts |
| `ControllerProofs!DutyAlwaysCovers` | the duty covers the temperature acted on |
| `ControllerProofs!Refinement` | `Controller` implements `DutyGovernor` |
| `DaemonProofs!ServiceObeysController` | `Service` refines `Controller` |
| `DaemonProofs!ServiceDutyCovers` | the duty covers the temperature in the service |
| `DaemonProofs!BeliefIsDelivery` | between ticks a believed byte was delivered |
| `ControllerProofs!StepsAreAccounted` | each step believes the byte it decided, has written it within the reassert, and holds a running kick |
| `DaemonProofs!OneTickDelivers` | an undisturbed tick puts the fan right, whatever came before |
| `DaemonProofs!StatusStaysHonest` | a state file without an error names the byte a board last accepted until another is, also when later files are lost |
| `DaemonProofs!UnattendedStaysSafe` | once the unit is down, however it ended, a board left alone holds an exit duty |
| `DaemonProofs!ReadyMeansControl` | only a process that has had a byte accepted is announced as ready |
| `DaemonProofs!DaemonDutyCovers`, `DaemonTypeCorrect` | the duty covers the temperature in every process; types |
| `TelemetryProofs!StateFileIsRegister` | the state file implements an atomic register |
| `TelemetryProofs!TelemetryIsRegister` | so it does under fanctl and fanwatch |
| `TelemetryProofs!TelemetryTypeCorrect`, `CalmRowsAreRecent` | types; a row that looks calm is recent |
| `TelemetryProofs!SessionsAreAccounted`, `OnlyOneReadingIsLost` | sessions balance but for the `nvmlShutdown` calls that failed; a restart of the driver costs one reading, unless one did |
| `InstallProofs!OneWriterAlways` | system76-power and fanctl never run together |
| `DaemonProofs!ReturningBoardIsAlwaysKicked` | after an undisturbed tick a board that was away is kicked, and the kick is held to its end |
| `DaemonProofs!AbsenceIsAlwaysReported` | a board that has been away for a reassert period is on record, in whatever file the last tick could write |
| `DaemonProofs!PendingKickAlwaysEnds` | a kick that waits for a write holds the duty up no longer than a reassert period |
| `StressProofs!StressIsInductive` | the inductive invariant of the stress test |
| `StressProofs!ObjectsAreFreedWhenIdle` | the GPU objects are released only when no launch uses them, or when one that does outlasted its join and no other will follow; once, and once more at most for each press of Ctrl-C |
| `StressProofs!PhasesAreQuiet` | a phase is sampled with its own loads and no other |
| `StressProofs!ReportComesAfterLoad`, `AlarmAlwaysStopsLoad` | loads are off before the report, and before the line of a sample that must stop them or found one dead |
| `StressProofs!SuccessIsAlwaysComplete` | an uninterrupted run that ends with success came to the end of its plan, and the guard never stopped it |
| `InstallProofs!InstallationAlwaysLasts`, `UninstallationAlwaysFences` | what a script reported to have done lasts over failures and reboots: fanctl is in charge, or has no unit, no rule and no board to write |
| `WatchProofs!WatchIsInductive` | the inductive invariant of the dashboard and the log |
| `WatchProofs!SilenceIsAlwaysTrue`, `StallIsAlwaysFresh` | a screen without alerts is true, and a stall is told of samples in a row |
| `WatchProofs!LogIsAlwaysCurrent`, `LogIsAlwaysQuiet` | the last line of the log is true to within the jitter, and no line repeats the one before |
| `ScreenProofs!ScreenIsInductive` | the inductive invariant of the histories and the throttle counts |
| `ScreenProofs!ColumnsAlwaysAgree`, `LineIsAlwaysTrue` | the lines of the chart agree in time and are where the readings are |
| `ScreenProofs!ThrottlingIsAlwaysCried` | a count that was read is cried exactly if it is not the last one that was, or the one before was misread |
| `ScreenProofs!ReportIsInductive` | the samples are in the order of the clock and of the plan |
| `ScreenProofs!BlocksAreAlwaysPhases` | the report has one block for each phase that ran |
| `ScreenProofs!VerdictIsAlwaysBorneOut`, `ResponseAlwaysStands` | the numbers bear out the verdicts, and a response once found is not taken back |

They hold for every value of the constants that the assumptions admit: every curve,
tunable, timing and board (`ConfigAssumption`, which is what `validate` enforces,
`TimeAssumption`, `NoneAssumption`, `TempsAssumption`, `ServiceAssumption`,
`DaemonAssumption`); any number of inodes and any limit (`FileAssumption`,
`TelemetryAssumption`) and of `nvmlShutdown` calls that fail (`NvmlAssumption`); any
number of scripts and refused commands
(`InstallAssumption`); any plan, faults and presses of Ctrl-C
(`StressAssumption`); any readings and lengths of the history (`WatchAssumption`);
any finite set of fans and any terminal (`ScreenAssumption`); and samples of any
number (`ReportAssumption`). `SnapshotAssumption` and the first part of
`ReportAssumption` only say that Python's None is not a snapshot or a number.

Some theorems have a hypothesis more:

- `Readbacks = Byte` in `DaemonProofs`, but for `BeliefIsDelivery` and
  `UnattendedStaysSafe`: the controller may be told any byte, as in the refined
  law. It takes nothing from the board, which may then hold any byte.
- `~ReuseSlot` in `ReturningBoardIsAlwaysKicked`: without it the property is
  violated (`service_reuse`). `~DryRun` in `ReadyMeansControl`: a dry run is ready
  without a write.
- `"unreadable" \notin Counters` in `AlarmAlwaysStopsLoad`: a counter that cannot be
  read counts as one that has not moved (see above).

*The argument.* That the duty covers the temperature is not inductive: it says
nothing of how the curve was read. `CurveIsRecent` adds that the applied duty
covers the curve as last read, that it was read within the deadband of the
present average, and that the count of missing readings is at its limit exactly
in a panic. With `TypeOK` and `BelievedIsApplied` that is `IInv`. It yields the
property by the monotonicity of the interpolation, which is proved from the two
demands `validate` makes on a curve: the points below a temperature are a prefix
of the curve (`PointsBelowSplits`), so a temperature lies in one window
(`Located`), and inside a window the line stays between its ends and rises
(`OnLineFacts`). The refinement needs the same invariant for the least duty
allowed, and the clamp of the slew limit for the greatest fall.

`Service` refines `Controller` with the identity mapping: each of its actions
is a step of the law or leaves the law's variables alone. So everything proved
of the law holds in the service. `BeliefIsDelivery` needs the places inside a
tick at which the controller already believes in a byte still to be written.
`OneTickDelivers` and `StatusStaysHonest` share `TickInv`, which says for each
place of a tick what was sensed, what has been decided of it and, if nothing has
disturbed the tick, that the board is the one that was sensed and holds what was
read back or written. The three promises on what returns and what goes missing
each add one invariant to it. `KickInv` says that a kick that is due is either
still to be noticed by the device check, or waits for its write, or runs and has
at least as long to go as it is due. `AbsenceInv` and `PendingInv` bound the time
without a write: as long as the board has been away with no error on record, or a
kick has waited on a board that works, the last write is at least that old, so
that the reassert must come and either succeed or be recorded as failed.

A new process starts the law from `Init` again, and `fanctl safe` leaves it alone,
so the invariant of the law holds in every process of `Daemon` (`LawInvariant`).
`UnattendedIsSafe` is inductive as it stands: a unit goes down only with the write
of `fanctl safe`, and neither of the two duties that it may write is below the
smaller one by more than the rounding (`SafeFacts`). `ReadyInv` asks of `ready`
what the property asks of `announced`. The types go group by group (`TypeInv`),
with the failure count at its limit only in a process that is on its way out.

The state file is a register because a temporary file that has been filled is
whole and no one else's (`WriterOwnsTmp`), and because the file and a file that a
reader has opened are never written again (`SeenIsWhole`). The mapping takes a
file that is open for already read, so that the read happens at the open. A calm
row is recent because a status without trouble that a reader can have is never
younger than the moment the last such one was put in place (`OkIsNoOlder`).

A session balances because `initialised` goes with the one init that is open
beside those that were not taken back (`OpenAt`), and a reading begun in peace is
whole because a handle that is stale was obtained before the driver last failed
(`StaleIsOld`), and a library that is stale without a session is one that a failed
`nvmlShutdown` kept.

There is one writer because of the order of the commands, which every rest of a
script inherits: what is left of an installation starts fanctl only after the
mask (`InstallOrder`), and what is left of a rollback or an uninstall gives the
fan back only after fanctl was stopped (`UninstallOrder`). A script past its mask
has stopped system76-power, and one past its stop has stopped fanctl (`Writers`).
That an installation lasts needs the converse, `Progress`: a command that a script
no longer awaits has done its work, and nothing since has undone it. The orders of
the rule file, its loading and the check of the board (`InstallPlan`,
`UninstallPlan`) are what keeps it so while the board comes and goes. `Fenced` is
what `Progress` comes to when no command of the uninstaller is left; that fanctl is
down then too follows from `OneWriter`, since system76-power runs.

`StressInv` has a part for each promise. `Place` says which calls may be waiting
at which statement, and that a join comes before what it makes safe. `GpuInv` says
that whoever frees has joined and whoever joins has told the thread to end, so
that objects are in use only by a launch that a join gave up on (`overran`). `FreeInv`
charges every release after the first to a press of Ctrl-C that came before the
attributes were cleared.
`TryInv` says that inside the `try` block `run` knows of every load there is, but
for the worker just forked; `PhaseInv` that these are the loads of the plan's
phase; `FinalInv` that what is left is stopped before the report; `VerdictInv` and
`SampleInv` that what ended the run is on record.

In `Watch` the history is related to the samples by counting back from the newest:
`Tallied` says that it ends in as many zeroes as the samples did, and no more
unless that makes a stall already. A sample that has been read and not recorded
yet belongs to the tally (`Tally`), which is what makes it survive a board that
leaves between the two halves of a snapshot. For the log, `BaselineIsPrinted` ties
what the tracker compares with to what it said.

The chart rests on `HistoryInv`: counted from the newest, every reading of a
history is that of the snapshot of the same age. Position from the right edge is
age in both, so columns agree. For `LineIsTrue` the window, the scale and the span
of a column are each brought to bounds on integers (a scale is monotone, and
strictly so beyond a dot). `ThrottleInv` says that each count is the number of
events at its time or was misread as zero, and `GoodInv` that the last good count
is the one kept last before the present snapshot, unless that was misread.

`ReportInv` is the order of the samples in time and plan. A phase is then a
stretch of the samples, its cuts are those of the names if no phase runs twice in a
row, and the block taken from its first sample ends with its last
(`BlockIsPhase`). A verdict is borne out because a rise over the first reading
of a series is there if and only if its peak is one, and comes after that reading
(`RiseOfRpm`, `RiseOfDuty`), and because the questions of `_fan_summary` exclude
each other (`VerdictFacts`). A response stands because a sample more leaves the
first reading of every series alone, and every rise before it (`RisesStand`).

What these proofs need of sequences of any length is in `SeriesProofs`: the least
and the greatest of a set of numbers, the peak of a series, its first reading and
its last n. The set of counterexamples to a bound has a least number, and
what holds before that number makes it none; so the lemmas need no induction
theorem that takes a predicate, and the series no recursion.

Every safety invariant and action property that a passing run checks is a theorem.
Only model-checked are the liveness properties, which are out of the prover's
reach: `SettlesOnCurve` of `Controller`, `ControlReturns` and `WedgedIsEnded` of
`Daemon`, and `RunEnds` of `Stress`.

## Not modelled

Formatting and logging; `fanctl check`; `--ticks`; command lines; the sandbox
settings of the unit; floating-point rounding; the order of the checks in
`Config::validate`. The temperatures, the wall clock and the GPU in the state
file. In fanwatch, temperatures and their alerts and charts, the rows of the GPU,
layout and colours, and how sysfs is parsed; the GPU limit, which `fanstress`
takes from one snapshot for the whole run; two drives of one model, which share a
key and a history. What the other components lack is noted in `PROJECT.json`.

What the models take for granted: no clock is set back, although the age of a
status is a difference of wall clocks; the unit is the only writer of
`state.json.tmp`, although a `fanctl run` by hand shares its name; and a cached
path belongs to the Io board, although `pwm.rs:54` does not look at the name of
the driver again (the udev rule opens no other device to fanctl).

`OneWriter` holds as long as fanctl could be stopped when it was meant to be: the
rollback and the uninstaller go on, on purpose, when it could not.

## Plan

1. An abstract specification of a tick of the service, in which the board is
   written or not in one step, with `Service` shown to implement it.
2. The temperature alerts and charts of the dashboard, with sensors that come and
   go, beside the fans of `Watch` and `Screen`.
3. A thread that cannot be started and a Ctrl-C inside the OpenCL setup in `Loads`.
