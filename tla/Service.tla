------------------------------- MODULE Service -------------------------------
(***************************************************************************)
(* One fanctl service against a board that comes and goes:                 *)
(* src/fanctl/src/service.rs and src/fanctl/src/pwm.rs around the control  *)
(* law of Controller.                                                      *)
(*                                                                         *)
(* A tick is not atomic: it resolves the device path, reads the byte back, *)
(* writes and describes the device in separate system calls, and the board *)
(* can vanish, return, fail or be written by someone else between any two. *)
(*                                                                         *)
(* Pwm::generation only counts up and is only compared with the value seen *)
(* by the last tick, so the model keeps whether the two differ.            *)
(***************************************************************************)
EXTENDS Controller

CONSTANTS
  Slots,         \* hwmon numbers the board can appear under
  BootBytes,     \* bytes a board can hold when it appears
  ForeignBytes,  \* bytes another program can write
  Rounding,      \* what the firmware can add to a byte it stores
  ReuseSlot,     \* a board can reappear under the number of the cached path
  DiskFails,     \* writing the state file can fail
  DryRun,        \* fanctl dry-run: decide and record, write nothing
  ExitAfter,     \* write_failures_to_exit
  ExitPct        \* exit_duty_pct

MIN_EXIT_PCT == 25

ASSUME ServiceAssumption ==
  /\ None \notin Slots
  /\ BootBytes \subseteq Byte /\ ForeignBytes \subseteq Byte
  /\ Rounding \subseteq {-1, 0, 1} /\ 0 \in Rounding
  /\ ReuseSlot \in BOOLEAN /\ DiskFails \in BOOLEAN /\ DryRun \in BOOLEAN
  /\ ExitAfter \in Nat \ {0}
  /\ ExitPct \in MIN_EXIT_PCT..100

VARIABLES
  \* the board and its driver
  board,          \* hwmon number of the board, or None while it is absent
  fanByte,        \* byte the board holds
  fault,          \* what its attribute fails at: "none", "write" or "io"
  \* the service
  pc,             \* where the tick stands
  path,           \* Pwm::path, the hwmon number in it, or None
  newGeneration,  \* Pwm::generation differs from seen_generation
  devicePresent,  \* device_present; within a tick also its local "present"
  pendingKick,
  writeFailures,
  ready,
  lastError,      \* last_error: "none", "absent" or "failed"
  status,         \* the state file, or None before the first
  \* history, read by the properties only
  calm,           \* the board was left alone since the tick began
  settled,        \* seconds since the board was last touched
  delivered,      \* last byte a board accepted from this service, or None
  kickDue,        \* seconds of kick still owed to this board
  kickBegun,      \* the board has had the first byte of its kick
  file            \* "current": the last tick wrote the state file; "kept": it is
                  \* older; "outdated": and a board has accepted a byte since

boardVars   == <<board, fanByte, fault>>
pwmVars     == <<path, newGeneration>>
countVars   == <<pendingKick, writeFailures, ready, lastError>>
historyVars == <<calm, settled, delivered, kickDue, kickBegun, file>>
serviceVars == <<controllerVars, boardVars, pwmVars, countVars, historyVars,
                 pc, devicePresent, status>>

StartByte == PctToPwm(StartPct)

ServiceInit ==
  /\ Init
  /\ board \in Slots \cup {None}
  /\ fanByte \in IF board = None THEN {0} ELSE BootBytes
  /\ fault = "none"
  /\ pc = "sense"
  /\ path = None
  /\ newGeneration = FALSE
  /\ devicePresent = FALSE
  /\ pendingKick = FALSE
  /\ writeFailures = 0
  /\ ready = FALSE
  /\ lastError = "none"
  /\ status = None
  /\ calm = TRUE
  /\ settled = 0
  /\ delivered = None
  /\ kickDue = StartSeconds
  /\ kickBegun = FALSE
  /\ file = "outdated"

-----------------------------------------------------------------------------
\* The board.  Each of these can happen between any two steps of a tick.

Disturb == /\ calm' = FALSE
           /\ settled' = 0

Unplug ==
  /\ board # None
  /\ board' = None /\ fanByte' = 0 /\ fault' = "none"
  /\ Disturb
  /\ UNCHANGED <<delivered, kickDue, kickBegun>>

\* A board that appears may be a stopped one: its whole kick is owed.
Plug ==
  /\ board = None
  /\ board' \in Slots
  /\ ReuseSlot \/ board' # path
  /\ fanByte' \in BootBytes
  /\ fault' = "none"
  /\ Disturb
  /\ kickDue' = StartSeconds /\ kickBegun' = FALSE
  /\ UNCHANGED delivered

\* Permissions lost or not yet given, I/O errors, and their end.
FaultChanges ==
  /\ board # None
  /\ fault' \in {"none", "write", "io"} \ {fault}
  /\ Disturb
  /\ UNCHANGED <<board, fanByte, delivered, kickDue, kickBegun>>

ForeignByte ==
  /\ board # None
  /\ fanByte' \in ForeignBytes \ {fanByte}
  /\ Disturb
  /\ UNCHANGED <<board, fault, delivered, kickDue, kickBegun>>

Environment ==
  /\ Unplug \/ Plug \/ FaultChanges \/ ForeignByte
  /\ UNCHANGED <<controllerVars, pwmVars, countVars, pc, devicePresent, status, file>>

-----------------------------------------------------------------------------
\* Pwm.

\* Pwm::path: a cached path that still exists is kept, else the tree is scanned.
Resolves == board # None /\ board # path
Resolve == path' = board /\ newGeneration' = (newGeneration \/ Resolves)

\* The same, followed by a read or write that failed: the path is dropped.
ResolveAndDrop == path' = None /\ newGeneration' = (newGeneration \/ Resolves)

Readable == board # None /\ fault # "io"
Writable == board # None /\ fault = "none"

\* Pwm::read: the byte, or None from an absent or failing device.
ReadBack == IF Readable THEN fanByte ELSE None
ReadPath == IF Readable THEN Resolve ELSE ResolveAndDrop

\* The firmware may round what it stores.
Stored(byte) == {byte + r : r \in Rounding} \cap Byte

\* Pwm::write that succeeds.
WriteByte(byte) ==
  /\ Writable
  /\ Resolve
  /\ fanByte' \in Stored(byte)
  /\ delivered' = byte
  /\ kickBegun' = (kickBegun \/ byte >= StartByte)
  /\ file' = "outdated"

\* ... and that does not: no board, or an error.
WriteError ==
  /\ ~Writable
  /\ ResolveAndDrop
  /\ UNCHANGED <<fanByte, delivered, kickBegun, file>>

-----------------------------------------------------------------------------
\* Service::tick.

\* Startup, or the board came back, even between two ticks: it may be stopped.
\* Mutant: only a board that was seen to be absent is kicked.
NeedsKickIfSeenAbsent == board # None /\ ~devicePresent

NeedsKick == board # None /\ (~devicePresent \/ newGeneration \/ Resolves)

\* Lines 76-95: is the board there, is it another one, and does it need a kick.
\* A kick is armed again every tick until a write lands.
Sense ==
  /\ pc = "sense"
  /\ path' = board
  /\ newGeneration' = FALSE
  /\ devicePresent' = (board # None)
  /\ pendingKick' = (pendingKick \/ NeedsKick)
  /\ IF pendingKick' THEN Kick ELSE UNCHANGED controllerVars
  /\ pc' = "decide"
  /\ calm' = TRUE
  /\ UNCHANGED <<boardVars, writeFailures, ready, lastError, status,
                 settled, delivered, kickDue, kickBegun, file>>

\* Lines 96-98: read the byte back and step the control law.  The reading is
\* the tick's: None without a CPU temperature, whatever the GPU says.
Decide ==
  /\ pc = "decide"
  /\ IF DryRun THEN UNCHANGED pwmVars ELSE ReadPath
  /\ \E reading \in Temps \cup {None} :
       Step(reading, IF DryRun THEN None ELSE ReadBack)
  /\ pc' = "apply"
  /\ UNCHANGED <<boardVars, countVars, historyVars, devicePresent, status>>

\* Lines 99-127, one action per branch.
Applies == pc = "apply" /\ decision.write /\ ~DryRun

\* Mutant: an absent board is no error.
ApplyAbsentSilently ==
  /\ Applies /\ ~devicePresent
  /\ WriteFailed
  /\ pc' = "record"
  /\ UNCHANGED <<boardVars, pwmVars, historyVars, countVars, devicePresent, status>>

\* Hold the duty and try again when the board is back.
ApplyAbsent ==
  /\ Applies /\ ~devicePresent
  /\ WriteFailed
  /\ lastError' = "absent"
  /\ pc' = "record"
  /\ UNCHANGED <<boardVars, pwmVars, historyVars, pendingKick, writeFailures,
                 ready, devicePresent, status>>

ApplyDelivered ==
  /\ Applies /\ devicePresent
  /\ WriteByte(decision.pwm)
  /\ writeFailures' = 0
  /\ lastError' = "none"
  /\ ready' = TRUE
  /\ pendingKick' = FALSE
  /\ pc' = "record"
  /\ UNCHANGED <<controllerVars, board, fault, devicePresent, status,
                 calm, settled, kickDue>>

\* Mutant: one failure too late.
GivesUpLate(failures) == failures > ExitAfter

GivesUp(failures) == failures >= ExitAfter

\* Too many failures in a row end the run, and this tick records nothing.
ApplyFailed ==
  /\ Applies /\ devicePresent
  /\ WriteError
  /\ WriteFailed
  /\ writeFailures' = writeFailures + 1
  /\ lastError' = "failed"
  /\ pc' = IF GivesUp(writeFailures') THEN "stopping" ELSE "record"
  /\ UNCHANGED <<board, fault, pendingKick, ready, devicePresent, status,
                 calm, settled, kickDue>>

ApplyNothing ==
  /\ pc = "apply" /\ (DryRun \/ ~decision.write)
  /\ ready' = (ready \/ DryRun)
  /\ pendingKick' = (pendingKick /\ ~DryRun)
  /\ pc' = "record"
  /\ UNCHANGED <<controllerVars, boardVars, pwmVars, historyVars,
                 writeFailures, lastError, devicePresent, status>>

\* write_state: a temporary file that takes the place of the old one ...
Written ==
  /\ status' = [pwm |-> decision.pwm, error |-> lastError]
  /\ file' = "current"

\* ... or, if it cannot be written, goes again: the old file stays, and nobody is
\* told.
WriteLost ==
  /\ DiskFails
  /\ file' = IF file = "current" THEN "kept" ELSE file
  /\ UNCHANGED status

\* Lines 128-148: the state file.  Describing the device resolves it again.
Record ==
  /\ pc = "record"
  /\ Resolve
  /\ Written \/ WriteLost
  /\ pc' = "idle"
  /\ UNCHANGED <<controllerVars, boardVars, countVars, calm, settled, delivered,
                 kickDue, kickBegun, devicePresent>>

\* The run loop waits for the next tick (main.rs 151-157).
Sleep ==
  /\ pc = "idle"
  /\ \E d \in Delays :
       /\ Elapse(d)
       /\ settled' = Smaller(settled + d, Reassert)
       /\ kickDue' = IF kickBegun THEN Larger(kickDue - d, 0) ELSE kickDue
  /\ pc' = "sense"
  /\ UNCHANGED <<boardVars, pwmVars, countVars, devicePresent, status,
                 calm, delivered, kickBegun, file>>

\* A signal is noticed between two ticks (main.rs 124, 154).
Stop ==
  /\ pc = "idle"
  /\ pc' = "stopping"
  /\ UNCHANGED <<controllerVars, boardVars, pwmVars, countVars, historyVars,
                 devicePresent, status>>

\* Service::shutdown: one attempt to leave the fan at the exit duty.
Shutdown ==
  /\ pc = "stopping"
  /\ IF DryRun THEN UNCHANGED <<pwmVars, fanByte, delivered, kickBegun, file>>
     ELSE WriteByte(PctToPwm(ExitPct)) \/ WriteError
  /\ pc' = "stopped"
  /\ UNCHANGED <<controllerVars, board, fault, countVars, devicePresent, status,
                 calm, settled, kickDue>>

Tick == \/ Sense \/ Decide \/ ApplyAbsent \/ ApplyDelivered \/ ApplyFailed
        \/ ApplyNothing \/ Record

ServiceNext == Tick \/ Sleep \/ Stop \/ Shutdown \/ Environment

ServiceSpec == ServiceInit /\ [][ServiceNext]_serviceVars

-----------------------------------------------------------------------------
\* Type invariant.
ServiceTypeOK ==
  /\ TypeOK
  /\ board \in Slots \cup {None}
  /\ fanByte \in Byte
  /\ fault \in {"none", "write", "io"}
  /\ pc \in {"sense", "decide", "apply", "record", "idle", "stopping", "stopped"}
  /\ path \in Slots \cup {None}
  /\ newGeneration \in BOOLEAN
  /\ devicePresent \in BOOLEAN
  /\ pendingKick \in BOOLEAN
  /\ writeFailures \in 0..ExitAfter
  /\ ready \in BOOLEAN
  /\ lastError \in {"none", "absent", "failed"}
  /\ status \in [pwm : Byte, error : {"none", "absent", "failed"}] \cup {None}
  /\ calm \in BOOLEAN
  /\ settled \in 0..Reassert
  /\ delivered \in Byte \cup {None}
  /\ kickDue \in 0..StartSeconds
  /\ kickBegun \in BOOLEAN
  /\ file \in {"current", "kept", "outdated"}

\* A tick has just ended with a working board that was left alone since the
\* tick began.
CleanTick == pc = "idle" /\ calm /\ Writable /\ ~DryRun

\* One undisturbed tick is enough: whatever was written, lost, replaced or
\* refused before, the board then holds the applied duty's byte, to within the
\* firmware's rounding (service.rs 97-127, controller.rs 169-190).
CleanTickDelivers == CleanTick => Distance(fanByte, PctToPwm(appliedPct)) <= 1

\* Between ticks the controller believes in a byte only if it is the last one a
\* board accepted: every failed write is taken back (service.rs 100-115).
BelievedIsDelivered ==
  pc = "idle" /\ lastWritten # None /\ ~DryRun => lastWritten = delivered

\* A state file without an error names the byte a board last accepted, from the
\* first file on and for as long as no other is accepted, also while later files
\* are lost: install.sh takes that for a healthy start, the dashboard for the
\* commanded duty.  When it is the last tick's, no failure from before it counts
\* towards the limit that ends the run (service.rs 105-148, state.rs 9-15,
\* install.sh 61-63).
StatusIsHonest ==
  ~DryRun /\ status # None =>
    /\ status.error = "none" /\ file # "outdated" => status.pwm = delivered
    /\ status.error = "none" /\ file = "current" /\ pc = "idle" => writeFailures = 0

\* A board that was away, or was replaced, is kicked: after an undisturbed tick
\* it holds at least the start duty until the whole kick has run
\* (service.rs 85-95, 105-110; pwm.rs 46-51; README "Fail-safes").
ReturningBoardIsKicked ==
  CleanTick /\ kickDue > 0 => fanByte + 1 >= StartByte

\* An absent board is on record no later than a reassert period after it left,
\* in whatever state file the last tick could write (service.rs 99-102, 128-148).
AbsenceIsReported ==
  pc = "idle" /\ board = None /\ settled = Reassert /\ file = "current" /\ ~DryRun =>
    status.error # "none"

\* A kick waiting for a write does not hold the duty up for longer than a
\* reassert period once the board works (service.rs 93-95, 109).
PendingKickEnds ==
  pc = "idle" /\ Writable /\ settled = Reassert => ~pendingKick
=============================================================================
