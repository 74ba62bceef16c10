----------------------------- MODULE Controller -----------------------------
(***************************************************************************)
(* fanctl's control law as a state machine: struct Controller of           *)
(* src/fanctl/src/controller.rs, with one action per method that changes   *)
(* it and one for the passing of time.                                     *)
(*                                                                         *)
(* The source keeps absolute times and only ever compares "now minus a     *)
(* time" with a tunable, so the model keeps ages.  An age stops growing at *)
(* the tunable it is compared with, and f64::NEG_INFINITY is an age that   *)
(* has already reached it.                                                 *)
(***************************************************************************)
EXTENDS ControlLaw

CONSTANTS
  Delays,      \* seconds that can pass between two calls
  MaxGap,      \* bound of the model: longest time between two steps
  Readbacks    \* bytes the device can report to a step

ASSUME TimeAssumption == /\ Delays \subseteq Nat \ {0}
                         /\ MaxGap \in Nat
                         /\ Readbacks \subseteq Byte

VARIABLES
  ema,             \* moving average of the input temperature, or None
  appliedTemp,     \* temperature at which the curve was last read, or None
  curvePct,        \* what the curve asked for there
  appliedPct,      \* duty now applied
  sinceStep,       \* now - last_time, or None before the first step
  sinceIncrease,   \* now - last_increase_at
  sinceWrite,      \* now - last_write_at
  lastWritten,     \* last_written_pwm
  sensorFailures,  \* missing readings in a row
  kickLeft,        \* kick_until - now, 0 when that is past
  decision,        \* what the last step returned
  call             \* the last method called

lawVars == <<ema, appliedTemp, curvePct, appliedPct, sensorFailures>>
timeVars == <<sinceStep, sinceIncrease, sinceWrite, kickLeft>>
controllerVars == <<lawVars, timeVars, lastWritten, decision, call>>

Init ==
  /\ ema = None
  /\ appliedTemp = None
  /\ curvePct = FloorPct
  /\ appliedPct = FloorPct
  /\ sinceStep = None
  /\ sinceIncrease = SpindownDelay
  /\ sinceWrite = Reassert
  /\ lastWritten = None
  /\ sensorFailures = 0
  /\ kickLeft = 0
  /\ decision = [pwm |-> PctToPwm(FloorPct), write |-> FALSE,
                 smoothed |-> None, panic |-> FALSE]
  /\ call = "new"

-----------------------------------------------------------------------------
\* The parts of a step, in the order the source takes them.

\* Mutant: last_time is set before dt is taken from it.
NoTimeBetween == 0

Dt == IF sinceStep = None THEN 0 ELSE sinceStep

\* sensor_failures after a reading; the source saturates at u32::MAX, the model
\* at the only value the count is compared with.
FailuresAfter(reading) ==
  IF reading = None THEN Smaller(sensorFailures + 1, PanicAfter) ELSE 0

PanicAt(reading) == FailuresAfter(reading) >= PanicAfter

EmaAfter(reading) ==
  IF reading = None THEN {ema} ELSE Smoothed(ema, reading, Dt)

\* Mutant: the deadband is measured from the last average instead of from the
\* temperature the curve was read at, so small moves add up unnoticed.
MovedFromAverage(smoothed) ==
  /\ smoothed # None
  /\ ema = None \/ Distance(smoothed, ema) >= DeadbandC

\* Deadband: the curve is read only when the temperature has moved enough.
Moved(smoothed) ==
  /\ smoothed # None
  /\ appliedTemp = None \/ Distance(smoothed, appliedTemp) >= DeadbandC

\* Mutant: panic goes through the curve, which may top out below full speed.
PanicThroughCurve(smoothed, panic) ==
  IF panic \/ Moved(smoothed) THEN CurveDuty(smoothed) ELSE curvePct

CurveAfter(smoothed, panic) ==
  IF panic THEN 100
  ELSE IF Moved(smoothed) THEN CurveDuty(smoothed)
  ELSE curvePct

Kicking == kickLeft > 0

\* A kick raises the target; it never lowers it.
Kicked(curve) == Kicking /\ curve < StartPct
Target(curve) == IF Kicked(curve) THEN StartPct ELSE curve

Rises(target) == target > appliedPct

\* Mutant: no spin-down delay.
FallsAtOnce(target) == target < appliedPct /\ ~Kicking

Falls(target) == /\ target < appliedPct
                 /\ ~Kicking
                 /\ sinceIncrease >= SpindownDelay

\* Up at once, down slowly and not too soon.
AppliedAfter(target) ==
  IF Rises(target) THEN target
  ELSE IF Falls(target) THEN Larger(appliedPct - MaxDecrease * Dt, target)
  ELSE appliedPct

\* Mutant: the difference is signed.
ForeignWriteAbove(readback) ==
  /\ readback # None
  /\ lastWritten # None
  /\ readback - lastWritten > 1

\* The firmware may report one more or one less than was written.
ForeignWrite(readback) ==
  /\ readback # None
  /\ lastWritten # None
  /\ Distance(readback, lastWritten) > 1

\* Mutant: never again once written.
WriteWithoutReassert(pwm, readback) == lastWritten # pwm \/ ForeignWrite(readback)

MustWrite(pwm, readback) ==
  \/ lastWritten # pwm
  \/ ForeignWrite(readback)
  \/ sinceWrite >= Reassert

-----------------------------------------------------------------------------
Elapse(d) ==
  /\ sinceStep # None => sinceStep + d <= MaxGap
  /\ sinceStep' = IF sinceStep = None THEN None ELSE sinceStep + d
  /\ sinceIncrease' = Smaller(sinceIncrease + d, SpindownDelay)
  /\ sinceWrite' = Smaller(sinceWrite + d, Reassert)
  /\ kickLeft' = Larger(kickLeft - d, 0)
  /\ call' = "elapse"
  /\ UNCHANGED <<lawVars, lastWritten, decision>>

Kick ==
  /\ kickLeft' = StartSeconds
  /\ call' = "kick"
  /\ UNCHANGED <<lawVars, sinceStep, sinceIncrease, sinceWrite, lastWritten,
                 decision>>

\* Mutant: the report is noted but the byte still believed.
WriteFailedIgnored ==
  /\ call = "step" /\ decision.write
  /\ call' = "write_failed"
  /\ UNCHANGED <<lawVars, timeVars, lastWritten, decision>>

\* The service reports that the byte it was told to write did not arrive.
WriteFailed ==
  /\ call = "step" /\ decision.write
  /\ lastWritten' = None
  /\ call' = "write_failed"
  /\ UNCHANGED <<lawVars, timeVars, decision>>

\* What a step does once the new average is known.
StepWith(reading, readback, average) ==
  LET panic    == PanicAt(reading)
      smoothed == IF panic THEN PANIC_TEMP_C ELSE average
      curve    == CurveAfter(smoothed, panic)
      applied  == AppliedAfter(Target(curve))
      pwm      == PctToPwm(applied)
      write    == MustWrite(pwm, readback)
  IN  /\ ema' = average
      /\ sensorFailures' = FailuresAfter(reading)
      /\ curvePct' = curve
      /\ appliedTemp' = IF panic \/ Moved(smoothed) THEN smoothed ELSE appliedTemp
      /\ appliedPct' = applied
      /\ sinceIncrease' = IF Rises(Target(curve)) /\ ~Kicked(curve)
                          THEN 0 ELSE sinceIncrease
      /\ lastWritten' = IF write THEN pwm ELSE lastWritten
      /\ sinceWrite' = IF write THEN 0 ELSE sinceWrite
      /\ decision' = [pwm |-> pwm, write |-> write,
                      smoothed |-> smoothed, panic |-> panic]
      /\ sinceStep' = 0
      /\ call' = "step"
      /\ UNCHANGED kickLeft

Step(reading, readback) ==
  \E average \in EmaAfter(reading) : StepWith(reading, readback, average)

SomeStep ==
  \E reading \in Temps \cup {None}, readback \in Readbacks \cup {None} :
    Step(reading, readback)

Passing == \E d \in Delays : Elapse(d)

Next == Passing \/ Kick \/ WriteFailed \/ SomeStep

Spec == Init /\ [][Next]_controllerVars

\* The daemon steps the controller for as long as it lives, and time passes.
Fairness == WF_controllerVars(SomeStep) /\ WF_controllerVars(Passing)
FairSpec == Spec /\ Fairness

-----------------------------------------------------------------------------
\* Type invariant.
TypeOK ==
  /\ ema \in Temps \cup {None}
  /\ appliedTemp \in Temps \cup {None, PANIC_TEMP_C}
  /\ curvePct \in FloorPct..100
  /\ appliedPct \in FloorPct..100
  /\ sinceStep \in 0..MaxGap \cup {None}
  /\ sinceIncrease \in 0..SpindownDelay
  /\ sinceWrite \in 0..Reassert
  /\ lastWritten \in Byte \cup {None}
  /\ sensorFailures \in 0..PanicAfter
  /\ kickLeft \in 0..StartSeconds
  /\ decision \in [pwm : Byte, write : BOOLEAN,
                   smoothed : Temps \cup {None, PANIC_TEMP_C}, panic : BOOLEAN]
  /\ call \in {"new", "elapse", "kick", "write_failed", "step"}

\* The temperature the fan must cover: the deadband lets the curve lag by that
\* much, never by more, whatever the sequence of small moves was.
RequiredDuty ==
  IF decision.panic THEN 100
  ELSE IF decision.smoothed = None THEN FloorPct
  ELSE CurveDuty(decision.smoothed - DeadbandC)

\* The fan always covers the temperature last acted on: a chain of moves each
\* smaller than the deadband, a slow descent or the end of a kick never leaves
\* it below the curve, and a lost CPU sensor means full speed whatever came
\* before (controller.rs 129-167).
DutyCoversTemperature == appliedPct >= RequiredDuty

\* What makes it inductive: the duty covers the curve as last read, and the
\* curve was last read at a temperature within the deadband of the current one,
\* or is pinned by the panic.
CurveIsRecent ==
  /\ appliedPct >= curvePct
  /\ decision.panic <=> sensorFailures = PanicAfter
  /\ decision.panic => curvePct = 100
  /\ appliedTemp = None => curvePct = FloorPct /\ ema = None
  /\ appliedTemp # None => curvePct >= CurveDuty(appliedTemp)
  /\ decision.smoothed = None => ema = None
  /\ decision.smoothed # None =>
       /\ appliedTemp # None
       /\ \/ Distance(decision.smoothed, appliedTemp) < DeadbandC
          \/ decision.smoothed = appliedTemp
  /\ ~decision.panic => decision.smoothed = ema

\* After every step the controller believes the device holds the byte it just
\* decided, told its caller to write it unless an earlier write of the same
\* byte is recent enough, and holds a kick that is still running
\* (controller.rs 142-190).
StepIsAccounted ==
  call = "step" =>
    /\ lastWritten = PctToPwm(appliedPct) /\ decision.pwm = lastWritten
    /\ sinceWrite < Reassert
    /\ kickLeft > 0 => appliedPct >= StartPct

\* The byte believed to be on the device is always the applied duty's, or
\* nothing is believed and the next step must write (controller.rs 92-94, 177).
BelievedIsApplied == lastWritten # None => lastWritten = PctToPwm(appliedPct)

\* The inductive invariant: types; the curve is recent and covered; the byte believed
\* in is the applied duty's (controller.rs 91-190).
IInv == TypeOK /\ CurveIsRecent /\ BelievedIsApplied

\* The control law implements the governor it is documented to be.
Governor == INSTANCE DutyGovernor WITH
              Readings <- Temps \cup {PANIC_TEMP_C}, Cover <- CurveDuty,
              acted <- decision.smoothed, lost <- decision.panic,
              duty <- appliedPct, hold <- sinceIncrease, gap <- sinceStep
ImplementsGovernor == Governor!GSpec

\* Spin-down delay, slew limit and kick never hold the duty up for good: once
\* the curve stops moving and nobody kicks, the duty settles on the curve
\* (controller.rs 152-167).
CalmStep == curvePct' = curvePct /\ call' # "kick"
SettlesOnCurve ==
  (<>[][CalmStep]_controllerVars) => <>[](appliedPct = curvePct)
=============================================================================
