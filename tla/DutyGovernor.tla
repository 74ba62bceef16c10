---------------------------- MODULE DutyGovernor ----------------------------
(***************************************************************************)
(* What fanctl promises about the duty it applies, with no word on how it  *)
(* is computed (src/fanctl/README.md, "The control law" and "Fail-safes"): *)
(* the duty always covers the temperature it acts on, it comes down only   *)
(* slowly and only once the last thermal rise is old enough, and without   *)
(* a CPU sensor it is full speed.                                          *)
(***************************************************************************)
EXTENDS Integers

CONSTANTS
  None,
  Readings,       \* the temperatures that can be acted on
  Cover(_),       \* the least duty that covers a temperature
  FloorPct, StartPct, DeadbandC, SpindownDelay, MaxDecrease,
  Delays, MaxGap

VARIABLES
  acted,   \* the temperature acted on, or None before the first reading
  lost,    \* the CPU sensor is considered lost
  duty,    \* duty applied
  hold,    \* seconds since the last thermal rise, at most SpindownDelay
  gap      \* seconds since the last decision, None before the first

governorVars == <<acted, lost, duty, hold, gap>>

GInit == /\ acted = None
         /\ lost = FALSE
         /\ duty = FloorPct
         /\ hold = SpindownDelay
         /\ gap = None

\* The least duty allowed: the curve is trusted to within the deadband.
Required(temp, panic) ==
  IF panic THEN 100
  ELSE IF temp = None THEN FloorPct
  ELSE Cover(temp - DeadbandC)

\* A rise counts as thermal unless a kick asked for exactly this duty.
Rise ==
  /\ duty' > duty
  /\ hold' = 0 \/ (duty' = StartPct /\ hold' = hold)

Stay == duty' = duty /\ hold' = hold

Fall ==
  /\ duty' < duty
  /\ hold = SpindownDelay
  /\ gap # None /\ duty - duty' <= MaxDecrease * gap
  /\ hold' = hold

Decide ==
  /\ acted' \in Readings \cup {None}
  /\ lost' \in BOOLEAN
  /\ acted' = None => acted = None
  /\ duty' \in Required(acted', lost')..100
  /\ Rise \/ Stay \/ Fall
  /\ gap' = 0

Pass(d) ==
  /\ gap # None => gap + d <= MaxGap
  /\ gap' = IF gap = None THEN None ELSE gap + d
  /\ hold' = IF hold + d <= SpindownDelay THEN hold + d ELSE SpindownDelay
  /\ UNCHANGED <<acted, lost, duty>>

GNext == Decide \/ \E d \in Delays : Pass(d)

GSpec == GInit /\ [][GNext]_governorVars
=============================================================================
