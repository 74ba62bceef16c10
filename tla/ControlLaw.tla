----------------------------- MODULE ControlLaw -----------------------------
(***************************************************************************)
(* The tunables of fanctl (src/fanctl/src/config.rs) and the pure          *)
(* functions of its control law (src/fanctl/src/controller.rs).            *)
(*                                                                         *)
(* Units: whole degrees, whole percent of duty, whole seconds.  The code   *)
(* computes in f64; the model keeps the order of the quantities, every     *)
(* comparison and every clamp, and rounds an interpolated duty down to a   *)
(* whole percent.                                                          *)
(***************************************************************************)
EXTENDS Integers, Sequences, FiniteSets

CONSTANTS
  None,           \* Option::None, for readings, bytes and temperatures
  Temps,          \* the temperatures a sensor can report and the average can take
  Curve,          \* the points [temp, duty], by rising temperature
  FloorPct,       \* lowest duty ever commanded
  StartPct,       \* duty of the start kick
  StartSeconds,   \* length of the start kick
  DeadbandC,      \* the curve is read again after a move this large
  SpindownDelay,  \* seconds without a decrease after a thermal increase
  MaxDecrease,    \* percent per second
  Reassert,       \* seconds after which an unchanged byte is written again
  PanicAfter      \* consecutive missing readings before full speed

PANIC_TEMP_C == 100
MIN_FLOOR_PCT == 10

ASSUME NoneAssumption == None \notin Int

ASSUME TempsAssumption == Temps \subseteq Int

\* Config::validate's demands on the curve.  The source compares neighbours;
\* over a sequence that is the same as comparing every pair.
CurveValid ==
  /\ Curve \in Seq([temp : Int, duty : 0..100])
  /\ Len(Curve) >= 2
  /\ \A i, j \in 1..Len(Curve) : i < j => /\ Curve[i].temp < Curve[j].temp
                                          /\ Curve[i].duty <= Curve[j].duty

\* ... and on the numbers the control law uses.
NumbersValid ==
  /\ FloorPct \in MIN_FLOOR_PCT..100
  /\ StartPct \in FloorPct..100
  /\ StartSeconds \in 0..30
  /\ DeadbandC \in Nat
  /\ SpindownDelay \in Nat \ {0}
  /\ MaxDecrease \in Nat \ {0}
  /\ Reassert \in Nat \ {0}
  /\ PanicAfter \in Nat \ {0}

ASSUME ConfigAssumption == CurveValid /\ NumbersValid

-----------------------------------------------------------------------------
Larger(a, b)  == IF a >= b THEN a ELSE b
Smaller(a, b) == IF a <= b THEN a ELSE b
Distance(a, b) == IF a >= b THEN a - b ELSE b - a

Duty == 0..100
Byte == 0..255

\* How many curve points lie strictly below a temperature.  The source walks
\* the windows and stops at the first whose upper end is not below it.
PointsBelow(temp) == Cardinality({i \in 1..Len(Curve) : Curve[i].temp < temp})

\* The line through two points, rounded down.
OnLine(p, q, temp) ==
  p.duty + ((q.duty - p.duty) * (temp - p.temp)) \div (q.temp - p.temp)

\* Linear interpolation over the points, clamped at both ends.
Interpolate(temp) ==
  LET i == PointsBelow(temp)
  IN  IF i = 0 THEN Curve[1].duty
      ELSE IF i = Len(Curve) THEN Curve[i].duty
      ELSE OnLine(Curve[i], Curve[i + 1], temp)

\* What the curve asks for at a temperature, never below the floor.
CurveDuty(temp) == Larger(Interpolate(temp), FloorPct)

\* Percent to the driver's byte, rounded.
PctToPwm(pct) == (pct * 255 + 50) \div 100

\* The values the moving average can take after a reading: strictly between
\* its old value and the reading in the source, here any grid value from one
\* to the other, whatever ema_seconds is.
Smoothed(ema, reading, dt) ==
  IF ema = None \/ dt = 0
  THEN {reading}
  ELSE {s \in Temps : Smaller(ema, reading) <= s /\ s <= Larger(ema, reading)}
=============================================================================
