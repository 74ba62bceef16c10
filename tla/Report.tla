------------------------------- MODULE Report -------------------------------
(***************************************************************************)
(* The report of fanstress, src/src/fanwatch/stress.py: what summarise     *)
(* makes of the samples of a run.                                          *)
(*                                                                         *)
(* The samples arrive one by one, as run takes them, and the report is     *)
(* what it would be if the run ended there.  One fan stands for all: each  *)
(* is judged on its own.  The temperatures and the power of a block are    *)
(* start, peak and end of a series, as the speeds of the fan are.          *)
(***************************************************************************)
EXTENDS Series

CONSTANTS
  Plan,           \* --phases; a phase may be named more than once
  Rpms,           \* readings of the fan's tachometer
  Duties,         \* ... and of its duty, both with None
  Waits,          \* seconds between two samples
  STALL_SAMPLES,
  MaxSamples      \* bound of the model: the length of a run

ASSUME ReportAssumption ==
  /\ None \notin Nat
  /\ Plan \in Seq({"idle", "cpu", "gpu", "both", "recovery"})
  /\ Rpms \subseteq Nat \cup {None} /\ Duties \subseteq Nat \cup {None}
  /\ Waits \subseteq Nat \ {0} /\ STALL_SAMPLES \in Nat \ {0} /\ MaxSamples \in Nat

VARIABLES
  samples,   \* so far
  current,   \* index of the phase under way, 0 before the first
  ran        \* history: the index of the phase of each sample

reportVars == <<samples, current, ran>>

ReportInit == samples = <<>> /\ current = 0 /\ ran = <<>>

\* The fan of a sample; a header that looks empty or does not answer is left out.
Readings == [rpm : Rpms, duty : Duties] \cup {None}

TakeOne(phase) ==
  \E fan \in Readings, wait \in Waits :
    samples' = Append(samples, [phase |-> Plan[phase], fan |-> fan,
                  time |-> IF samples = <<>> THEN 0 ELSE Last(samples).time + wait])

SampleAgain ==
  /\ Len(samples) < MaxSamples
  /\ current > 0
  /\ TakeOne(current)
  /\ ran' = Append(ran, current)
  /\ UNCHANGED current

\* The first sample of the next phase; a phase without a load to run is skipped.
SampleNext ==
  /\ Len(samples) < MaxSamples
  /\ \E next \in (current + 1)..Len(Plan) :
       /\ \A i \in (current + 1)..(next - 1) : Plan[i] \in {"gpu", "both"}
       /\ current' = next
  /\ TakeOne(current')
  /\ ran' = Append(ran, current')

ReportNext == SampleAgain \/ SampleNext

-----------------------------------------------------------------------------
\* Blocks.

\* Mutant: one block for each name.
FirstOfName(all, i) == \A j \in 1..(i - 1) : all[j].phase # all[i].phase

StartsBlock(all, i) == i = 1 \/ all[i - 1].phase # all[i].phase

\* Where the samples are cut, and the block from one cut to the next.
Starts(all) == {i \in DOMAIN all : StartsBlock(all, i)}
Block(all, first) ==
  LET later == {i \in Starts(all) : i > first}
  IN  SubSeq(all, first, IF later = {} THEN Len(all) ELSE Min(later) - 1)

Seconds(block) ==
  IF Len(block) < 2 THEN Len(block) ELSE Last(block).time - Head(block).time + 1

-----------------------------------------------------------------------------
\* _fan_summary.

\* A sample without the fan is like one whose readings are missing.
Present(block) == {i \in DOMAIN block : block[i].fan # None}
RpmsOf(block) == [i \in DOMAIN block |-> IF i \in Present(block) THEN block[i].fan.rpm ELSE None]
DutiesOf(block) ==
  [i \in DOMAIN block |-> IF i \in Present(block) THEN block[i].fan.duty ELSE None]

\* Ten percent and one rpm more, or two points of duty.  The code multiplies by a
\* float; no speed of the instance is exactly at the threshold.
RoseRpm(start, rpm) == start # None /\ rpm # None /\ 10 * rpm >= 11 * start + 10
RoseDuty(start, duty) == start # None /\ duty # None /\ duty >= start + 2

\* Mutant: the fan is compared with its newest reading.
ReferenceAtEnd(readings) == LastOf(readings)

Reference(readings) == FirstOf(readings)

\* Mutant: each sample is compared with the one before.
RisesOverLast(block) ==
  {i \in 2..Len(block) :
     /\ block[i].fan # None /\ block[i - 1].fan # None
     /\ \/ RoseRpm(block[i - 1].fan.rpm, block[i].fan.rpm)
        \/ RoseDuty(block[i - 1].fan.duty, block[i].fan.duty)}

Rises(block) ==
  LET rpm == Reference(RpmsOf(block))
      duty == Reference(DutiesOf(block))
  IN  {i \in Present(block) :
         RoseRpm(rpm, block[i].fan.rpm) \/ RoseDuty(duty, block[i].fan.duty)}

RespondedAfter(block) ==
  LET rises == Rises(block)
  IN  IF rises = {} THEN None ELSE block[Min(rises)].time - block[1].time

\* _stalled.
StoppedFan(block) ==
  LET after(i) == {j \in Present(block) : j > i}
      tail == {i \in Present(block) : Cardinality(after(i)) < STALL_SAMPLES}
  IN  /\ tail # {}
      /\ \A i \in tail : block[i].fan.rpm = 0 /\ block[i].fan.duty \in Nat \ {0}

Verdict(block) ==
  CASE PeakOf(RpmsOf(block)) = None /\ PeakOf(DutiesOf(block)) = None -> "unknown"
    [] StoppedFan(block) -> "stopped"
    [] ~StoppedFan(block) /\ RespondedAfter(block) # None -> "responded"
    [] OTHER -> "flat"

\* What the report says of the fan in a block, None if it was in no sample.
FanSummary(block) ==
  IF Present(block) = {} THEN None
  ELSE [rpmStart |-> Reference(RpmsOf(block)), rpmPeak |-> PeakOf(RpmsOf(block)),
        dutyStart |-> Reference(DutiesOf(block)), dutyPeak |-> PeakOf(DutiesOf(block)),
        respondedAfter |-> RespondedAfter(block), verdict |-> Verdict(block)]

Summary(block) ==
  [phase |-> block[1].phase, seconds |-> Seconds(block), fan |-> FanSummary(block)]

-----------------------------------------------------------------------------
ReportSpec == ReportInit /\ [][ReportNext]_reportVars

-----------------------------------------------------------------------------
RanTwiceInARow ==
  \E i \in 2..Len(samples) : ran[i] # ran[i - 1] /\ samples[i].phase = samples[i - 1].phase

\* "The report has one block per phase" (docs/fanwatch.md 163), of its name and as
\* long as it was, whatever phases are skipped, unless the same phase runs twice in a
\* row (stress.py 242-272).
BlocksArePhases ==
  ~RanTwiceInARow =>
    \A index \in ToSet(ran) :
      LET of == {i \in DOMAIN samples : ran[i] = index}
          summary == Summary(Block(samples, Min(of)))
      IN  /\ of \cap Starts(samples) = {Min(of)}
          /\ summary.phase = Plan[index]
          /\ summary.seconds = samples[Max(of)].time - samples[Min(of)].time + 1

\* The numbers beside a verdict bear it out: a fan responded if its peak is that far
\* above its start, within the seconds of its phase, and is flat if not; a fan that
\* ended at rest is never one of the two (stress.py 195-239).
VerdictIsBorneOut ==
  \A block \in {Block(samples, i) : i \in Starts(samples)} :
    LET fan == FanSummary(block)
        rose == RoseRpm(fan.rpmStart, fan.rpmPeak) \/ RoseDuty(fan.dutyStart, fan.dutyPeak)
        readings == {block[i].fan : i \in Present(block)}
        atEnd == block[Max(Present(block))].fan
    IN  fan # None =>
          /\ fan.respondedAfter # None <=> rose
          /\ rose => fan.respondedAfter \in 1..(Seconds(block) - 1)
          /\ fan.verdict = "responded" => rose
          /\ fan.verdict = "flat" => ~rose
          /\ fan.verdict = "unknown" <=> fan.rpmPeak = None /\ fan.dutyPeak = None
          /\ fan.verdict = "stopped" => atEnd.rpm = 0 /\ atEnd.duty \notin {0, None}
          /\ fan.rpmPeak = 0 /\ (\A r \in readings : r.rpm # None /\ r.duty \notin {0, None}) =>
               fan.verdict = "stopped"

NewestSummary(all) == FanSummary(Block(all, Max(Starts(all))))
IsKept(before, after) ==
  before # None =>
    /\ before.rpmStart # None => after.rpmStart = before.rpmStart
    /\ before.dutyStart # None => after.dutyStart = before.dutyStart
    /\ before.respondedAfter # None => after.respondedAfter = before.respondedAfter

\* A response once found stands: no later sample of the phase moves it, nor the
\* readings it is measured from (stress.py 198-216).
ResponseStands ==
  [][samples # <<>> /\ Last(samples').phase = Last(samples).phase =>
       IsKept(NewestSummary(samples), NewestSummary(samples'))]_reportVars
=============================================================================
