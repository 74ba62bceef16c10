------------------------------- MODULE Stress -------------------------------
(***************************************************************************)
(* fanstress, src/src/fanwatch/stress.py: phases of load under a guard     *)
(* that reads the sensors once a second, with Ctrl-C at any moment.        *)
(*                                                                         *)
(* pc is the statement of run; todo the calls on the loads still to be     *)
(* made before it goes on.  An exception throws todo away and puts the     *)
(* finally block's calls in its place.                                     *)
(***************************************************************************)
EXTENDS Loads, Sequences

CONSTANTS
  Plan,         \* --phases
  CpuReadings,  \* what a sample can find: "ok", "hot" or "gone"
  GpuReadings,
  Counters,     \* the throttle counter: "still", "moved", "gone" or "unreadable"
  MaxInterrupts \* bound of the model: how often Ctrl-C is pressed

ASSUME StressAssumption ==
  /\ Plan \in Seq({"idle", "cpu", "gpu", "both", "recovery"})
  /\ CpuReadings \subseteq {"ok", "hot", "gone"}
  /\ GpuReadings \subseteq {"ok", "hot", "gone"}
  /\ Counters \subseteq {"still", "moved", "gone", "unreadable"}
  /\ MaxInterrupts \in Nat

VARIABLES
  pc,          \* "preflight", "phase", "open", "calibrate", "sample", "print",
               \* "next", "unwind", "finally", "report", "ended"
  todo,        \* calls to make first
  n,           \* index of the phase
  active,      \* loads of the phase: subset of {"cpu", "gpu"}
  gpu,         \* run's local gpu is not None
  gpuMissing,  \* gpu_missing is set
  guarded,     \* throttle_baseline is not None
  sample,      \* the last sample
  aborted,     \* "none", "limit", "load" or "interrupted"
  raised,      \* an exception that run does not catch is under way
  status,      \* "success", "failure" or "none" yet
  interrupts,  \* Ctrl-C presses left
  limitHit     \* history: the guard stopped the run

controlVars == <<pc, n, active, gpu, gpuMissing, guarded, sample, aborted, raised,
                 status, interrupts, limitHit>>
stressVars == <<loadVars, controlVars, todo>>

Samples == [cpu : CpuReadings, gpu : GpuReadings, counter : Counters]

StressInit ==
  /\ LoadsInit
  /\ pc = "preflight" /\ todo = <<>> /\ n = 1
  /\ active = {} /\ gpu = FALSE /\ gpuMissing = FALSE
  /\ guarded \in BOOLEAN
  /\ sample \in [cpu : CpuReadings, gpu : GpuReadings, counter : {"still"}]
  /\ aborted = "none" /\ raised = FALSE /\ status = "none"
  /\ interrupts = MaxInterrupts
  /\ limitHit = FALSE

InPhase == n <= Len(Plan)
LoadsCpu == InPhase /\ Plan[n] \in {"cpu", "both"}
LoadsGpu == InPhase /\ Plan[n] \in {"gpu", "both"}

\* guard.  A counter whose files cannot be read is reported as 0 (probe.py
\* 280), which has not moved.
Tripped(s, gpuLoaded) ==
  \/ s.cpu # "ok"
  \/ s.gpu = "hot" \/ (s.gpu = "gone" /\ gpuLoaded)
  \/ guarded /\ s.counter \in {"gone", "moved"}

LoadFailed ==
  \/ "cpu" \in active /\ CpuFailed
  \/ "gpu" \in active /\ gpuError

-----------------------------------------------------------------------------
\* The calls on the loads.

StopCpu == <<"set cpu", "join cpu">>
StopGpu == <<"set gpu", "join gpu">>
Stops(loads) == (IF "cpu" \in loads THEN StopCpu ELSE <<>>)
             \o (IF "gpu" \in loads THEN StopGpu ELSE <<>>)

\* Mutant: the context stays open for the next phase that wants it.
KeepContext == <<>>

Release == IF gpu THEN StopGpu \o <<"free", "clear">> ELSE <<>>

\* for load in active: load.stop(), then active = [].
StopActive == Stops(active) \o <<"forget">>

\* Mutant: the finally block only releases.
ReleaseOnly == Release

Cleanup == Stops(active) \o Release

Spawns == [i \in 1..(2 * WorkerCount) |-> IF i % 2 = 1 THEN "fork" ELSE "append"]
Starts(loads) == (IF "cpu" \in loads THEN StopCpu \o <<"unset cpu">> \o Spawns ELSE <<>>)
              \o (IF "gpu" \in loads THEN <<"start gpu">> ELSE <<>>)

Called(call) == todo # <<>> /\ Head(todo) = call

\* One call, or the part of a call up to the next moment of interest.
Call ==
  /\ \/ Called("set cpu") /\ SetCpuStop
     \/ Called("join cpu") /\ ForgetWorkers
     \/ Called("unset cpu") /\ ClearCpuStop
     \/ Called("fork") /\ ForkWorker
     \/ Called("append") /\ AppendWorker
     \/ Called("start gpu") /\ StartThread
     \/ Called("set gpu") /\ SetGpuStop
     \/ Called("join gpu") /\ JoinThread
     \/ Called("free") /\ FreeObjects
     \/ Called("clear") /\ ClearHandles
  /\ todo' = Tail(todo)
  /\ UNCHANGED controlVars

Joining == Called("join cpu") /\ JoinWorker /\ UNCHANGED <<controlVars, todo>>

Forget ==
  /\ Called("forget")
  /\ active' = {}
  /\ todo' = Tail(todo)
  /\ UNCHANGED <<loadVars, pc, n, gpu, gpuMissing, guarded, sample, aborted, raised,
                 status, interrupts, limitHit>>

-----------------------------------------------------------------------------
\* run, statement by statement.
At(label) == pc = label /\ todo = <<>>

Ends(code) == /\ pc' = "ended" /\ todo' = <<>>
              /\ status' = code
              /\ ProcessEnds

\* The first sample decides whether to start at all.
Preflight ==
  /\ At("preflight")
  /\ IF Tripped(sample, FALSE)
     THEN Ends("failure")
     ELSE pc' = "phase" /\ UNCHANGED <<loadVars, todo, status>>
  /\ UNCHANGED <<n, active, gpu, gpuMissing, guarded, sample, aborted, raised,
                 interrupts, limitHit>>

\* A phase that needs a GPU load nobody has is skipped.
SkipPhase ==
  /\ At("phase") /\ LoadsGpu /\ gpuMissing
  /\ n' = n + 1
  /\ UNCHANGED <<loadVars, pc, todo, active, gpu, gpuMissing, guarded, sample, aborted,
                 raised, status, interrupts, limitHit>>

\* Every other phase begins with a sample and no load.
EnterPhase ==
  /\ At("phase") /\ InPhase /\ ~(LoadsGpu /\ gpuMissing)
  /\ sample' \in Samples
  /\ ~Tripped(sample', LoadsGpu)
  /\ active' = IF LoadsCpu THEN {"cpu"} ELSE {}
  /\ pc' = IF LoadsGpu THEN "open" ELSE "sample"
  /\ todo' = IF LoadsGpu THEN <<>> ELSE Starts(active')
  /\ UNCHANGED <<loadVars, n, gpu, gpuMissing, guarded, aborted, raised, status,
                 interrupts, limitHit>>

RefusePhase ==
  /\ At("phase") /\ InPhase /\ ~(LoadsGpu /\ gpuMissing)
  /\ sample' \in Samples
  /\ Tripped(sample', LoadsGpu)
  /\ aborted' = "limit" /\ limitHit' = TRUE
  /\ pc' = "finally" /\ todo' = Cleanup
  /\ UNCHANGED <<loadVars, n, active, gpu, gpuMissing, guarded, raised, status, interrupts>>

AllPhasesDone ==
  /\ At("phase") /\ ~InPhase
  /\ pc' = "finally" /\ todo' = Cleanup
  /\ UNCHANGED <<loadVars, n, active, gpu, gpuMissing, guarded, sample, aborted, raised,
                 status, interrupts, limitHit>>

\* gpu_load runs one launch in the main thread and waits for it without a limit.
\* Ctrl-C is not heeded before the launch returns.
Calibrate ==
  /\ At("open")
  /\ pc' = "calibrate"
  /\ UNCHANGED <<loadVars, todo, n, active, gpu, gpuMissing, guarded, sample, aborted,
                 raised, status, interrupts, limitHit>>

OpenGpu ==
  /\ At("calibrate")
  /\ OpenHandles
  /\ gpu' = TRUE
  /\ active' = active \cup {"gpu"}
  /\ pc' = "sample" /\ todo' = Starts(active')
  /\ UNCHANGED <<n, gpuMissing, guarded, sample, aborted, raised, status, interrupts, limitHit>>

\* There is no library or no device, or the launch is refused.
NoGpuLoad ==
  /\ At("open") \/ At("calibrate")
  /\ gpuMissing' = TRUE
  /\ n' = n + 1
  /\ pc' = "phase"
  /\ UNCHANGED <<loadVars, todo, active, gpu, guarded, sample, aborted, raised, status,
                 interrupts, limitHit>>

\* Mutant: stopping is left to the end of the phase.
StopAfterPrinting == <<>>

StopBeforePrinting == StopActive

\* Decide, and stop before anything that could block on output.
TakeSample ==
  /\ At("sample")
  /\ sample' \in Samples
  /\ LET hit == Tripped(sample', LoadsGpu)
     IN  /\ limitHit' = (limitHit \/ hit)
         /\ aborted' = IF hit THEN "limit" ELSE IF LoadFailed THEN "load" ELSE "none"
  /\ todo' = IF aborted' = "none" THEN <<>> ELSE StopBeforePrinting
  /\ pc' = "print"
  /\ UNCHANGED <<loadVars, n, active, gpu, gpuMissing, guarded, raised, status, interrupts>>

EndPhase ==
  /\ pc' = "next"
  /\ todo' = StopActive \o Release
  /\ UNCHANGED <<loadVars, n, active, gpu, gpuMissing, guarded, sample, aborted, raised,
                 status, interrupts, limitHit>>

\* The live line is written; then the loop goes on, or breaks.
PrintAndBreak == At("print") /\ aborted # "none" /\ EndPhase

PrintAndSleep ==
  /\ At("print") /\ aborted = "none"
  /\ pc' = "sample"
  /\ UNCHANGED <<loadVars, todo, n, active, gpu, gpuMissing, guarded, sample, aborted,
                 raised, status, interrupts, limitHit>>

PhaseOver == At("sample") /\ EndPhase

NextPhase ==
  /\ At("next")
  /\ gpu' = FALSE
  /\ IF aborted # "none"
     THEN pc' = "finally" /\ todo' = Stops(active) /\ UNCHANGED n
     ELSE pc' = "phase" /\ n' = n + 1 /\ UNCHANGED todo
  /\ UNCHANGED <<loadVars, active, gpuMissing, guarded, sample, aborted, raised, status,
                 interrupts, limitHit>>

EndFinally ==
  /\ At("finally")
  /\ IF raised THEN Ends("failure")
     ELSE pc' = "report" /\ UNCHANGED <<loadVars, todo, status>>
  /\ UNCHANGED <<n, active, gpu, gpuMissing, guarded, sample, aborted, raised,
                 interrupts, limitHit>>

\* Mutant: only a limit counts as a failure.
StatusOfLimit == IF aborted = "limit" THEN "failure" ELSE "success"

ExitStatus == IF aborted \notin {"none", "interrupted"} THEN "failure" ELSE "success"

Report ==
  /\ At("report")
  /\ Ends(ExitStatus)
  /\ UNCHANGED <<n, active, gpu, gpuMissing, guarded, sample, aborted, raised,
                 interrupts, limitHit>>

-----------------------------------------------------------------------------
\* Exceptions.

InTry == pc \in {"phase", "open", "sample", "print", "next", "unwind"}

\* Inside the try block of CpuLoad.start, which stops the workers it has started
\* before the exception goes on.
Starting == Called("fork") \/ Called("append")

Unwind ==
  /\ At("unwind")
  /\ pc' = "finally" /\ todo' = Cleanup
  /\ UNCHANGED <<loadVars, n, active, gpu, gpuMissing, guarded, sample, aborted, raised,
                 status, interrupts, limitHit>>

\* A process cannot be forked.
ForkFails ==
  /\ Called("fork")
  /\ raised' = TRUE
  /\ pc' = "unwind" /\ todo' = StopCpu
  /\ UNCHANGED <<loadVars, n, active, gpu, gpuMissing, guarded, sample, aborted, status,
                 interrupts, limitHit>>

Pressed == interrupts > 0 /\ interrupts' = interrupts - 1

\* Ctrl-C inside the try block of run ends the phases, and takes the place of any
\* exception that was on its way.
Interrupt ==
  /\ InTry /\ Pressed
  /\ aborted' = "interrupted" /\ raised' = FALSE
  /\ IF Starting THEN pc' = "unwind" /\ todo' = StopCpu
                 ELSE pc' = "finally" /\ todo' = Cleanup
  /\ UNCHANGED <<loadVars, n, active, gpu, gpuMissing, guarded, sample, status, limitHit>>

\* ... and anywhere else the process.
InterruptOutside ==
  /\ pc \in {"preflight", "finally", "report"} /\ Pressed
  /\ Ends("failure")
  /\ UNCHANGED <<n, active, gpu, gpuMissing, guarded, sample, aborted, raised, limitHit>>

-----------------------------------------------------------------------------
Main ==
  \/ Call \/ Joining \/ Forget
  \/ Preflight \/ SkipPhase \/ EnterPhase \/ RefusePhase \/ AllPhasesDone
  \/ Calibrate \/ (pc = "open" /\ NoGpuLoad)
  \/ TakeSample \/ PrintAndBreak \/ PrintAndSleep \/ PhaseOver \/ NextPhase
  \/ Unwind \/ EndFinally \/ Report

\* The launch of gpu_load returns, which is not for the main thread to say.
Calibrated == pc = "calibrate" /\ (OpenGpu \/ NoGpuLoad)

GpuThread == (Launch \/ LaunchReturns \/ StrayEnds) /\ UNCHANGED <<controlVars, todo>>
CpuWorker == WorkerEnds /\ UNCHANGED <<controlVars, todo>>

StressNext == \/ Main \/ Calibrated \/ GpuThread \/ CpuWorker
              \/ ForkFails \/ Interrupt \/ InterruptOutside

StressSpec == StressInit /\ [][StressNext]_stressVars

\* The main thread runs and its output drains, the thread looks at its Event, and the
\* clock reaches the end of a phase.  Workers owe nothing, not even to heed the flag,
\* and no launch need return: neither one of the thread (LaunchReturns, StrayEnds) nor
\* the one that gpu_load waits for (Calibrated).
StressFairness ==
  /\ WF_stressVars(Main) /\ WF_stressVars(Launch /\ UNCHANGED <<controlVars, todo>>)
  /\ SF_stressVars(PhaseOver)
FairStressSpec == StressSpec /\ StressFairness

-----------------------------------------------------------------------------
\* What must stop the load: a limit reached, or a reading it relies on missing
\* (docs/fanwatch.md 155-159).
Alarm(s) ==
  \/ s.cpu # "ok"
  \/ s.gpu = "hot" \/ (s.gpu = "gone" /\ LoadsGpu)
  \/ guarded /\ s.counter # "still"

\* Nothing on the GPU, or a launch that has outlasted the ten seconds it was given
\* and that no other will follow.
GpuAtRest == GpuWorking => overran /\ gpuStop

\* No load is left when the line of a sample that must stop it is written, or of one that
\* found a load dead, which may block for ever.  The exception is a GPU launch that has
\* outlasted its join: nothing can call it back (stress.py 444-452, load.py 249-256).
AlarmStopsLoad ==
  At("print") /\ (Alarm(sample) \/ aborted = "load") => ~CpuWorking /\ GpuAtRest

\* A phase runs under its own loads only: the workers, the thread and the open
\* OpenCL context of an earlier phase are gone, but for a launch that would not
\* return (stress.py 406-408, 456-461).
QuietPhase ==
  pc \in {"sample", "print"} =>
    /\ CpuWorking => LoadsCpu
    /\ held => LoadsGpu
    /\ GpuWorking => LoadsGpu \/ GpuAtRest
    /\ stray => overran

\* OpenCL objects are not freed under a thread that uses them, however the stop,
\* an interrupted stop and the release are interleaved; if a launch outlasts its
\* joins, they are, but no further launch is made with them.  They are freed once, and
\* once more at most for each press of Ctrl-C, which can come between the release and
\* the clearing of the attribute (load.py 231-272).
FreedWhenIdle ==
  /\ frees > 0 => GpuAtRest
  /\ frees <= 1 + (MaxInterrupts - interrupts)

\* By the time the report is written every load has been told to stop and every
\* tracked one is gone, whatever ended the run (stress.py 464-470).
ReportAfterLoad ==
  pc = "report" =>
    /\ tracked = {} /\ ~held
    /\ CpuWorking => cpuStop
    /\ thread # "none" => overran /\ gpuStop

\* Unless it was interrupted, success means that the run came to the end of its plan, each
\* phase run to its time or skipped for want of a GPU load, and that the guard never
\* stopped it.  A load that dies after the last sample of a phase goes unnoticed (stress.py
\* 440-461, 482).
SuccessIsComplete ==
  status = "success" /\ aborted # "interrupted" => ~InPhase /\ ~limitHit

\* Every run ends, even if no worker ever heeds its flag and no launch of the thread
\* ever returns, unless it waits for ever in gpu_load: that launch is the one wait of
\* the program without a limit (load.py 53-60, 208-210, 247-252; stress.py 426).
RunEnds == <>(pc = "ended") \/ <>[](pc = "calibrate")
=============================================================================
