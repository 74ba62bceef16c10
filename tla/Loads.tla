-------------------------------- MODULE Loads --------------------------------
(***************************************************************************)
(* The two synthetic loads of fanstress, src/src/fanwatch/load.py: worker  *)
(* processes under a shared stop flag, and a thread that runs an OpenCL    *)
(* kernel over and over.                                                   *)
(*                                                                         *)
(* One action per statement that another process, the thread or Ctrl-C can *)
(* come between.  The five OpenCL objects are made and freed together, so  *)
(* one of them stands for all.  A launch takes a twentieth of a second and *)
(* the thread is given ten to end; one that the driver keeps for longer    *)
(* outlasts its join, its load and the phase.                              *)
(***************************************************************************)
EXTENDS Naturals, FiniteSets

CONSTANT WorkerCount   \* --workers

ASSUME WorkerAssumption == WorkerCount \in Nat \ {0}

VARIABLES
  \* CpuLoad
  cpuStop,    \* the shared Event
  alive,      \* workers that run
  tracked,    \* CpuLoad._procs
  \* OpenClLoad
  thread,     \* "none", "loop" (between launches), "launch", "ended"
  gpuStop,    \* its Event
  gpuError,   \* _error is set
  held,       \* the OpenCL handles are not None
  frees,      \* how often the objects behind them were released
  \* an earlier OpenClLoad, given up
  stray,      \* its last launch has not returned
  overran     \* history: a launch has outlasted a join

cpuVars == <<cpuStop, alive, tracked>>
threadVars == <<thread, gpuStop, gpuError>>
handleVars == <<held, frees>>
strayVars == <<stray, overran>>
gpuVars == <<threadVars, handleVars, strayVars>>
loadVars == <<cpuVars, gpuVars>>

Workers == 1..WorkerCount

LoadsInit ==
  /\ cpuStop = FALSE /\ alive = {} /\ tracked = {}
  /\ thread = "none" /\ gpuStop = FALSE /\ gpuError = FALSE
  /\ held = FALSE /\ frees = 0
  /\ stray = FALSE /\ overran = FALSE

CpuWorking == alive # {}
GpuWorking == thread \in {"loop", "launch"}
NoLoad == ~CpuWorking /\ ~GpuWorking

-----------------------------------------------------------------------------
\* CpuLoad.

\* A worker heeds the flag, or dies on its own (_spin).
WorkerEnds ==
  /\ \E w \in alive : alive' = alive \ {w}
  /\ UNCHANGED <<cpuStop, tracked, gpuVars>>

SetCpuStop   == cpuStop' = TRUE /\ UNCHANGED <<alive, tracked, gpuVars>>
ClearCpuStop == cpuStop' = FALSE /\ UNCHANGED <<alive, tracked, gpuVars>>

\* The next worker, which is not in _procs before it was appended.
NextWorker == Cardinality(tracked) + 1

ForkWorker ==
  /\ alive' = alive \cup {NextWorker}
  /\ UNCHANGED <<cpuStop, tracked, gpuVars>>

AppendWorker ==
  /\ tracked' = tracked \cup {NextWorker}
  /\ UNCHANGED <<cpuStop, alive, gpuVars>>

\* join(timeout=5), and kill if that was not enough: either way it is gone.
JoinWorker ==
  /\ \E w \in tracked \cap alive : alive' = alive \ {w}
  /\ UNCHANGED <<cpuStop, tracked, gpuVars>>

ForgetWorkers ==
  /\ tracked \cap alive = {}
  /\ tracked' = {}
  /\ UNCHANGED <<cpuStop, alive, gpuVars>>

CpuFailed == tracked \ alive # {}

-----------------------------------------------------------------------------
\* OpenClLoad.

\* A new object: _setup went through, calibration launch and all.
OpenHandles ==
  /\ held' = TRUE /\ frees' = 0
  /\ thread' = "none" /\ gpuStop' = FALSE /\ gpuError' = FALSE
  /\ stray' = (stray \/ GpuWorking)
  /\ UNCHANGED <<cpuVars, overran>>

StartThread ==
  /\ gpuStop' = FALSE /\ gpuError' = FALSE
  /\ thread' = "loop"
  /\ UNCHANGED <<cpuVars, handleVars, strayVars>>

\* Mutant: the loop does not look at its Event.
LaunchAnyway ==
  /\ thread = "loop"
  /\ thread' = "launch"
  /\ UNCHANGED <<cpuVars, gpuStop, gpuError, handleVars, strayVars>>

\* _loop.
Launch ==
  /\ thread = "loop"
  /\ thread' = IF gpuStop THEN "ended" ELSE "launch"
  /\ UNCHANGED <<cpuVars, gpuStop, gpuError, handleVars, strayVars>>

\* clFinish returned, or a call was refused.
LaunchReturns ==
  /\ thread = "launch"
  /\ \/ thread' = "loop" /\ UNCHANGED gpuError
     \/ thread' = "ended" /\ gpuError' = TRUE
  /\ UNCHANGED <<cpuVars, gpuStop, handleVars, strayVars>>

\* ... of a load that is no longer there; its loop ends at its own Event.
StrayEnds == stray /\ stray' = FALSE /\ UNCHANGED <<cpuVars, threadVars, handleVars, overran>>

SetGpuStop ==
  gpuStop' = TRUE /\ UNCHANGED <<cpuVars, thread, gpuError, handleVars, strayVars>>

\* Mutant: the thread is not waited for.
JoinNothing == UNCHANGED loadVars

\* join(timeout=10).
JoinThread ==
  /\ \/ ~GpuWorking /\ thread' = "none" /\ UNCHANGED overran
     \/ thread = "launch" /\ overran' = TRUE /\ UNCHANGED thread
  /\ UNCHANGED <<cpuVars, gpuStop, gpuError, handleVars, stray>>

\* release: the clRelease call, and then the attribute.
FreeObjects ==
  /\ frees' = IF held THEN frees + 1 ELSE frees
  /\ UNCHANGED <<cpuVars, threadVars, held, strayVars>>

ClearHandles == held' = FALSE /\ UNCHANGED <<cpuVars, threadVars, frees, strayVars>>

-----------------------------------------------------------------------------
\* The interpreter is gone: daemon threads and processes go with it.
ProcessEnds ==
  /\ alive' = {} /\ thread' = "none" /\ stray' = FALSE
  /\ UNCHANGED <<cpuStop, tracked, gpuStop, gpuError, handleVars, overran>>

=============================================================================
