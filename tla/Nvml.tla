-------------------------------- MODULE Nvml --------------------------------
(***************************************************************************)
(* The two readers of the GPU: NvmlSession of fanwatch (src/src/fanwatch/  *)
(* gpu.py) and NvmlGpu of fanctl (src/fanctl/src/sensors.rs).  Both keep   *)
(* NVML open from one reading to the next and open it again after a        *)
(* failure.                                                                *)
(*                                                                         *)
(* NVML and the driver are external.  The library counts nvmlInit against  *)
(* nvmlShutdown and talks to the driver the first of them found; when the  *)
(* driver restarts, everything obtained before is stale and every call     *)
(* through it fails.  A call may also fail for no lasting reason; an       *)
(* nvmlShutdown that fails leaves the library as it was.                   *)
(***************************************************************************)
EXTENDS Naturals

CONSTANT MaxRefused   \* bound: nvmlShutdown calls that fail

ASSUME NvmlAssumption == MaxRefused \in Nat

VARIABLES
  up,           \* the driver is loaded
  \* NVML in the fanwatch process
  inits,        \* nvmlInit calls not yet shut down
  library,      \* "closed", "live" or "stale"
  \* NvmlSession
  initialised,
  handle,       \* _handle: "none", "live" or "stale"
  at,           \* where read stands: "idle", "init", "handle", "temp" or "done";
                \* "left" once the session has ended
  gpu,          \* what it returned: "none", "partial" (no temperature) or "whole"
  \* NvmlGpu
  nvml,         \* "none", "live" or "stale"
  asking,       \* temp_c is between its two steps
  reading,      \* what it returned: "none" or "whole"
  \* history
  refused,      \* nvmlShutdown calls of the session that have failed
  \* ... readings begun since the driver last failed in any way, up to 2
  quiet,        \* ... by NvmlSession
  quietGpu      \* ... by NvmlGpu

session == <<inits, refused, library, initialised, handle, at, gpu>>
nvmlGpu == <<nvml, asking, reading>>
nvmlVars == <<up, session, nvmlGpu, quiet, quietGpu>>

NvmlInit ==
  /\ up \in BOOLEAN
  /\ inits = 0 /\ refused = 0 /\ library = "closed" /\ initialised = FALSE /\ handle = "none"
  /\ at = "idle" /\ gpu = "none"
  /\ nvml = "none" /\ asking = FALSE /\ reading = "none"
  /\ quiet = 0 /\ quietGpu = 0

Older(thing) == IF thing = "live" THEN "stale" ELSE thing
OneMore(count) == IF up /\ count < 2 THEN count + 1 ELSE count

Disturbed == quiet' = 0 /\ quietGpu' = 0

\* The driver is unloaded, or loaded again.
DriverChanges ==
  /\ up' = ~up
  /\ library' = Older(library) /\ handle' = Older(handle) /\ nvml' = Older(nvml)
  /\ Disturbed
  /\ UNCHANGED <<inits, refused, initialised, at, gpu, asking, reading>>

\* A call fails although nothing is wrong with what it goes through, or because
\* something is.
FailsThrough(thing) ==
  IF up /\ thing = "live" THEN Disturbed ELSE UNCHANGED <<quiet, quietGpu>>

-----------------------------------------------------------------------------
\* NvmlSession.

\* nvmlShutdown takes one nvmlInit back, and the last one closes the library ...
ShutDown ==
  /\ inits' = inits - 1
  /\ library' = IF inits' = 0 THEN "closed" ELSE library
  /\ UNCHANGED refused

\* ... or it fails, which close does not tell.
ShutdownRefused ==
  /\ refused < MaxRefused
  /\ refused' = refused + 1
  /\ UNCHANGED <<inits, library>>

\* Mutant: only a session that got as far as a handle is shut down.
CloseIfHandle ==
  /\ handle' = "none"
  /\ initialised' = FALSE
  /\ IF handle # "none" THEN ShutDown \/ ShutdownRefused
     ELSE UNCHANGED <<inits, refused, library>>

Close ==
  /\ handle' = "none"
  /\ initialised' = FALSE
  /\ IF initialised THEN ShutDown \/ ShutdownRefused
     ELSE UNCHANGED <<inits, refused, library>>

BeginRead ==
  /\ at = "idle"
  /\ at' = IF handle = "none" THEN "init" ELSE "temp"
  /\ quiet' = OneMore(quiet)
  /\ UNCHANGED <<up, inits, refused, library, initialised, handle, gpu, nvmlGpu, quietGpu>>

InitLibrary ==
  /\ at = "init"
  /\ up \/ inits > 0
  /\ inits' = inits + 1
  /\ library' = IF inits = 0 THEN "live" ELSE library
  /\ initialised' = TRUE
  /\ at' = "handle"
  /\ UNCHANGED <<up, refused, handle, gpu, nvmlGpu, quiet, quietGpu>>

GetHandle ==
  /\ at = "handle"
  /\ up /\ library = "live"
  /\ handle' = "live"
  /\ at' = "temp"
  /\ UNCHANGED <<up, inits, refused, library, initialised, gpu, nvmlGpu, quiet, quietGpu>>

\* _open fails at either call.
OpenFails ==
  /\ at \in {"init", "handle"}
  /\ FailsThrough(IF at = "init" THEN "live" ELSE library)
  /\ Close
  /\ gpu' = "none" /\ at' = "done"
  /\ UNCHANGED <<up, nvmlGpu>>

ReadWhole ==
  /\ at = "temp"
  /\ up /\ handle = "live"
  /\ gpu' = "whole" /\ at' = "done"
  /\ UNCHANGED <<up, inits, refused, library, initialised, handle, nvmlGpu, quiet, quietGpu>>

\* Mutant: a reading without a temperature leaves the session open.
StaysOpen == UNCHANGED <<inits, refused, library, initialised, handle>>

CloseAsStale == Close

\* No temperature, or an exception on the way.
ReadFails ==
  /\ at = "temp"
  /\ FailsThrough(handle)
  /\ CloseAsStale
  /\ gpu' \in {"partial", "none"} /\ at' = "done"
  /\ UNCHANGED <<up, nvmlGpu>>

\* The caller has its reading; it reads again, or leaves the session.
Returned ==
  /\ at = "done"
  /\ at' = "idle"
  /\ UNCHANGED <<up, inits, refused, library, initialised, handle, gpu, nvmlGpu, quiet, quietGpu>>

Leave ==
  /\ at = "idle"
  /\ Close
  /\ at' = "left"
  /\ UNCHANGED <<up, gpu, nvmlGpu, quiet, quietGpu>>

Session == BeginRead \/ InitLibrary \/ GetHandle \/ OpenFails \/ ReadWhole \/ ReadFails
        \/ Returned \/ Leave

-----------------------------------------------------------------------------
\* NvmlGpu::temp_c: open if need be, then ask.

OpenNvml ==
  /\ ~asking
  /\ \/ nvml # "none" /\ UNCHANGED nvml /\ UNCHANGED quiet /\ quietGpu' = OneMore(quietGpu)
     \/ nvml = "none" /\ up /\ nvml' = "live" /\ UNCHANGED quiet
        /\ quietGpu' = OneMore(quietGpu)
     \/ nvml = "none" /\ UNCHANGED nvml /\ FailsThrough("live")
  /\ asking' = TRUE
  /\ UNCHANGED <<up, session, reading>>

\* Mutant: the session outlives a failure.
KeptAfter(answer) == nvml

NvmlAfter(answer) == IF answer = "none" THEN "none" ELSE nvml

AskNvml ==
  /\ asking
  /\ \/ up /\ nvml = "live" /\ reading' = "whole" /\ UNCHANGED <<quiet, quietGpu>>
     \/ reading' = "none" /\ FailsThrough(nvml)
  /\ nvml' = NvmlAfter(reading')
  /\ asking' = FALSE
  /\ UNCHANGED <<up, session>>

-----------------------------------------------------------------------------
NvmlNext == DriverChanges \/ Session \/ OpenNvml \/ AskNvml

NvmlSpec == NvmlInit /\ [][NvmlNext]_nvmlVars

-----------------------------------------------------------------------------
\* Every nvmlInit is followed by one nvmlShutdown: the only references to the library
\* are the one of an open session and those the library would not give back.  Between
\* readings a session without a handle has none, and one that was left has none
\* (gpu.py 83-120).
SessionIsAccounted ==
  /\ inits = IF initialised THEN refused + 1 ELSE refused
  /\ at \in {"idle", "done"} => (initialised <=> handle # "none")
  /\ at = "left" => ~initialised

\* A restart of the driver costs each program at most one reading: the second that
\* is taken from a driver that works is whole.  Only fanwatch can lose more, and only
\* if an nvmlShutdown failed before the restart: the reference it left keeps the stale
\* library (gpu.py 70, 112-120; sensors.rs 90-91).
OneReadingLost ==
  /\ at = "done" /\ quiet = 2 => gpu = "whole" \/ (refused > 0 /\ library = "stale")
  /\ ~asking /\ quietGpu = 2 => reading = "whole"
=============================================================================
