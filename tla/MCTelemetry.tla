---- MODULE MCTelemetry ----
(* Small instances of the state file and of the GPU sessions for TLC.  The two *)
(* share no variable, so a behaviour is one of the one or one of the other.    *)
EXTENDS Telemetry, Nvml, TLC

VARIABLE about   \* "file" or "gpu"

MCSymmetry == Permutations(Inodes)

MCInit == TelemetryInit /\ NvmlInit /\ about \in {"file", "gpu"}

MCNext ==
  /\ \/ about = "file" /\ TelemetryNext /\ UNCHANGED nvmlVars
     \/ about = "gpu" /\ NvmlNext /\ UNCHANGED telemetryVars
  /\ UNCHANGED about

MCSpec == MCInit /\ [][MCNext]_<<telemetryVars, nvmlVars, about>>
====
