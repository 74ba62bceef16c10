\* Two presses of Ctrl-C: the second meets the cleanup of the first.
CONSTANTS
  WorkerCount = 2
  Plan <- MCPlan
  CpuReadings = {"ok", "hot", "gone"}
  GpuReadings = {"ok", "hot", "gone"}
  Counters = {"still", "moved", "gone"}
  MaxInterrupts = 2
SPECIFICATION FairStressSpec
INVARIANTS AlarmStopsLoad QuietPhase FreedWhenIdle ReportAfterLoad
  SuccessIsComplete
PROPERTY RunEnds
CHECK_DEADLOCK FALSE
