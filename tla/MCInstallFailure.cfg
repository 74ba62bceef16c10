\* One script and one refused command.
CONSTANTS
  MaxRuns = 1
  MaxRefused = 1
SPECIFICATION InstallSpec
INVARIANT FailureRestores
CHECK_DEADLOCK FALSE
