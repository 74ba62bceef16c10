\* 25 % is byte 64, 45 % byte 115, 80 % byte 204.
CONSTANTS
  None = None
  Temps = {40, 90}
  Curve <- MCCurve
  FloorPct = 25
  StartPct = 45
  StartSeconds = 2
  DeadbandC = 2
  SpindownDelay = 1
  MaxDecrease = 40
  Reassert = 2
  PanicAfter = 2
  Delays = {1}
  MaxGap = 1
  Readbacks <- MCReadbacks
  Slots = {1, 2}
  BootBytes = {0}
  ForeignBytes = {204}
  Rounding = {0}
  DiskFails = FALSE
  ReuseSlot = TRUE
  DryRun = FALSE
  ExitAfter = 2
  ExitPct = 50
SPECIFICATION ServiceSpec
INVARIANT ReturningBoardIsKicked
CHECK_DEADLOCK FALSE
