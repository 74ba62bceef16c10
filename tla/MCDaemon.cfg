\* The control law at its smallest: what matters is the step the process was in.
CONSTANTS
  None = None
  Temps = {40}
  Curve <- MCCurve
  FloorPct = 25
  StartPct = 45
  StartSeconds = 1
  DeadbandC = 2
  SpindownDelay = 1
  MaxDecrease = 75
  Reassert = 1
  PanicAfter = 1
  Delays = {1}
  MaxGap = 1
  Readbacks <- MCReadbacks
  Slots = {1, 2}
  BootBytes = {0}
  ForeignBytes = {}
  Rounding = {0}
  DiskFails = FALSE
  ReuseSlot = FALSE
  DryRun = FALSE
  ExitAfter = 2
  ExitPct = 50
  DefaultExitPct = 60
SPECIFICATION FairDaemonSpec
INVARIANTS DaemonTypeOK UnattendedIsSafe ReadyMeansControlled
PROPERTIES ControlReturns WedgedIsEnded
CHECK_DEADLOCK FALSE
