\* 70, 72 and 74 creep up by less than the deadband, 55 interpolates,
\* 40 and 90 clamp.  25 % is byte 64, 45 % is byte 115.
CONSTANTS
  None = None
  Temps = {40, 55, 70, 72, 74, 90}
  Curve <- MCCurve
  FloorPct = 25
  StartPct = 45
  StartSeconds = 2
  DeadbandC = 3
  SpindownDelay = 2
  MaxDecrease = 20
  Reassert = 3
  PanicAfter = 2
  Delays = {1}
  MaxGap = 2
  Readbacks = {65, 200}
SPECIFICATION FairSpec
INVARIANTS IInv DutyCoversTemperature StepIsAccounted
PROPERTIES ImplementsGovernor SettlesOnCurve
