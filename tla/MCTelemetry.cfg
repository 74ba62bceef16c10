\* Three inodes: the file, the next one and one a reader holds.
CONSTANTS
  Inodes = {i1, i2, i3}
  Values = {"ok", "trouble"}
  Cut = Cut
  None = None
  StaleAfter = 2
  MaxRefused = 2
SYMMETRY MCSymmetry
SPECIFICATION MCSpec
INVARIANTS TelemetryTypeOK SessionIsAccounted OneReadingLost CalmRowIsRecent
PROPERTY ImplementsRegister
CHECK_DEADLOCK FALSE
