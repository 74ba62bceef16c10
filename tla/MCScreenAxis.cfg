\* One column of cells or three, with a history of three samples.
CONSTANTS
  None = None
  Gone = Gone
  Fans = {intake, cpu}
  FanRpms = {None, 0, 700, 1200}
  HISTORY = 3
  Widths = {6, 8}
  Rows = 5
  MaxEvents = 2
  Plan <- MCPlan
  Rpms = {None, 0, 600, 700}
  Duties = {None, 0, 30}
  Waits = {2}
  STALL_SAMPLES = 2
  MaxSamples = 4
SPECIFICATION MCSpec
INVARIANT LeftEdgeIsLabelled
CHECK_DEADLOCK FALSE
