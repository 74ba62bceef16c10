\* No hardware flags and a duty that can be read.
CONSTANTS
  None = None
  Rpms = {0, 600, 620, 640, None}
  Duties = {0, 30}
  Flags = {"none"}
  STALL_SAMPLES = 2
  HISTORY = 3
SPECIFICATION WatchSpec
INVARIANT StallIsCommanded
CHECK_DEADLOCK FALSE
