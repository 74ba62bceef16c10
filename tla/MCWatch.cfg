\* 620 and 640 are within 5 % of each other and 640 is not within 5 % of 600.
CONSTANTS
  None = None
  Rpms = {0, 600, 620, 640, None}
  Duties = {0, 30, None}
  Flags = {"none", "FAULT", "ALARM"}
  STALL_SAMPLES = 2
  HISTORY = 3
SPECIFICATION WatchSpec
INVARIANTS SilenceIsTrue StallIsFresh LogIsCurrent
PROPERTY LogIsQuiet
CHECK_DEADLOCK FALSE
