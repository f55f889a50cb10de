\* The daemon stops when it is asked to.
CHECK_DEADLOCK FALSE
SPECIFICATION FairSpec
CONSTANTS
  r1 = r1
  r2 = r2
  readOnly = readOnly
  NoRequest = none
  NotYet = never
  Request <- Good
  Writeable <- Good
  WellFormed <- Good
  MaxTime = 1
  MaxCrashes = 0
  MaxRefused = 0
PROPERTIES
  ScheduledIsExecuted
