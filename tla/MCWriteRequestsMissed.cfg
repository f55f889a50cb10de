SPECIFICATION Spec
CONSTANTS
  r1 = r1
  r2 = r2
  readOnly = readOnly
  NoRequest = none
  NotYet = never
  Request <- Good
  Writeable <- Good
  WellFormed <- Good
  MaxTime = 3
  MaxCrashes = 1
  MaxRefused = 0
PROPERTIES
  UnprocessedAreMissed
