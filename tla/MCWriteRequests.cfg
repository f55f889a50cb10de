\* The daemon stops when it is asked to.
CHECK_DEADLOCK FALSE
SPECIFICATION Spec
CONSTANTS
  r1 = r1
  r2 = r2
  readOnly = readOnly
  NoRequest = none
  NotYet = never
  Request <- WithReadOnly
  Writeable <- Good
  WellFormed <- WithReadOnly
  MaxTime = 2
  MaxCrashes = 1
  MaxRefused = 1
SYMMETRY Symmetry
INVARIANTS
  TypeOK
  RepeatedOnlyIfRefused
  AnswersAreTrue
  LostOnlyForKnownReasons
PROPERTIES
  ResultIsFinal
