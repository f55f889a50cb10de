SPECIFICATION Spec
CHECK_DEADLOCK FALSE
CONSTANTS
  Gaps <- MCGaps
  BoolMaxTime = 7
  Request = {"good", "garbled"}
  Writeable = {"good", "garbled"}
  WellFormed = {"good"}
  NoRequest = Nothing
  NotYet = Nothing
  MaxTime = 2
  MaxCrashes = 1
  MaxRefused = 1
  Process <- MCProcess
  Key <- MCKey
  Kind <- MCKind
  Program <- MCProgram
  WriteValue = {"shared"}
  Normal = "normal"
  Other = "old"
  NoRow = Nothing
  MaxDeaths = 1
  Value = {1, 2, 3}
  MaxEdits = 2
  MaxStarts = 2
  Client = {"a"}
  ClientRequest <- MCClientRequest
  Uid <- MCUid
  Thread = {"reader", "requests"}
  Class = {"normal", "valueTooLow", "valueTooHigh"}
  MaxChecks = 4
  MaxLost = 1
  Measurement <- MCMeasurement
  None = Nothing
  Intervals <- MCIntervals
  Ceiling = 6
  Beat = 3
  MaxRead = 2
  MaxChanges = 2
INVARIANT
  NextOneWakes
