SPECIFICATION Spec
\* The users of each part run out of what they may do.
CHECK_DEADLOCK FALSE
CONSTANTS
  One = 10
  Goal = {0, 6}
  YellowTouched <- MCYellowTouched
  WhiteTouched <- MCWhiteTouched
  MaxLampSets = 2
  Channels = 2
  Full = 4
  Levels = {0, 1, 3, 4}
  MaxSets = 2
  MaxFailures = 1
  Darkness = {0, 2}
  Threshold = {1, 3}
  MaxFiles = 2
  MaxEdges = 2
  MaxEdits = 2
  Quantity = {"V", "I"}
  Value = {1, 2}
  Garbage = Nothing
  MaxRequests = 2
  MaxReads = 1
  MaxFaults = 1
  kNBuffers = 3
  kSize = 4
  kMinEdges = 2
  MaxTrains = 4
  MaxGlitches = 2
  kRingBufferSize = 4
  kLineBufferSize = 3
  Lengths <- MCLengths
  MaxCommands = 3
INVARIANTS
  TypesOK
  LampShowsValues
  DarkIsOff
  LightIsReleased
  RecordingsPass
  DoneIsSet
  TrainsAreDecoded
  CommandsArrive
PROPERTIES
  SetIsShown
