SPECIFICATION FairSpec
CONSTANTS
  door = door
  skew = skew
  reader = reader
  poller = poller
  Measurement <- MCMeasurement
  Bools <- MCBools
  Skew = skew
  Producer <- MCOneProducer
  Reader = reader
  Sharing <- MCOneOwner
  MaxSample = 2
  MaxShared = 2
  MaxBeat = 2
  MaxRefused = 1
PROPERTIES
  RoundDelivers
  LateRoundEnds
