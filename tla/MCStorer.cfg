SPECIFICATION Spec
CONSTANTS
  door = door
  skew = skew
  reader = reader
  poller = poller
  Measurement <- MCMeasurement
  Bools <- MCBools
  Skew = skew
  Producer <- MCProducer
  Reader = reader
  Sharing <- MCSharing
  MaxSample = 3
  MaxShared = 2
  MaxBeat = 2
  MaxRefused = 0
INVARIANTS
  TypeOK
  PopsWhatItTested
  StreamInOrder
PROPERTIES
  ImplementsValueStreams
