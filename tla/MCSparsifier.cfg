SPECIFICATION Spec
CONSTANTS
  Values <- MCValues
  DeadBands <- MCDeadBands
  MaxTime = 6
INVARIANTS
  TypeOK
  ExtremesTracked
  StreamInOrder
PROPERTIES
  DeadBandHonoured
  EnvelopeReported
  ImplementsValueStream
