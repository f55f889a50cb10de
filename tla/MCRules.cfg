SPECIFICATION FairSpec
CONSTANTS
  motion = motion
  dark = dark
  both = both
  mixed = mixed
  off = off
  lamp = lamp
  late = late
  setLamp = setLamp
  setMixed = setMixed
  one = one
  count = count
  many = many
  toggle = toggle
  last = last
  gap = gap
  setToggle = setToggle
  None = None
  Graphs <- MCGraphs
  Readings <- MCReadings
  MaxTime = 4
INVARIANTS
  TypeOK
  QuietIsConsistent
  TimersAreKept
PROPERTIES
  NotificationsAreRead
