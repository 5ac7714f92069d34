SPECIFICATION BoundedSpec
CONSTANTS
  Streams = {s1, s2}
  Keeper = Keeper
  Closer = Closer
  None = None
  MaxAttempts = 2
  MaxFaults = 2
  s1 = s1
  s2 = s2
CHECK_DEADLOCK FALSE
INVARIANTS
  SupervisedSound
  NoColdReload
PROPERTIES
  CallsReturn
  Recovers
