SPECIFICATION FairSpec
CONSTANTS
  r1 = r1
  r2 = r2
  r3 = r3
  w1 = w1
  w2 = w2
  None = None
  Requests = {r1, r2, r3}
  Slots = {w1, w2}
  Backends = {"process", "shared"}
  Deadlines <- Callers
  MaxFaults = 2
CHECK_DEADLOCK FALSE
INVARIANTS
  PoolSound
PROPERTIES
  ImplementsPool
  RequestEnds
