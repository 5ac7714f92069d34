SPECIFICATION Spec
CONSTANTS
  m1 = m1  m2 = m2  m3 = m3  m4 = m4  m5 = m5  e1 = e1  e2 = e2  h1 = h1  h2 = h2
  c1 = c1  c2 = c2  t1 = t1  t2 = t2  t3 = t3  None = None
  Messages = {m1, m2}
  Events = {e1}
  Hashes = {h1, h2}
  Body <- Replay
  Consumers = {c1, c2}
  Tokens = {t1, t2, t3}
  MaxFailures = 2
  InboxMaxRows = 2
  OutboxMaxRows = 1
  LeaseTicks = 1
  BackoffTicks = 1
  MaxStampAge = 1
  MaxFaults = 1
SYMMETRY SymReplay
INVARIANTS TypeOK ResultOnlyOfClosedEvent OneSettler FailureBudget
PROPERTIES CommittedOnce
CHECK_DEADLOCK FALSE
