SPECIFICATION BoundedSpec
CONSTANTS
  m1 = m1  m2 = m2  m3 = m3  m4 = m4  m5 = m5  e1 = e1  e2 = e2  h1 = h1  h2 = h2
  c1 = c1  c2 = c2  t1 = t1  t2 = t2  t3 = t3  None = None
  Messages = {m1, m2, m3, m4, m5}
  Events = {e1, e2}
  Hashes = {h1, h2}
  Body <- Mixed
  Consumers = {c1}
  Tokens = {t1, t2, t3}
  MaxFailures = 2
  InboxMaxRows = 2
  OutboxMaxRows = 1
  LeaseTicks = 1
  BackoffTicks = 1
  MaxStampAge = 0
  MaxFaults = 1
INVARIANTS AckedIsDecided UnpublishedHasCarrier
PROPERTIES PendingIsSettled ImplementsEffect
CHECK_DEADLOCK FALSE
