SPECIFICATION BoundedSpec
CONSTANTS
  m1 = m1  m2 = m2  m3 = m3  e1 = e1  e2 = e2  h1 = h1  c1 = c1  c2 = c2
  t1 = t1  t2 = t2  t3 = t3  w1 = w1  w2 = w2  None = None
  Messages = {m1, m2, m3}
  Events = {e1, e2}
  Hashes = {h1}
  Body <- Sent
  Consumers = {c1}
  Tokens = {t1, t2, t3}
  MaxFailures = 2
  InboxMaxRows = 2
  OutboxMaxRows = 1
  LeaseTicks = 1
  BackoffTicks = 1
  MaxStampAge = 0
  MaxFaults = 1
  Couriers = {w1}
  MaxAttempts = 2
  DeliveryLeaseTicks = 1
  DeliveryBackoffTicks = 1
  MaxCrashes = 1
  MaxStoreErrors = 0
INVARIANTS CommittedIsKept NoRivalDelivery
PROPERTIES EventReachesMeeting
CHECK_DEADLOCK FALSE
