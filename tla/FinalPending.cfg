SPECIFICATION SpecOfPart
CONSTANTS
  Parts = {"final"}
  m1 = m1
  m2 = m2
  c1 = c1
  c2 = c2
  Partitions = {1, 2}
  Messages = {m1, m2}
  BadMessages = {m2}
  PartitionOf <- SessionPartition
  Consumers = {c1, c2}
  ChunkBatch = 1
  ClaimEvery = 1
  TrimMaxLen = 1
  Capacity = 1
  MaxEntries = 2
  MaxFailures = 1
  MaxDeaths = 1
  Words = {"ev", "evi", "bu"}
  WordParts <- Simple
  Family <- Forms
  Grows <- Longer
  Noise <- Fillers
  ShortFinalMinPrevious = 3
  ShortFinalRatio = 65
  MinFallback = 2
  MaxRecent = 3
  DraftWords = 2
  FinalWords = 2
  MaxConfirmed = 1
  Jobs = {1, 2}
  Committed <- CommittedTexts
  JobDraft <- DraftTexts
  JobTexts <- FinalTexts
  Plain <- Lower
  BatchSize = 2
  MaxJobFaults = 1
  k1 = k1
  k2 = k2
  f1 = f1
  f2 = f2
  None = None
  Keys = {k1, k2}
  Windows = {0, 1, 2}
  Size <- Sizes
  PerMs = 2
  Finishes = {f1, f2}
  WindowsOf <- Split
  Cap = 4
  MaxSessions = 1
  Retries = 1
  MaxFaults = 2
CHECK_DEADLOCK FALSE
PROPERTY
  PendingIsRetried
