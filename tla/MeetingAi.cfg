SPECIFICATION FairPartSpec
CONSTANTS
  Parts = {"delivery", "timely", "store", "analysis", "grounded", "access"}
  None = None
  Runs = {r1}
  Workers = {w1, w2}
  MaxAttempts = 2
  MaxRows = 1
  LeaseTicks = 1
  BackoffTicks = 1
  MaxStampAge = 1
  MaxCrashes = 1
  MaxStoreErrors = 1
  Process = {p1, p2}
  Event = {e1}
  MaxFaults = 2
  Requests = {q1, q2, q3}
  Live = {q1, q2}
  Subscribers = {s1}
  Slots = 1
  QueueSize = 1
  Content <- BudgetWords
  Numeric <- Amounts
  Pronouns = {"biz"}
  Cue <- Cues
  Readings <- Parses
  ShortLemmas = {"can"}
  Stems <- NounStems
  Threshold = 65
  MinEvidence = 2
  MaxUnsupported = 0
  MaxMergedWords = 3
  KeptOld = 1
  Pieces <- Utterances
  Picks <- Choices
  Claims <- Prose
  Owners = {"can", "biz"}
  MaxLength = 7
  MaxDropped = 1
  Callers = {k1, k2}
  Caches = {snapshot}
  MaxRotations = 1
  MaxTokens = 2
  MaxShutdowns = 1
CHECK_DEADLOCK FALSE
INVARIANTS
  DeliverySound
  StoreSound
  AnalysisSound
  AccessSound
  ShownIsEntailed
  ChosenIsShown
  HiddenWasJudged
PROPERTIES
  TimelyDecided
  NothingForgotten
  Upgrades
