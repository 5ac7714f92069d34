SPECIFICATION Spec
CONSTANTS
  ForcedFrames = 2
  TailFrames = 1
  MinFrames = 1
  BufferFrames = 3
  DraftLimit = 1
  MaxFrames = 4
  MaxDrafts = 1
  MaxFaults = 1
CHECK_DEADLOCK FALSE
INVARIANT
  NewAudioPerFinal
