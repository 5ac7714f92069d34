-------------------------------- MODULE LiveText --------------------------------
(***************************************************************************)
(* Three parts of the transcription that share no state, side by side: the  *)
(* consumer of audio chunks, the words of a live stream, and the final      *)
(* transcription.  A behaviour is one of the part chosen at its start, one  *)
(* of Parts.                                                                *)
(***************************************************************************)
EXTENDS Integers, Sequences

CONSTANTS
  Parts,
  Partitions, Messages, BadMessages, PartitionOf, Consumers,
  ChunkBatch, ClaimEvery, TrimMaxLen, Capacity, MaxEntries, MaxFailures, MaxDeaths,
  Words, WordParts, Family, Grows, Noise,
  ShortFinalMinPrevious, ShortFinalRatio, MinFallback, MaxRecent, DraftWords, FinalWords, MaxConfirmed,
  Jobs, Committed, JobDraft, JobTexts, Plain(_), BatchSize, MaxJobFaults

VARIABLES
  part,
  stream, first, chunkNext, chunkPending, idle, chunkAcked, handled, step, mode,
  batch, left, loops, seen, failures, deaths,
  confirmed, tentative, recent, final,
  next, pending, acked, events, rejected, job, jobBatch, chunk, jobFaults

chunkVars ==
  <<stream, first, chunkNext, chunkPending, idle, chunkAcked, handled, step, mode,
    batch, left, loops, seen, failures, deaths>>
wordVars == <<confirmed, tentative, recent, final>>
jobVars == <<next, pending, acked, events, rejected, job, jobBatch, chunk, jobFaults>>
partVars == <<part, chunkVars, wordVars, jobVars>>

Group == INSTANCE ChunkConsumer WITH
  pc <- step, next <- chunkNext, pending <- chunkPending, acked <- chunkAcked,
  stale <- idle, BatchSize <- ChunkBatch, Bad <- BadMessages

Text == INSTANCE RollingText WITH Parts <- WordParts

Final == INSTANCE FinalStt WITH
  pc <- job, batch <- jobBatch, faults <- jobFaults, MaxFaults <- MaxJobFaults,
  Draft <- JobDraft, Texts <- JobTexts

ASSUME LiveTextAssumption == Group!ChunkAssumption /\ Text!RollingAssumption /\ Final!FinalAssumption

PartInit == part \in Parts /\ Group!Init /\ Text!Init /\ Final!Init

PartNext ==
  \/ part = "chunks" /\ Group!Next /\ UNCHANGED <<part, wordVars, jobVars>>
  \/ part = "words" /\ Text!Next /\ UNCHANGED <<part, chunkVars, jobVars>>
  \/ part = "final" /\ Final!Next /\ UNCHANGED <<part, chunkVars, wordVars>>

PartSpec == PartInit /\ [][PartNext]_partVars

\* The fairness of the consumer of chunks.
ChunksRun(c) == part = "chunks" /\ Group!Loop(c) /\ UNCHANGED <<part, wordVars, jobVars>>

ChunksAge(p, i) == part = "chunks" /\ Group!GrowStale(p, i) /\ UNCHANGED <<part, wordVars, jobVars>>

\* The fairness of the final transcription.
JobsRun == part = "final" /\ Final!Process /\ UNCHANGED <<part, chunkVars, wordVars>>

JobsRestart == part = "final" /\ Final!Restart /\ UNCHANGED <<part, chunkVars, wordVars>>

PartFairness ==
  /\ \A c \in Consumers : WF_partVars(ChunksRun(c))
  /\ \A p \in Partitions, i \in 1..MaxEntries : WF_partVars(ChunksAge(p, i))
  /\ WF_partVars(JobsRun) /\ WF_partVars(JobsRestart)

FairPartSpec == PartSpec /\ PartFairness

-----------------------------------------------------------------------------
\* ChunkConsumer: what the group delivered is acknowledged, pending or trimmed, and what
\* it acknowledged was handled or is not valid.
ChunkSound == Group!ChunkSound

\* ChunkConsumer: every valid chunk is handled in the end or trimmed.
ChunksHandled == Group!ChunksHandled

\* RollingText: a word on display as confirmed stays on display until its segment ends.
ConfirmedIsKept == Text!ConfirmedIsKept

\* RollingText: what is removed from a final is what the finals before it ended with.
OnlyRepeatsAreDropped == Text!OnlyRepeatsAreDropped

\* FinalStt: states in order, acknowledgements that are due, revisions that lose nothing.
FinalSound == Final!FinalSound

\* FinalStt: a job left pending is processed again.
PendingIsRetried == Final!PendingIsRetried

=============================================================================
