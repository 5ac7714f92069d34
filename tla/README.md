# A TLA+ model of platform-ai

This directory holds the formal model of the repository: TLA+ modules, the TLC
configurations that check them on small instances, and theorems that the TLA+ proof
system (TLAPS) checks for every value of the constants. Paths below are relative to the
repository root; `mai/` stands for `services/meeting-ai-service/app/services/`, `live/` for
`services/live-stt-service/app/`.

```
tlc -workers 2 -config ConsumerReplay.cfg MCReadyEventConsumer     # one run
tlapm ReadyEventConsumerProofs.tla                                 # one proof module
```

## 1. The system

Four Python services turn the audio of a meeting into transcripts and analyses.

| Component | State it keeps | Operations | What makes it correct |
|---|---|---|---|
| Ready-event inbox (`mai/ready_event_inbox.py`, migrations) | one SQLite row per event: state, lease, token, failures, dead reason, publication mark | register and claim, mark failure / dead / published, defer, commit with the result, rearm, prune | one settler per lease, one result per event, closed is closed, no overdrawn budget |
| Ready-event consumer (`mai/ready_event_consumer.py`) | the group's pending list and the dead-letter stream in Redis; one message in memory | read new / own / stale / deleted entries, process, dead-letter, acknowledge | never acknowledge before the decision is durable; every entry settles |
| Delivery outbox and worker (`mai/durable_outbox.py`, `mai/analysis_delivery.py`) | one encrypted SQLite row per result: state, attempts, lease, owner | enqueue, claim, deliver, mark delivered / retry / dead, requeue | no result lost, the latest attempt settles, dead only when justified |
| Store migrations, key rotation (`mai/durable_outbox.py`) | schema version, scrub marker, lookup-key binding, the keys of the envelopes | migrate, check the keyring, rekey, bind, scrub | readable by whoever serves, nothing forgotten, no plaintext left, resumable |
| meeting-service and transcript clients (`mai/meeting_service_client.py`, `mai/canonical_transcript_client.py`) | cached tokens with their locks; a connection pool built from the TLS files, retired pools | obtain token and capability, fetch, post, reload the pool | no pool closed under a request, no rotation missed, no refused token kept; an ambiguous answer is not an acknowledgement |
| Analysis application (`mai/analysis_application.py`) | admission semaphore, backend threads | execute | bounded admission, slots returned once |
| Live stream hub (`mai/live_stream_hub.py`) | bounded queue per subscriber | publish, subscribe, close | the newest result is kept |
| Text algorithms (`mai/analyze.py`, `citation.py`, `extractive.py`, `live_context.py`, `morphology.py`, `ask.py`) | the cursor a live client holds | split, choose, ground, cite | what is said rests on one sentence; what was chosen is shown |
| STT worker pools (`live/services/worker.py`) | slots, processes, generations, waiting jobs | transcribe, time out, kill, restart | a job gets its own answer, slots come back |
| Supervised streaming models (`live/services/streaming_models.py`) | child process, call lock, generation | ensure, transcribe, restart, close | one child, no answer of an old generation |
| Streaming session (`live/api/stream.py`) | audio buffer, partial and final state, events and locks | receive, draft, commit, finish | no speech dropped, finals in order and each with new audio, the stream ends |
| Audio store, finish, attribution (`live/services/session_*.py`) | bounded audio per session | append, finish, cancel, sweep, attribute, publish | only as much audio as the gateway counted is attributed, in its place; no child that a kill can end is left behind |
| Chunk consumer (`live/services/chunk_consumer.py`) | per-partition group, seen-set | process, acknowledge, claim stale, trim | no chunk put aside unhandled |
| final-stt (`services/final-stt-service/app/services`) | the group's pending list, the events of a job | consume, transcribe, merge, publish, dead-letter | states in order under failures and restarts |
| Diarization service, evaluation gates, GPU-host PowerShell, MinIO | external model; files; Windows services | — | — |

How they interact: transcript-service appends `meeting.transcript.ready` to a Redis Stream;
the consumer claims the event in the inbox, fetches the snapshot, analyses it and commits the
result to the outbox **in the transaction that closes the inbox row**; the delivery worker,
another task on the same SQLite file, posts the result to meeting-service. Pruning and
rearming look at the outbox before they touch the inbox. Several processes share the stream,
the group and the file. The consumer and the endpoints share the analysis slots; live results
go through the hub to SSE clients. In live-stt the gateway's audio arrives as WebSocket frames
(streaming session), as windows to transcribe at once (worker pools, whose audio is also stored
per session) or as stream entries (chunk consumer); final-stt revises a session afterwards.

Hard behaviours: processes stop between any two steps; leases expire while their holder is
still working; timestamps are taken before the writer lock they are used under; entries are
redelivered, replayed with other payloads, trimmed while pending; answers are lost, late or
ambiguous; stores fill up; keys, certificates and tokens change under running requests; child
processes crash, hang or answer as their deadline passes; coroutines are cancelled at any
await; audio comes in while earlier audio is decoded. The hazards, each at its line, are in
`PROJECT.json`.

## 2. Modules

| Module | Models | Checked through |
|---|---|---|
| `ReadyEventConsumer` | inbox and consumer processes, Redis, operator, pruning, time | `MCReadyEventConsumer` |
| `ReadyEventEffect`, `ReadyEventRefinement` | abstract: what the consumer promises about one event; the mapping | `MCReadyEventConsumer` |
| `AnalysisDelivery` | outbox rows, delivery workers, meeting-service, late requests | `MCMeetingAi` |
| `ReadyPipeline` | consumer and delivery on one database | `MCReadyPipeline` |
| `StoreMigration` | opening the store, key rotation | `MCMeetingAi` |
| `AnalysisApplication` | analysis slots, threads, deadlines, the hub | `MCMeetingAi` |
| `GroundedAnalysis` | sentences, menu, grounding, cursor | `MCMeetingAi` |
| `ServiceAccess` | token caches and the client that reloads its TLS files | `MCMeetingAi` |
| `SupervisedModel` | a streaming model in a supervised child, its callers, preload, shutdown | `MCSupervisedModel` |
| `StreamSession` | the coroutines of one WebSocket stream | itself |
| `RollingText` | what the texts of a stream become | `MCLiveText` |
| `WorkerPools`, `JobPool` | both batch pools; abstract: what a pool promises | `MCWorkerPools` |
| `SessionAudio` | session audio, finish, attribution | `MCLiveText` |
| `ChunkConsumer` | the consumer of audio chunks | `MCLiveText` |
| `FinalStt` | the final transcription worker | `MCLiveText` |
| `MeetingAi`, `LiveText` | the parts of meeting-ai, and those of the transcription | `MCMeetingAi`, `MCLiveText` |
| `ReadyEventConsumerProofs`, `AnalysisDeliveryProofs`, `ReadyPipelineProofs`, `MeetingAiProofs`, `SupervisedModelProofs`, `StreamSessionProofs`, `WorkerPoolsProofs`, `TranscriptionProofs` | theorems and their proofs | TLAPS |

`MeetingAi` and `LiveText` put parts that share no state side by side, for the runs and for the
proofs; `MCMeetingAi` and `MCLiveText` give them words, texts and sizes, and `MCLiveText` adds
`SessionAudio` as one more part. A behaviour
belongs to the part chosen at its start, so the state space is the sum of the parts' and not
their product, and a property of one part is checked over that part's states.

### ReadyEventConsumer

One SQLite transaction or one Redis command is one action. `inbox[k]` is the row of a key; a
poison row has the key of its entry (`invalid|<id>` in the code). `worker[c]` is what one
consumer process has in memory: which step of `process_message` comes next (`pc`), the entry,
the timestamp a settling call took before it got the lock (`stamp`), the lease token and the
error code. A stop (`Abandon`) forgets all of it. `msgs[m]` follows an entry through the
group: `unsent`, `stream`, `pending`, `orphaned` (trimmed but pending), `purged` (dropped by
`XAUTOCLAIM`), `acked`.

`register_and_claim` is `BusyCheck` (the unlocked read) followed by one of `ClaimConflict`,
`ClaimRefused`, `ClaimExhausted`, `Claim`; the order of the code's tests is in their guards.
`FinishWork` stands for fetching and analysing: its three outcomes are a result to commit, a
retryable error and a terminal one. `_dead_letter_and_ack` is `PublishDeadLetter`,
`MarkDlqPublished`, `Ack`. `Fenced` is the `WHERE` clause all settling statements share;
`LeaseLost` is what happens when it matches no row.

An entry whose source is gone is seen in two ways: `XAUTOCLAIM` drops it and reports its id
(`TakeDeleted`), and the scan of a process's own pending list answers it without fields, which
redis-py turns into an empty dict and the consumer into a malformed record (`TakeEmptied`).

Abstracted: payloads are members of `Hashes`; an event stands for its lookup key and its
analysis run id (transcript-service mints one per finalisation); which process a pending entry
belongs to and how long it has been idle are left out, so any process may take any pending
entry at any time (a superset of what `XAUTOCLAIM` and the own-entry scan do); back-off has
one length; the content and order of a batch are left out.

A full inbox refuses a new event or a poison record and leaves the entry pending. Pruning makes
room, but takes only rows that are closed and, if dead, published. A row that needs a redelivery
to get there and has no entry left (`Forsaken`: an event an operator rearmed and nobody replays,
or one whose entries were trimmed in between) keeps its place, and an inbox full of such rows
refuses everything new (`Crowded`). That is the exception in `PendingIsSettled`.

Time is relative: deadlines are distances to now, `Tick` lowers them, and a deadline further
in the past than any timestamp a process can hold stays at the floor `-MaxStampAge`. So time
never has to stop and no clock bound is needed.

`ReadyEventEffect` says what all this amounts to: one event is `undecided`, `analysed`,
`exhausted` or `refused`; the result appears in the step that decides; an entry is acknowledged
only when its event is decided, was reopened, or the entry is on record as unreadable; nothing
is reopened while a result is held. There are no leases, processes, retries or timestamps:
`ImplementsEffect` says that none of them shows.

### AnalysisDelivery and ReadyPipeline

`rows[r]` is the row of a run, `queue` the order `ORDER BY created_at` gives. `Claim` takes the
first claimable row under a timestamp that may lag. An attempt ends before the request
(`FailBeforePost`), with an answer (`Answer`, `AnswerTerminal`) or without one (`Timeout`); in
the last case, and when the process dies after posting, the request is in `late` and may be
stored at any later time. `Owns` is the `WHERE` clause of the settling statements. The owner
name is new in every process, so a crash leaves rows without an owner (`Disowned`).
`StoreError` is a SQLite error while a row is settled: `_worker_loop` catches errors of the
claim only, so the task ends (`stopped`).

`ReadyPipeline` instances both modules on one set of rows: the consumer's `outbox` is the set of
runs whose row exists. `CommitResult` is one step of both sides, `HandOver` is `mark_delivered`
seen by both. Two limits meet here. A dead result counts toward the limit of the outbox
(`mai/durable_outbox.py:925-929`) and its inbox row cannot be pruned, until an operator requeues
it: `OutboxBlocked` and `InboxBlocked` name the states in which another event waits for ever, and
`EventReachesMeeting` promises an outcome in all others.

### StoreMigration

`SqliteOutboxStore._initialize` as the transactions it is made of, one action each; several
processes run it on one file, may stop between any two and start again. `version` is
`PRAGMA user_version`; the processes reread it, so one may find its work done. A process starts
with the keyring of the rotation step that is deployed (`step`), or with a wrong lookup key; the
operator moves to the next step only when every running process has the one before, which is
what the service's README asks for. Processes that serve take in events under their own keys
meanwhile. `plaintext` is `present` until `VACUUM` (`superseded`) and the truncation of the WAL
(`gone`); a busy checkpoint is a fault. Left out: contents of rows beyond key, digest scheme and
event; the check that the capability column exists.

### AnalysisApplication

`slots` is the semaphore of `AnalysisApplicationService`; `running` the threads, which only
`Finish` ends; `future` what a thread came back with and `released` the requests whose done
callback ran. The request and its thread are separate: a deadline or a cancelled request leaves
the thread running (`asyncio.shield`), and the slot goes back with the callback, not with the
request. `queue[s]` is a subscriber's queue in the hub: a full one drops its oldest.

### GroundedAnalysis

The functions of `mai/analyze.py`, `citation.py`, `extractive.py`, `live_context.py`,
`morphology.py` and `ask.py` over sequences of words, full stops and line breaks, and the state a
live client keeps between requests (the cursor). The model's answer is any member of `Picks`
(numbers of the menu) or `Claims` (prose). `Readings`, `Stems` and `Cue` give what the external
morphology and the regular expressions find in a word. The transcript grows by pieces and loses
its oldest words when its window is full. Left out: redaction, the mock analyzer, prompts,
timestamps of segments, due dates, the limits on the length of a menu and on picks.

### ServiceAccess

The coroutines of the clients with two token caches and one `ReloadingHttpClient`. `pools[p]` is
the version of the TLS files a pool was built from; `owned`, `fingerprint`, `active`, `retired`
are the fields of the class, and `closed` the pools whose `aclose` ended. Stat and load are
separate (`StatFirst`): the files may be replaced between them. The lock of the pool is never
held across an await, so what it guards is one step; the lock
of a token cache is held across a request (`holder`). In production each client is used by one
task; the module takes several callers, because the class is written and tested for them
(`tests/unit/test_meeting_service_client.py:418`) and its counting matters only then.

### SupervisedModel

One model of `live/services/streaming_models.py` (`_SupervisedWhisperService`). The callers are
the WebSocket streams, the preload and recovery thread of `live/main.py` (`Keeper`) and shutdown
(`Closer`). `caller[c].pc` follows one call: `queue` (waiting for `_call_lock`), `enter` (the
checks of `_ensure_model_locked` and `_invoke_locked`), `await` (the child has not dialled in),
`send`, `poll`, and `invalidate`, `stop`, `spawn` for the three parts of
`_terminate_and_restart` and `_start`. A child is known by the `_generation` it was started in:
`children` are those alive, `process` and `conn` what `_process` and `_conn` lead to, `connReady`
whether the current `_conn_ready` event is set. The accept thread is two steps, as in the code:
it compares the generation (`Dial`), then stores the channel (`Publish`).

What runs without the lock is an action of its own: the child (`Work`, `Crash`), the accept
thread, the recovery loop's look at the flags (`Watch`), the readiness test of a new WebSocket
(`Connect`), `request_stop` and the start of `close`. A crash, an error answer, a missed deadline
and a child that survives `kill` cost a fault; waiting out a deadline because no child is left
(`Expire`) does not, since nothing else can happen.

Left out: the other role, which shares only the preload thread (a stream is let in when both
are ready, so this model lets in more), the lengths of deadlines and pauses, the recovery
back-off, the in-process `DirectWhisperService`, and `transcribe_array` of the supervised class,
which nothing calls.

### StreamSession

The receiver, `inference_loop`, the draft task and `terminal_pipeline` of `stream_endpoint`. A
step runs from one await that really waits to the next, so a value read before a decode and used
after it is stale in the model as it is in the code. A frame of audio is its position in the
stream and is speech or silence; `buffer` holds the positions not committed, `sent` the events
the client got, `decoded` the frames that were considered for a final. Cancellation is delivered at the
await a coroutine waits in; the loop's cancellation of its own draft and the one it receives at
EOF are told apart only as the code tells them apart: `finish_draft_task` may swallow the loop's
own cancellation, and `outlived` remembers that it did. From then on the loop and the terminal
pipeline may both commit the same audio (run `EofRace`). The commits that the code skips as too
short or too quiet count as considered (`decoded`). Left out: authorization, configuration
frames, debug events, session ids.

### RollingText

What the texts of those events are made of: `confirmed` and `tentative` of the draft, the merge
of a final with the draft on display, the cut of what the last final had said. Every decode is
any short text over the vocabulary. A raw word has one or more normalized words (`Parts`) and a
`Family`, as the code's comparison of inflected forms has.
`_merge_rolling_partial` and `_select_partial_text` have no caller and are left out.

### WorkerPools and JobPool

The process pool (a child per slot, killed when its job is late) and the shared pool (one
supervisor, results handed out by job id, recycled as a whole). `generation` names the current
pair of queues; a caller reads queue and generation before it registers (`queue`, `seen`), and
`_start` replaces them without the lock callers register under. A respawn that fails when a late
child was killed is left out (it is like one that succeeds and crashes at once), as is a restart
of the supervisor that fails after the generation was raised. `JobPool` is what both promise:
a bounded number of jobs is in, and a job is answered with its own transcription or fails.

### SessionAudio

`session_audio_store.py` (windows by number, cap, sweep, hand-over) with the thread of each
finish: tombstone check, semaphore, child process with its deadline, retries when the GPU is
full, publication. A window is delivered in any order, again, altered, or never; an altered one
may have any length (`Size` is by window and version). The gateway's count is compared in
samples, the timeline is in whole milliseconds (`PerMs`), and a window whose range is empty has
no entry. So what is published need not be whole: an altered window may make up for the length
of a missing one, which a count cannot tell. `PublishedIsWhole` says how far the count goes.
A child is joined for `kill_grace_sec` only, after which the code goes on whether it is gone or
not (`LetGo`); those that are not are counted in `survivors` until they end.

### ChunkConsumer and FinalStt

Each follows its consumer loop call by call with the Redis streams beside it. `ChunkConsumer`:
read, seen-set, handler, acknowledge, trim, claim of entries that were pending for long, several
consumers. `FinalStt`: one consumer, the states `draft`, `stabilizing`, `final`, `revised` as four
separate publications, dead letters, restarts; a job in hand is forgotten by a restart.

## 3. Runs

Sizes are distinct states.

| Run | Instance | Checks |
|---|---|---|
| `ConsumerReplay` | 2 processes, an event and its exact replay, 2 failures, clocks lag by 1, 1 fault; 914k | `TypeOK`, `ResultOnlyOfClosedEvent`, `OneSettler`, `FailureBudget`, `CommittedOnce` |
| `ConsumerMixed` | 1 process, an inbox of 2 rows; an event and a conflicting replay with a fault, or three records with keys of their own (two events, a malformed record), or a foreign record, fairness; 29k | `AckedIsDecided`, `UnpublishedHasCarrier`, `PendingIsSettled`, `ImplementsEffect` |
| `Pipeline` | 1 consumer, 1 courier, an outbox of 1 row, 2 failures, 2 attempts; an event and its replay with 1 stop, crash or trimming, or two events, fairness; 47k | `CommittedIsKept`, `NoRivalDelivery`, `EventReachesMeeting` |
| `MeetingAi` | the five parts below, fairness; 140k | see below |
| `Supervised` | 2 streams, or 1 and two faults, preload thread, shutdown, 2 attempts, fairness; 74k | `SupervisedSound`, `NoColdReload`, `CallsReturn`, `Recovers` |
| `StreamSession` | 4 frames, forced commit at 2, 1 draft, 1 fault, fairness; 413k | `DrainedIsComplete`, `StreamSound`, `EofEnds` |
| `WorkerPools` | 3 requests on 2 workers, both pools, with and without deadlines, 2 faults, fairness; 63k | `PoolSound`, `ImplementsPool`, `RequestEnds` |
| `LiveText` | the four parts below, fairness; 129k | see below |
| `FinalPending`, `CompoundWords`, `FusedSummary`, `EofRace` | the smallest instance that shows it | one sentence the repository says of the program and the program does not keep (see 6) |

The parts of `MeetingAi`:

* delivery (2 workers, 1 result, 2 attempts, 1 crash or requeue, 1 SQLite error):
  `DeliverySound`, and with fairness `TimelyDecided`;
* store (2 processes, 1 event, files of three ages, 2 faults): `StoreSound`,
  `NothingForgotten`, `Upgrades`;
* analysis (3 requests, 2 of them live, 1 slot, 1 subscriber with a queue of 1): `AnalysisSound`;
* access (2 callers of one cache, 1 rotation, 2 tokens, 1 shutdown): `AccessSound`;
* grounded (a vocabulary of eight words, transcripts up to 7 symbols, 1 word lost, menus and
  claims of every kind): `ShownIsEntailed`, `ChosenIsShown`, `HiddenWasJudged`.

The parts of `LiveText`:

* chunks (2 consumers, 2 partitions, 2 entries of a valid or an invalid message, 1 handler
  failure, 1 death): `ChunkSound`, `ChunksHandled`. The one failure is transient: the chunk is
  handled when it is read again. A chunk whose handler always fails is claimed again for ever;
* words (every sequence of decodes up to 2 words over 3 words, two of one family, one noise):
  `ConfirmedIsKept`, `OnlyRepeatsAreDropped`;
* final (3 jobs, batches of 2, 2 faults): `FinalSound`;
* audio (2 sessions of 2 windows of 0 to 3 samples, 2 to the millisecond, one session over the
  cap, in a store of one; 2 finishes, 2 faults): `PublishedIsWhole`, `AudioSound`, `FinishEnds`.

What the properties say is stated above each in its module. Those that need the most actors and
steps to break: `OneSettler` and `CommittedOnce` (two processes, an expired lease, a replay),
`UnpublishedHasCarrier` (a stop between marking dead, publishing and marking published),
`EventReachesMeeting` (both stages, both budgets, a full outbox), `NoColdReload` (two streams and a
replacement), `DrainedIsComplete` (audio during a slow final, EOF in the middle of it),
`ImplementsPool` (a recycle while a caller registers), `PublishedIsWhole` (late, repeated and
altered windows around a finish), `StoreSound` (two processes, a rotation, a stop between
transactions), `AccessSound` (a rotation between stat and load under a running request).

Why these bounds are enough to be interesting: two processes are needed to lose a lease, two
entries of one event for replays and conflicts, two failures to tell a retry from the last
one; in `ConsumerMixed` three keys and two rows, and in `Pipeline` two events and one place in the
outbox, for a full table to be seen by whoever needs it; two streams are needed for one to wait while the other's deadline takes its model away,
two faults for a missed deadline whose kill fails as well; a lag of one makes a deadline pass
between a timestamp and its use; three requests on two workers make one wait; four frames with
a forced commit at two give a final during which another one becomes due, with a tail kept from
the first; one rotation puts the files on either side of every stat and load; a queue of one is
full at the second result; one fault places a stop, a failed command or a trimmed entry
anywhere. For every property there is a mutation of the modelled code (dropped guard, missing
reset, swapped order) that the same instance refutes; they are listed in `PROJECT.json`.

Bounds the code does not have: `MaxFaults`, `MaxCrashes`, `MaxStoreErrors`, `MaxFailures`
and `MaxDeaths` (of `ChunkConsumer`), `MaxStampAge`, `MaxFrames`, `MaxDrafts`, `MaxEntries`,
`MaxRotations`, `MaxTokens`, `MaxShutdowns`, `MaxLength`, `MaxDropped`, and the lengths of
texts in `RollingText`. `BoundedNext` in `MCReadyEventConsumer`,
`MCReadyPipeline` and `MCSupervisedModel` additionally limits which of the choices come together,
as it says there, and in the first two a claim draws always the same free token. Both exceptions of the two
liveness properties are reached where they can be: without `[]Crowded(m)` (two events an operator
rearmed hold both rows, a third record waits), `PendingIsSettled` fails in `ConsumerMixed`, and
without `[]OutboxBlocked`, `EventReachesMeeting` fails in `Pipeline`. Its `InboxBlocked` needs more
events than rows in the inbox, which `Pipeline` does not have; with `InboxMaxRows = 1` and
`[]InboxBlocked(m)` left out it fails as well. Processes, tokens
and the entries of an exact replay are interchangeable (symmetry is used in the run without
liveness only). Deadlock checking is off: when every entry is settled, every request
answered and no deadline runs, the system rests; and a service that was shut down, or a
stream that was closed, has stopped.

## 4. Fairness

Consumer: a process goes on with a message it holds (the analysis ends by `request_timeout`,
every Redis command and every SQLite call has a time limit); every entry in the pending list is
reached again and again (own entries are rescanned, stale ones claimed from a moving cursor),
also when other entries keep the process busy, hence strong fairness of `Take`; time passes;
maintenance goes on pruning; results go on leaving the outbox. The last one is an assumption
about the delivery side, where a dead result waits for an operator; `ReadyPipeline` drops it and
names what follows instead.
Nothing is assumed of the producer, the operator, of trimming or of faults.

Delivery: a loop that was not ended goes on. `TimelyTick` lets no lease run out during an
attempt: the configuration refuses a delivery lease that does not exceed the time limits of all
requests of an attempt (`core/config.py:403-404` and `:470-477`). Without it two workers could
take the row from each other for ever.

Store: whoever is down is started again, a start goes on, and the operator puts back a key that
rows still need. A start with a wrong lookup key is a fault.

Supervised model: whoever holds the lock goes on, every wait in the code having a deadline; a
call in the queue gets the lock in the end (strong fairness), since its holder gives it back by
its own deadline; child and accept thread run; the recovery loop looks again.

Streaming session: once EOF was received, some coroutine that can go on does (decodes and sends
have time limits). No order among them is assumed, and nothing before EOF.

Worker pools: a caller goes on, its wait for a slot or a permit ends when one is free often
enough, a deadline ends its wait for an answer; children, supervisor and the thread that hands
out answers work. Session audio: the thread of a finish goes on, and gets the semaphore when it
is free often enough; the hard deadline ends a child that hangs. Chunk consumer: its loop goes
on until the consumer dies, and an entry left pending grows stale. Final transcription: the loop
goes on and the process is restarted.

No fairness anywhere of crashes, missed deadlines, faults, clients, streams or shutdown.

## 5. What is proved

Thirty-one theorems, for every value of the constants; their proofs are in eight modules. Each
invariant is proved in the same way: an inductive invariant `IInv`, one lemma per action or per
group of actions that write the same state, one lemma that puts them together (`Next...`), and
the temporal step.

### The consumer

`ReadyEventConsumerProofs`, for any number of processes, entries, events, failures and any
lease, back-off and lag: `TypeCorrect` (`Spec => []TypeOK`) and `BudgetRespected`
(`Spec => []FailureBudget`). The inductive invariant is `IInv == InboxOK /\ WorkersOK /\
StoresOK`. Types and budget are proved together because neither is inductive alone: that a
failure count stays in `0..MaxFailures` when it is raised needs that an open row has budget left
(`Budgeted`), and that a dead letter has an error code needs that whoever leads to one carries
it (`Equipped`).

The rest of the module builds on it, in four parts.

* `ResultsBelongToClosedEvents` (`ResultOnlyOfClosedEvent`) and `OneResultPerEvent`
  (`CommittedOnce`) follow from `CommittedIsClosed`: an event whose result is in the outbox, or
  was committed since the event was last released, has a closed row. `ResultOnlyOfClosedEvent`
  alone is enough while the result waits; the second half is needed because the delivery deletes
  the result and the row must stay closed after that. The lemmas under it: a closed row stays
  closed unless an operator rearms it or its retention ends (`ClosedStays`), and a result appears
  only in the step that closes its row (`ResultsOnlyByCommit`).
* `OneSettlerPerEvent` (`OneSettler`) follows from `LeasesOK`: a lease token is in one hand, and
  the payload of a row a process could still settle is the one it claimed it with. The tokens are
  what makes this inductive: a lease may expire and be taken over while its holder works on, and
  the holder finds out only because the row has another token.
* `NoEarlyAck` (`AckedIsDecided`) and `DeadLettersAreNotLost` (`UnpublishedHasCarrier`) follow
  from `OutcomeOK`. It says what each process knows about the row it came from (`StepOK`: whoever
  is about to publish has an event that is settled for its payload or was released, whoever is
  about to acknowledge has one for which nothing is left to do), that these facts last
  (`Lasting`, from the order in which a row can change, `Progress`), and that a dead event whose
  dead letter is not out has an entry that will bring it (`Carries`). After a conflict that entry
  is the contradicting one and not the one the row was made from, which is why `CarriersOK`
  cannot be said of the row's own entry.
* `ConsumerImplementsEffect` (`ImplementsEffect`): every step is a step of `ReadyEventEffect` or
  leaves what it tells of every event as it was. The steps are grouped by what they show: nothing
  (`QuietSteps`), a death, a poison record, a result, an acknowledgement, a publication. What the
  abstract guards ask for (an acknowledgement only of what was decided, a result of an undecided
  event only) is `OutcomeOK`, `LeasesOK` and `CommittedIsClosed` in the state before.

`ConstantsAssumption` is a hypothesis of all of these; `MCReadyEventConsumer` and
`ReadyPipeline` assert it of their constants.

### The delivery, and both together

`AnalysisDeliveryProofs`, for any number of runs, workers, attempts, crashes and store errors:
`DeliveryIsSound` (`Spec => []DeliverySound`), which is types, `NoResultLost`,
`SettlesLatestAttempt` and `DeadIsJustified`. A row leaves the outbox or dies by what a worker
says of its attempt, so the invariant adds that a worker about to settle says "delivered" only
of a run meeting-service has and "terminal" only of one some attempt found undeliverable
(`VerdictSound`); and `SettlesLatestAttempt` is needed for `DeadIsJustified`, since the worker
compares the limit with the attempt it has in memory. That the queue lists each row once
(`QueueOK`) rests on a lemma about the removal of an element (`QueueShortened`). Hypothesis:
`DeliveryAssumption`, asserted by `MeetingAi`.

`ReadyPipelineProofs` is compositional. `HalvesBehave` (`Spec => C!Spec /\ D!Spec`): a behaviour
of the pipeline is one of the consumer and one of the delivery, each seeing only its own
variables and the outbox through its mapping; so all that is proved of either holds of it there.
One fact relates the halves: what the consumer committed, the delivery accepted (`Handed`). With
it `CommittedIsNotLost` (`CommittedIsKept`) and `NoRivals` (`NoRivalDelivery`) follow from the
invariants of the halves. That the halves' modules and the ones the component proofs are about
are the same is itself a lemma per action (`SameConsumer`, `SameDelivery`). Assumption:
`PipelineAssumption`, from which both halves' hypotheses follow (`Assumed`).

### The rest of meeting-ai

`MeetingAiProofs` has four parts, which share no state.

`AccessIsSound` (`AccessSpec => []AccessSound`), for any number of callers, caches, rotations,
tokens and shutdowns. The invariant adds to `AccessSound` what a caller
holds at each place (`CallerTypes`: a pool exactly while it is sending), that the counter of a
pool is the number of callers that hold it (`Counted`), that owned, retired, being closed and
closed are disjoint and cover all pools (`Separate`), that whoever asks for a token holds the
lock of its cache (`Locked`), and that a token belongs to one cache (`Distinct`, without which
invalidating one cache could leave a refused token in another). The counting uses the library's
facts about finite sets. Hypothesis: `AccessAssumption`.

`StoreIsSound` (`StoreSound`) and `OpeningForgetsNothing` (`NothingForgotten`), for any number of
processes that open one file, any keys and any row. Whoever serves has passed all steps of
`_initialize`, and each step must still hold when others rotate keys, migrate and write after
it. The invariant therefore says, for each place in the sequence, which of the checks a process
has behind it and that nothing a process with other keys may do undoes them. Hypothesis:
`StoreAssumption`.

`AnalysisIsSound` (`AnalysisSound`), for any number of requests, live or final, and subscribers:
slots, threads and the notices the event loop has yet to hear are paired, so a slot that is not
free has a thread or a notice, and a deadline or a cancellation that comes between the two
gives no slot back twice. Hypothesis: `AnalysisAssumption`.

`OnlyEntailedIsShown` (`ShownIsEntailed`), `QuotesAreShown` (`ChosenIsShown`) and
`HiddenWereJudged` (`HiddenWasJudged`), for any words, readings, cues, transcripts and answers of
the model. The first two follow from what a response was made of (`Sound`) and from what the
gates of `ground_claim` owe to each other: a cited claim is entailed by its sentence
(`CitedEntails`, `EntailedIs`), and a sentence of the menu passes every gate, because the verbatim
sentence wins a tie, agrees with its own polarity and covers all of its own words
(`QuotedIsGrounded`). The third needs `CursorOK`: each sentence of the transcript a cursor is about
was on a menu. A live menu shows the new part of a transcript and the last old sentences only, so
the sentence before them must not have changed; `OldIsStable` proves that of the splitter: the
longer transcript has the same sentence in the same place wherever another one follows it that
began in the old part. It goes through both folds (`RawSteps`, `MergeSteps`), each unfolded as a
state after k symbols or fragments; where an induction would be used, the smallest step that goes
wrong is refuted (`Least`). At least one old sentence is kept (`KeptOld > 0`): with none
the last old sentence, which may still be growing, would be hidden. Hypothesis:
`GroundedAssumption`, of which three parts are worth naming: the words that count are finitely
many (transcripts are bounded), no unsupported word is allowed (`MaxUnsupported = 0`, as
`citation.py:127` says it stays), and a piece the transcript grows by fits the window.

`MeetingAi` asserts the four hypotheses.

### Live transcription

`SupervisedModelProofs`, for any number of streams, attempts and faults: `ServiceIsSound`
(`SupervisedSound`) and `NoStreamReloads` (`NoColdReload`). The invariant says who holds the lock
(`LockOK`), that the only child is the one last started (`LastStarted`), what a child's stage says
about its task and its model (`ChildrenOK`), that a task is left in a child only by a call that is
about to end it or when no call will be served again (`TasksOK`), and what whoever holds the lock
may rely on until it gives it back (`Promises`): the generation is that of the child, the flag is
about the model of this very child, and the child of a stream's call is the one it was pinned to.
`Promises` is what makes `NoColdReload` inductive: between the check of the flag and the task
everything else may happen to the child, but nothing may replace it. Assumption:
`SupervisedAssumption`.

`StreamSessionProofs`, for any length of stream, any segment, tail and buffer length and any
number of drafts and faults: `StreamIsComplete` (`DrainedIsComplete`) and `StreamIsSound`
(`StreamSound`). What has to be followed is where the frames are. A frame of speech is in the
buffer until it was considered for a final (`BufferOK`), and lies there no earlier than its
own place in the stream says (`Placed`): when silence is cut out, what remains ends where the
stream does. So what a slow commit cuts off when it ends was in the copy it started from, and what came in
meanwhile stays (`LaterThan`, `CommitOK`). `ControlOK` says who may commit: the loop does so
beside the terminal pipeline only when it came out of its wait for a cancelled draft after EOF,
and then its copy holds the whole stream; without this case two commits would cut the same
buffer. `Told` is what the client was told: segment numbers in order, and that two finals share at
most the tail that was kept on purpose, the one after EOF included; only a loop that swallowed
its cancellation is excepted (`outlived`). The cutting of buffers is proved once as a lemma
about slices (`TrimIsSlice`, `SlicePlaced`); the least and the greatest element of a set of
numbers come from the library's theorem on well-founded relations (`Least`, `Greatest`).
Assumption:
`StreamAssumption`.

`WorkerPoolsProofs`, for any number of requests, slots and faults and both pools: `PoolIsSound`
(`PoolSound`) and `PoolsImplementJobPool` (`ImplementsPool`). Slots and children are paired with
the requests that hold them (`HoldersOK`, `ChildrenOK`), and nothing but a decoding of its own
audio turns into the answer of a job, whatever queue it lies in (`MailOK`): an answer that comes
after its caller gave up, or from a child that was recycled, has nowhere to go. Under the
refinement every step is a start, a decoding, an end or a stutter of `JobPool`; that a job starts
only while there is room is the counting lemma `FreeSlotIsRoom`. Assumption: `PoolAssumption`.

### Audio, chunks and the final transcription

`TranscriptionProofs` has four parts.

`AudioIsSound` (`AudioSound`) and `OnlyWholeIsPublished` (`PublishedIsWhole`), for any sessions,
windows, sizes, caps and finishes. The second is the harder one: the code compares numbers of
samples, and the property speaks of windows and their places. A session holds one version of a
window or is cancelled (`EntriesOK`), a thread has what the store held (`HandedOK`), and a set of
unaltered windows with as many samples as the set of all that have any is the whole of it
(`SamplesMiss`); lengths are otherwise arbitrary, also those of altered versions. What a label's
range is follows from the samples before the window and from how the division by `PerMs` grows
(`DivGrows`, `SpanOf`). That the fold by which `Samples` adds up is defined, and that its
value does not depend on the order of the windows (`FoldExists`, `SamplesOf`, `SamplesAdd`), is
proved by the smallest counterexample: the induction theorems of the library take an operator and
cannot be used, its theorem on well-founded relations can (`Least`, `Smallest`). Hypothesis:
`SessionAssumption`.

`FinalIsSound` (`FinalSound`), for any jobs, batches, texts and faults: the invariant says
which jobs the thread has before it and how many events of the one in its hand are out
(`HowMany`), and `MergedKeeps` says of `merge_transcripts` that its result begins with the
committed text and ends with the final chunk, whatever overlap it finds. Hypothesis:
`FinalAssumption`.

`ChunkIsSound` (`ChunkSound`), for any partitions, batches, consumers, failures and deaths: a
consumer has only entries the group delivered, several consumers may have the same one, and
the one it is about to acknowledge is handled or invalid (`HostsOK`); so it does no harm
that an entry was claimed by another consumer meanwhile. That reading skips no entry although
it takes the oldest of a batch only is `ReadKeeps`. Hypothesis: `ChunkAssumption`.

`ConfirmedStays` (`ConfirmedIsKept`) and `RepeatsAreDropped` (`OnlyRepeatsAreDropped`), for any
words, forms of words, lengths and decodes. The invariant (`WordsOK`) is only that the texts are
texts; what is proved is what the operations on them keep. Of a draft: what is prepared ends
with the confirmed words (`PreparedKeeps`), what is promoted comes after them (`PromotedKeeps`), so
in each of the ten cases of `Stabilized` they are inside (`StabilizedKeeps`, `RunInside`). Of a
final: an overlap of n words means that the last n families of the one text are the first n of
the other (`SpeechOverlapIs`), and n words are cut. That counting normalized words and cutting
raw ones is the same holds only if each raw word normalizes to one (`NormalizedOnes`), so this
is a hypothesis of the second theorem, `OneWordEach`; the run `LiveText` checks words of this
kind, and `CompoundWords` shows that without it the property is false. Both: `RollingAssumption`.
`FlattenIsFlat` and `FlatSteps` unfold the recursion of the library's `FlattenSeq`, whose being
defined is `FlatExists`.

`AudioIsSound` counts on nothing a kill does: a child that survives it is in `survivors` and no
longer in anybody's hand.

`MCLiveText` and `LiveText` assert the hypotheses of their constants.

### Model-checked only

* Liveness (`PendingIsSettled`, `EventReachesMeeting`, `TimelyDecided`, `Upgrades`,
  `CallsReturn`, `Recovers`, `EofEnds`, `RequestEnds`, `FinishEnds`, `ChunksHandled`) and with it
  fairness and `ENABLED`: outside the prover's reach.
* The properties the code violates (section 6), which only a run can show.

## 6. Where the documentation and the code differ

Each has a run whose counterexample shows it; the quotations are in `PROJECT.json`, `findings`.

* `FinalPending`: final-stt leaves a job whose publication failed pending "for retry", and
  nothing reads pending entries.
* `CompoundWords`: the overlap of two finals is counted in normalized words and cut in raw ones;
  with an apostrophe these differ, and new words go with the repeated ones.
* `FusedSummary`: summary sentences chosen by number are joined and split again by another
  splitter; without full stops they fuse into one claim, and the summary is withheld.
* `EofRace`: the loop takes its cancellation at EOF for that of the draft it waits for and
  commits; the terminal pipeline does not join it and sends the same audio as a second final.

Four more are described by hazards or comments and have no run of their own: a diarization child
that is alive after kill and `kill_grace_sec` is let go of and the semaphore released, so the next
batch may load "a third resident model" beside it (`session_diarization_runner.py:6-9`, `:209-212`;
`survivors` in `SessionAudio`); the entries `XAUTOCLAIM` drops before they are recorded, the
publication mark that is not fenced, and the attempt limit that a crash can overrun by one.

## 7. Not modelled, and the plan

Not modelled, and why:

* redaction, prompts, timestamps and due dates, the mock analyzer, the hallucination filters,
  the assignment of speakers to windows, the diff of a revision: functions over text or numbers
  that share no state with anything else;
* the diarization service: a request handler around an external model;
* GPU-host deployment (PowerShell and permit scripts), object storage: configuration and
  installation of services;
* evidence and evaluation gates, smoke tests and measurement scripts: offline programs over files;
* metrics, logging, health payloads, request parsing and authorization;
* code without a caller: `store.cancel`, `_merge_rolling_partial`, `_select_partial_text`,
  `transcribe_array` of the supervised model.

Open hazards, also in `PROJECT.json`: the unfenced `mark_dlq_published` and the deleted ids of
`XAUTOCLAIM` have the step in the model but no promise in the code that a property could state;
the shared supervisor that dies with nobody waiting stays dead until a job misses its deadline;
a SQLite error that ends the only delivery task of a process is in the model (`StoreError`), but
nothing in the code restarts the task, so nothing can be promised (with two processes the other
one delivers, which is why `TimelyDecided` holds).

`RequestEnds` leaves out the shared pool without a deadline once its supervisor is dead. The
batch endpoint calls that pool so (`live/api/transcribe.py:295-298`), and nothing ends the wait in
the pool then. The default is the process pool, which gets the deadline. Smaller omissions: the
cap on the length of a live menu (`mai/live_context.py:50`), the cancellation of a single caller
while it closes a retired pool (`mai/meeting_service_client.py:203-207`; at shutdown it is
modelled), an XADD that never returns.

Every safety property that a passing run checks is a theorem. Planned next are the parts of the
model no property speaks about yet, first the hazards above.
