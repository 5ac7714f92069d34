------------------------- MODULE ReadyEventConsumer -------------------------
(***************************************************************************)
(* The canonical transcript-ready consumer of meeting-ai-service: consumer *)
(* processes read `meeting.transcript.ready' records from a Redis Stream   *)
(* consumer group, claim the event in a SQLite inbox under a lease, analyse*)
(* the transcript, commit the result to the delivery outbox in the same    *)
(* SQLite transaction that closes the inbox row, and only then acknowledge *)
(* the Redis record.  Each SQLite transaction and each Redis command is one*)
(* action; everything a process keeps in memory between two of them is in  *)
(* `worker', and is lost when the process stops.                           *)
(*                                                                         *)
(* Time is relative to the present: every stored deadline and every        *)
(* captured timestamp is kept as its distance to now, and Tick moves them  *)
(* all one unit into the past.  A deadline further back than MaxStampAge   *)
(* is in the past of every timestamp a process can still hold, so it stays *)
(* at that floor; the state space is finite and time never has to stop.    *)
(***************************************************************************)
EXTENDS Integers, FiniteSets

CONSTANTS
  Messages,       \* Redis stream entry ids
  Events,         \* ready events; an event stands for its lookup key and run id
  Hashes,         \* exact payload digests
  Body,           \* Body[m] = [kind, event, hash]: what entry m carries
  Consumers,      \* consumer processes of the group
  Tokens,         \* lease tokens (secrets.token_hex)
  None,           \* SQL NULL / Python None
  MaxFailures,    \* ready_consumer_max_failures
  InboxMaxRows,   \* ready_consumer_inbox_max_rows
  OutboxMaxRows,  \* ingestion_max_rows
  LeaseTicks,     \* ready_consumer_lease_sec
  BackoffTicks,   \* the delay before a retry
  MaxStampAge,    \* bound: how far a captured timestamp may lag behind now
  MaxFaults       \* bound: process stops and failed Redis commands

Kinds == {"ready", "foreign", "malformed"}

\* Error codes of entries that carry no usable event; an entry read back empty,
\* because its source is gone, is taken for a malformed one.
PoisonCodes == {"invalid", "emptied", "source_deleted"}

ErrorCodes == {"conflict", "previously_dead", "retries_exhausted", "terminal"} \cup PoisonCodes

\* What Settings enforces of the limits.
ConstantsAssumption ==
  /\ Body \in [Messages -> [kind : Kinds, event : Events, hash : Hashes]]
  /\ Messages \cap Events = {}
  /\ None \notin Messages \cup Tokens \cup Hashes \cup ErrorCodes
  /\ MaxFailures \in Nat \ {0}
  /\ InboxMaxRows \in Nat \ {0} /\ OutboxMaxRows \in Nat \ {0}
  /\ LeaseTicks \in Nat \ {0} /\ BackoffTicks \in Nat
  /\ MaxStampAge \in Nat /\ MaxFaults \in Nat

\* A fresh token can always be drawn: one per row and per process is in use.
TokensAssumption ==
  \/ Cardinality(Tokens) >= InboxMaxRows + Cardinality(Consumers)
  \/ Cardinality(Tokens) >= Cardinality(Events) + Cardinality(Consumers)

VARIABLES
  inbox,      \* meeting_transcript_ready_inbox, by lookup key
  outbox,     \* events whose result row is in analysis_delivery_outbox
  msgs,       \* where each stream entry is with respect to the group
  dlq,        \* the dead-letter stream, deduplicated by dlqKey
  worker,     \* what each consumer process holds in memory
  faults,     \* faults spent so far
  committed,  \* history: events whose result was committed at least once
  delivered,  \* history: events whose result row was deleted as delivered
  released    \* history: keys whose row was rearmed by an operator or pruned

vars == <<inbox, outbox, msgs, dlq, worker, faults, committed, delivered, released>>

-----------------------------------------------------------------------------
(* Rows, workers and messages. *)

\* A poison row is kept under the key "invalid|<message id>".
Keys == Events \cup Messages

RowStates == {"ABSENT", "RECEIVED", "PROCESSING", "OUTBOXED", "DEAD"}
DeadReasons == {"RETRY_EXHAUSTED", "TERMINAL", "CONFLICT", "POISON"}
Open == {"RECEIVED", "PROCESSING"}
Terminal == {"OUTBOXED", "DEAD"}

\* availableAt is lease_until of a PROCESSING row and next_attempt_at of a
\* RECEIVED one: the column that decides when the row may be claimed.
Row == [state : RowStates, hash : Hashes \cup {"empty", None}, failures : 0..MaxFailures,
        availableAt : Int, token : Tokens \cup {None},
        reason : DeadReasons \cup {None}, published : BOOLEAN]

AbsentRow == [state |-> "ABSENT", hash |-> None, failures |-> 0, availableAt |-> 0,
              token |-> None, reason |-> None, published |-> FALSE]

DeadRow(hash, reason, failures, published) ==
  [state |-> "DEAD", hash |-> hash, failures |-> failures, availableAt |-> 0,
   token |-> None, reason |-> reason, published |-> published]

WaitingRow(hash, failures, at) ==
  [state |-> "RECEIVED", hash |-> hash, failures |-> failures, availableAt |-> at,
   token |-> None, reason |-> None, published |-> FALSE]

LeasedRow(hash, failures, until, token) ==
  [state |-> "PROCESSING", hash |-> hash, failures |-> failures, availableAt |-> until,
   token |-> token, reason |-> None, published |-> FALSE]

OutboxedRow(hash, failures) ==
  [state |-> "OUTBOXED", hash |-> hash, failures |-> failures, availableAt |-> 0,
   token |-> None, reason |-> None, published |-> FALSE]

MessageStates == {"unsent", "stream", "pending", "orphaned", "purged", "acked"}

Pcs == {"idle", "poison", "check", "claim", "work", "commit", "fail", "kill",
        "defer", "publish", "mark", "ack"}

\* The settling transactions; the steps that deal with a ready event; those that
\* lead to a dead-letter entry.
Settling == {"commit", "fail", "kill", "defer"}
Handling == {"check", "claim", "work"} \cup Settling
DeadLettering == {"poison", "publish", "mark"}

\* Steps that hold a timestamp taken before they get the SQLite lock.
Stamped == {"claim"} \cup Settling

Worker == [pc : Pcs, msg : Messages \cup {None}, stamp : Int, token : Tokens \cup {None},
           code : ErrorCodes \cup {None}]

WorkerAt(pc, m, token, code) ==
  [pc |-> pc, msg |-> m, stamp |-> 0, token |-> token, code |-> code]

IdleWorker == WorkerAt("idle", None, None, None)

\* The key of the row a worker is dealing with.
KeyOf(c) ==
  LET m == worker[c].msg
  IN  IF Body[m].kind = "ready" /\ worker[c].code \notin PoisonCodes
      THEN Body[m].event ELSE m

RowCount == Cardinality({k \in Keys : inbox[k].state # "ABSENT"})

InboxHasRoom == RowCount < InboxMaxRows

LiveTokens == {inbox[k].token : k \in Keys} \cup {worker[c].token : c \in Consumers}

-----------------------------------------------------------------------------
(* How a worker moves on. *)

\* Begin with a message.
PickUp(c, m, pc, code) == worker' = [worker EXCEPT ![c] = WorkerAt(pc, m, None, code)]

\* Go on with the message; a step that needs time.time() takes it now.
GoTo(c, pc) ==
  worker' = [worker EXCEPT ![c] = WorkerAt(pc, @.msg, @.token, @.code)]

\* Stop handling the message; it stays where it is in Redis.
Leave(c) == worker' = [worker EXCEPT ![c] = IdleWorker]

\* Mutant: a busy event is acknowledged.
AckBusy(c) == GoTo(c, "ack")

\* A busy event stays pending; the next scan comes back to it.
KeepPending(c) == Leave(c)

\* Mutant: the error code is not carried to the dead-letter entry.
DeadLetterWithoutCode(c, code, alreadyPublished) ==
  worker' = [worker EXCEPT ![c] =
               WorkerAt(IF alreadyPublished THEN "ack" ELSE "publish", @.msg, None, @.code)]

\* Mutant: the entry is acknowledged without being published.
DeadLetterUnpublished(c, code, alreadyPublished) ==
  worker' = [worker EXCEPT ![c] = WorkerAt("ack", @.msg, None, code)]

\* _dead_letter_and_ack: publish unless the row says it was published.
DeadLetter(c, code, alreadyPublished) ==
  worker' = [worker EXCEPT ![c] =
               WorkerAt(IF alreadyPublished THEN "ack" ELSE "publish", @.msg, None, code)]

history == <<committed, delivered, released>>

-----------------------------------------------------------------------------
(* Redis: the producer, the stream and the group. *)

\* The producer appends or replays an event.  Replays stop when the retention
\* of the row has run out (retention >= replay horizon is enforced).
Produce(m) ==
  /\ msgs[m] = "unsent"
  /\ Body[m].kind = "ready" => (inbox[Body[m].event].state # "ABSENT"
                                \/ Body[m].event \notin released)
  /\ msgs' = [msgs EXCEPT ![m] = "stream"]
  /\ UNCHANGED <<inbox, outbox, dlq, worker, faults, history>>

\* Stream trimming removes an entry that is still pending in the group.
TrimSource(m) ==
  /\ msgs[m] = "pending"
  /\ faults < MaxFaults
  /\ faults' = faults + 1
  /\ msgs' = [msgs EXCEPT ![m] = "orphaned"]
  /\ UNCHANGED <<inbox, outbox, dlq, worker, history>>

\* XREADGROUP of a new entry, the scan of the process's own pending entries, or
\* XAUTOCLAIM of an idle one.  What process_message does with the entry depends
\* on its type and contract; it may wait in the batch for any time before that.
Take(c, m) ==
  /\ worker[c].pc = "idle"
  /\ msgs[m] \in {"stream", "pending"}
  /\ msgs' = [msgs EXCEPT ![m] = "pending"]
  /\ \/ Body[m].kind = "ready" /\ PickUp(c, m, "check", None)
     \/ Body[m].kind = "foreign" /\ PickUp(c, m, "ack", None)
     \/ Body[m].kind = "malformed" /\ PickUp(c, m, "poison", "invalid")
  /\ UNCHANGED <<inbox, outbox, dlq, faults, history>>

\* XAUTOCLAIM of an entry whose source is gone: Redis drops it from the pending
\* list and only reports its id.
TakeDeleted(c, m) ==
  /\ worker[c].pc = "idle"
  /\ msgs[m] = "orphaned"
  /\ msgs' = [msgs EXCEPT ![m] = "purged"]
  /\ PickUp(c, m, "poison", "source_deleted")
  /\ UNCHANGED <<inbox, outbox, dlq, faults, history>>

\* A scan of the process's own pending entries meets one whose source is gone:
\* Redis answers with the id and no fields.
TakeEmptied(c, m) ==
  /\ worker[c].pc = "idle"
  /\ msgs[m] = "orphaned"
  /\ PickUp(c, m, "poison", "emptied")
  /\ UNCHANGED <<inbox, outbox, msgs, dlq, faults, history>>

-----------------------------------------------------------------------------
(* SQLite: claiming. *)

\* record_poison: a DEAD row for a message that carries no usable event.
PoisonHash(c) ==
  IF worker[c].code \in {"emptied", "source_deleted"} THEN "empty" ELSE Body[worker[c].msg].hash

RecordPoison(c) ==
  LET k == worker[c].msg
      r == inbox[k]
  IN  /\ worker[c].pc = "poison"
      /\ \/ /\ r.state = "ABSENT" /\ InboxHasRoom
            /\ inbox' = [inbox EXCEPT ![k] = DeadRow(PoisonHash(c), "POISON", 0, FALSE)]
            /\ DeadLetter(c, worker[c].code, FALSE)
         \/ /\ r.state # "ABSENT" /\ r.hash = PoisonHash(c)
            /\ DeadLetter(c, worker[c].code, r.published)
            /\ UNCHANGED inbox
         \/ \* the inbox is full, or the message id was recorded with another digest
            /\ IF r.state = "ABSENT" THEN ~InboxHasRoom ELSE r.hash # PoisonHash(c)
            /\ Leave(c)
            /\ UNCHANGED inbox
      /\ UNCHANGED <<outbox, msgs, dlq, faults, history>>

\* A row that cannot be claimed yet at the timestamp t.
Unavailable(r, t) == r.state \in Open /\ r.availableAt > t

\* register_and_claim takes its timestamp; _read_only_busy_claim is a plain read
\* before the writer lock.
BusyCheck(c) ==
  LET r == inbox[KeyOf(c)]
  IN  /\ worker[c].pc = "check"
      /\ IF r.hash = Body[worker[c].msg].hash /\ Unavailable(r, 0)
         THEN KeepPending(c) ELSE GoTo(c, "claim")
      /\ UNCHANGED <<inbox, outbox, msgs, dlq, faults, history>>

\* The claim transaction closes the row for good when the payload differs from
\* the recorded one, whatever state the row is in.
ClaimConflict(c) ==
  LET k == KeyOf(c)
      r == inbox[k]
      known == r.state = "DEAD" /\ r.reason = "CONFLICT" /\ r.published
  IN  /\ worker[c].pc = "claim"
      /\ r.state # "ABSENT" /\ r.hash # Body[worker[c].msg].hash
      /\ inbox' = [inbox EXCEPT ![k] = DeadRow(r.hash, "CONFLICT", r.failures, known)]
      /\ DeadLetter(c, "conflict", known)
      /\ UNCHANGED <<outbox, msgs, dlq, faults, history>>

\* A replay of a finished event, an event that is not available yet, or a new
\* event that finds the inbox full: nothing is written.
ClaimRefused(c) ==
  LET r == inbox[KeyOf(c)]
  IN  /\ worker[c].pc = "claim"
      /\ r.state # "ABSENT" => r.hash = Body[worker[c].msg].hash
      /\ \/ r.state = "OUTBOXED" /\ GoTo(c, "ack")
         \/ r.state = "DEAD" /\ DeadLetter(c, "previously_dead", r.published)
         \/ Unavailable(r, worker[c].stamp) /\ KeepPending(c)
         \/ r.state = "ABSENT" /\ ~InboxHasRoom /\ Leave(c)
      /\ UNCHANGED <<inbox, outbox, msgs, dlq, faults, history>>

\* Mutant: an expired lease is never reclaimed.
DueReceivedOnly(r, t) == r.state = "RECEIVED" /\ ~Unavailable(r, t)

\* Mutant: a finished event is claimed again.
DueAgain(r, t) == r.state \in Open \cup {"OUTBOXED"} /\ ~Unavailable(r, t)

\* A retry whose time has come, or a lease that has expired.
Due(r, t) == r.state \in Open /\ ~Unavailable(r, t)

\* Mutant: one failure more than the budget.
ExhaustedLate(r) == r.failures + 1 > MaxFailures

\* One more failure would spend the budget.
Exhausted(r) == r.failures + 1 >= MaxFailures

\* Reclaiming an expired lease spends one failure; the last one closes the row.
ClaimExhausted(c) ==
  LET k == KeyOf(c)
      r == inbox[k]
  IN  /\ worker[c].pc = "claim"
      /\ r.hash = Body[worker[c].msg].hash
      /\ Due(r, worker[c].stamp) /\ r.state = "PROCESSING" /\ Exhausted(r)
      /\ inbox' = [inbox EXCEPT ![k] =
                      DeadRow(r.hash, "RETRY_EXHAUSTED", r.failures + 1, r.published)]
      /\ DeadLetter(c, "previously_dead", r.published)
      /\ UNCHANGED <<outbox, msgs, dlq, faults, history>>

\* A new, a due or an expired row is leased under a fresh token, until the
\* caller's timestamp plus the lease.
Claim(c) ==
  LET k == KeyOf(c)
      h == Body[worker[c].msg].hash
      r == inbox[k]
      spent == IF r.state = "PROCESSING" THEN r.failures + 1 ELSE r.failures
  IN  /\ worker[c].pc = "claim"
      /\ \/ r.state = "ABSENT" /\ InboxHasRoom
         \/ /\ Due(r, worker[c].stamp) /\ r.hash = h
            /\ r.state = "PROCESSING" => ~Exhausted(r)
      /\ \E t \in Tokens \ LiveTokens :
           /\ inbox' = [inbox EXCEPT ![k] =
                           LeasedRow(h, spent, worker[c].stamp + LeaseTicks, t)]
           /\ worker' = [worker EXCEPT ![c] = WorkerAt("work", @.msg, t, None)]
      /\ UNCHANGED <<outbox, msgs, dlq, faults, history>>

-----------------------------------------------------------------------------
(* Processing a claimed event: fetch the snapshot, analyse, settle the row. *)

\* A result to commit, a retryable error or a terminal one; the settling call
\* takes its timestamp here.
FinishWork(c) ==
  /\ worker[c].pc = "work"
  /\ \E next \in {"commit", "fail", "kill"} : GoTo(c, next)
  /\ UNCHANGED <<inbox, outbox, msgs, dlq, faults, history>>

\* Mutant: the token is not compared.
FencedByTime(c) ==
  LET r == inbox[KeyOf(c)]
  IN  r.state = "PROCESSING" /\ r.availableAt > worker[c].stamp

\* The lease fence of every settling transaction.
Fenced(c) ==
  LET r == inbox[KeyOf(c)]
  IN  r.state = "PROCESSING" /\ r.token = worker[c].token /\ r.availableAt > worker[c].stamp

\* ReadyInboxLeaseLostError: another process owns the event now.
LeaseLost(c) ==
  /\ worker[c].pc \in Settling
  /\ ~Fenced(c)
  /\ Leave(c)
  /\ UNCHANGED <<inbox, outbox, msgs, dlq, faults, history>>

OutboxAfterCommit(e) == outbox \cup {e}

\* commit_outboxed: the result row and OUTBOXED in one transaction, rolled back
\* when the outbox refuses the row.  A payload carries the time it was generated,
\* so a row that is already there conflicts with it.
CommitOutboxed(c) ==
  LET e == KeyOf(c)
  IN  /\ worker[c].pc = "commit" /\ Fenced(c)
      /\ IF e \in outbox \/ Cardinality(outbox) >= OutboxMaxRows
         THEN /\ GoTo(c, IF e \in outbox THEN "kill" ELSE "defer")
              /\ UNCHANGED <<inbox, outbox, committed>>
         ELSE /\ inbox' = [inbox EXCEPT ![e] = OutboxedRow(@.hash, @.failures)]
              /\ outbox' = OutboxAfterCommit(e)
              /\ committed' = committed \cup {e}
              /\ worker' = [worker EXCEPT ![c] = WorkerAt("ack", @.msg, None, None)]
      /\ UNCHANGED <<msgs, dlq, faults, delivered, released>>

\* mark_failure: one failure spent; the row waits for its retry or is dead.
MarkFailure(c) ==
  LET k == KeyOf(c)
      r == inbox[k]
  IN  /\ worker[c].pc = "fail" /\ Fenced(c)
      /\ \/ /\ Exhausted(r)
            /\ inbox' = [inbox EXCEPT ![k] =
                            DeadRow(r.hash, "RETRY_EXHAUSTED", r.failures + 1, r.published)]
            /\ DeadLetter(c, "retries_exhausted", FALSE)
         \/ /\ ~Exhausted(r)
            /\ inbox' = [inbox EXCEPT ![k] =
                            WaitingRow(r.hash, r.failures + 1, worker[c].stamp + BackoffTicks)]
            /\ Leave(c)
      /\ UNCHANGED <<outbox, msgs, dlq, faults, history>>

\* mark_dead: a terminal contract error.
MarkDead(c) ==
  LET k == KeyOf(c)
  IN  /\ worker[c].pc = "kill" /\ Fenced(c)
      /\ inbox' = [inbox EXCEPT ![k] = DeadRow(@.hash, "TERMINAL", @.failures, @.published)]
      /\ DeadLetter(c, "terminal", FALSE)
      /\ UNCHANGED <<outbox, msgs, dlq, faults, history>>

\* defer_without_failure: a full outbox costs no attempt.
Defer(c) ==
  LET k == KeyOf(c)
  IN  /\ worker[c].pc = "defer" /\ Fenced(c)
      /\ inbox' = [inbox EXCEPT ![k] =
                      WaitingRow(@.hash, @.failures, worker[c].stamp + BackoffTicks)]
      /\ Leave(c)
      /\ UNCHANGED <<outbox, msgs, dlq, faults, history>>

-----------------------------------------------------------------------------
(* Dead letters and acknowledgement. *)

PublishedCode(code) == IF code = "emptied" THEN "invalid" ELSE code

\* XADD to the dead-letter stream, after lookup_fingerprint found the row.
PublishDeadLetter(c) ==
  LET k == KeyOf(c)
  IN  /\ worker[c].pc = "publish"
      /\ IF inbox[k].state = "ABSENT"
         THEN Leave(c) /\ UNCHANGED dlq
         ELSE /\ dlq' = dlq \cup {[key |-> k, msg |-> worker[c].msg,
                                    code |-> PublishedCode(worker[c].code)]}
              /\ GoTo(c, "mark")
      /\ UNCHANGED <<inbox, outbox, msgs, faults, history>>

\* mark_dlq_published: any DEAD row of the key, whoever declared it dead.
MarkDlqPublished(c) ==
  LET k == KeyOf(c)
  IN  /\ worker[c].pc = "mark"
      /\ IF inbox[k].state = "DEAD"
         THEN inbox' = [inbox EXCEPT ![k].published = TRUE] /\ GoTo(c, "ack")
         ELSE Leave(c) /\ UNCHANGED inbox
      /\ UNCHANGED <<outbox, msgs, dlq, faults, history>>

\* XACK; of an entry that is no longer pending it does nothing.
Ack(c) ==
  /\ worker[c].pc = "ack"
  /\ msgs' = IF msgs[worker[c].msg] \in {"pending", "orphaned"}
             THEN [msgs EXCEPT ![worker[c].msg] = "acked"] ELSE msgs
  /\ Leave(c)
  /\ UNCHANGED <<inbox, outbox, dlq, faults, history>>

\* The process stops, or a Redis command or the store fails: what the worker
\* held in memory is gone, what it committed stays.
Abandon(c) ==
  /\ worker[c].pc # "idle"
  /\ faults < MaxFaults
  /\ faults' = faults + 1
  /\ Leave(c)
  /\ UNCHANGED <<inbox, outbox, msgs, dlq, history>>

-----------------------------------------------------------------------------
(* The operator, the maintenance of the inbox, the delivery worker, time. *)

Rearmable(e) ==
  /\ inbox[e].state = "DEAD" /\ inbox[e].reason = "RETRY_EXHAUSTED" /\ inbox[e].published
  /\ e \notin outbox

\* rearm_retry_exhausted_by_fingerprint.
Rearm(e) ==
  /\ Rearmable(e)
  /\ inbox' = [inbox EXCEPT ![e] = WaitingRow(@.hash, 0, 0)]
  /\ released' = released \cup {e}
  /\ UNCHANGED <<outbox, msgs, dlq, worker, faults, committed, delivered>>

\* Mutant: rows are pruned while their result is still in the outbox.
PrunableWithResult(k) ==
  inbox[k].state = "OUTBOXED" \/ (inbox[k].state = "DEAD" /\ inbox[k].published)

\* Mutant: only dead letters are pruned.
PrunablePublished(k) == inbox[k].state \in Terminal /\ inbox[k].published /\ k \notin outbox

Prunable(k) ==
  /\ inbox[k].state \in Terminal
  /\ inbox[k].state = "OUTBOXED" \/ inbox[k].published
  /\ k \notin outbox

\* prune_terminal: the retention of a terminal row has run out.
Prune(k) ==
  /\ Prunable(k)
  /\ inbox' = [inbox EXCEPT ![k] = AbsentRow]
  /\ released' = released \cup {k}
  /\ UNCHANGED <<outbox, msgs, dlq, worker, faults, committed, delivered>>

\* The delivery worker deletes the row of a result meeting-service has stored.
DeliverResult(e) ==
  /\ e \in outbox
  /\ outbox' = outbox \ {e}
  /\ delivered' = delivered \cup {e}
  /\ UNCHANGED <<inbox, msgs, dlq, worker, faults, committed, released>>

Earlier(t) == IF t > -MaxStampAge THEN t - 1 ELSE t

\* Time passes.  No timestamp is held longer than MaxStampAge.
Tick ==
  /\ \A c \in Consumers : worker[c].pc \in Stamped => worker[c].stamp > -MaxStampAge
  /\ \/ \E c \in Consumers : worker[c].pc \in Stamped
     \/ \E k \in Keys : inbox[k].state \in Open /\ inbox[k].availableAt > -MaxStampAge
  /\ inbox' = [k \in Keys |-> IF inbox[k].state \in Open
                              THEN [inbox[k] EXCEPT !.availableAt = Earlier(@)] ELSE inbox[k]]
  /\ worker' = [c \in Consumers |-> IF worker[c].pc \in Stamped
                                    THEN [worker[c] EXCEPT !.stamp = Earlier(@)] ELSE worker[c]]
  /\ UNCHANGED <<outbox, msgs, dlq, faults, history>>

-----------------------------------------------------------------------------
Init ==
  /\ inbox = [k \in Keys |-> AbsentRow]
  /\ outbox = {}
  /\ msgs = [m \in Messages |-> "unsent"]
  /\ dlq = {}
  /\ worker = [c \in Consumers |-> IdleWorker]
  /\ faults = 0
  /\ committed = {} /\ delivered = {} /\ released = {}

\* The steps a process takes with a message in hand.
Process(c) ==
  \/ RecordPoison(c) \/ BusyCheck(c)
  \/ ClaimConflict(c) \/ ClaimRefused(c) \/ ClaimExhausted(c) \/ Claim(c)
  \/ FinishWork(c) \/ LeaseLost(c)
  \/ CommitOutboxed(c) \/ MarkFailure(c) \/ MarkDead(c) \/ Defer(c)
  \/ PublishDeadLetter(c) \/ MarkDlqPublished(c) \/ Ack(c)

Next ==
  \/ \E m \in Messages : Produce(m) \/ TrimSource(m)
  \/ \E c \in Consumers, m \in Messages : Take(c, m) \/ TakeDeleted(c, m) \/ TakeEmptied(c, m)
  \/ \E c \in Consumers : Process(c) \/ Abandon(c)
  \/ \E e \in Events : Rearm(e) \/ DeliverResult(e)
  \/ \E k \in Keys : Prune(k)
  \/ Tick

Spec == Init /\ [][Next]_vars

-----------------------------------------------------------------------------
(* Type invariant. *)

\* A worker that is not idle has a message in hand, one that deals with an event
\* has a ready entry and no error, one that dead-letters has an error code.
Equipped(w) ==
  /\ w.pc # "idle" => w.msg \in Messages
  /\ w.pc \in Handling => Body[w.msg].kind = "ready" /\ w.code = None
  /\ w.pc \in DeadLettering => w.code # None

WorkersOK == worker \in [Consumers -> Worker] /\ \A c \in Consumers : Equipped(worker[c])

\* Every variable holds what its table or its Redis structure can hold.
TypeOK ==
  /\ inbox \in [Keys -> Row]
  /\ outbox \subseteq Events
  /\ msgs \in [Messages -> MessageStates]
  /\ dlq \subseteq [key : Keys, msg : Messages, code : ErrorCodes]
  /\ WorkersOK
  /\ faults \in 0..MaxFaults
  /\ committed \subseteq Events /\ delivered \subseteq Events /\ released \subseteq Keys

(* Safety. *)

\* A retained result belongs to an event that is closed as OUTBOXED, or was
\* closed so and then met a conflicting payload: no event with a result in the
\* outbox can be claimed, analysed, rearmed or forgotten.  This is what makes
\* OutboxConflictError unreachable from commit_outboxed.
ResultOnlyOfClosedEvent ==
  \A e \in outbox :
    \/ inbox[e].state = "OUTBOXED"
    \/ inbox[e].state = "DEAD" /\ inbox[e].reason = "CONFLICT"

\* The entry itself was recorded as unusable.
RecordedPoison(m) == inbox[m].state = "DEAD" \/ m \in released

\* "never acknowledge before durable terminal state": the event of an acknowledged
\* entry is closed, or was until an operator rearmed it or its retention ran
\* out; an entry that could not be read is itself recorded as poison.
AckedIsDecided ==
  \A m \in Messages :
    msgs[m] = "acked" /\ Body[m].kind # "foreign" =>
      \/ RecordedPoison(m)
      \/ /\ Body[m].kind = "ready"
         /\ inbox[Body[m].event].state \in Terminal \/ Body[m].event \in released

\* A dead event that is not in the dead-letter stream yet still has an entry
\* in Redis whose redelivery will put it there.  Exempt are a rearmed event and
\* one whose entry lost its source: that entry is only dead-lettered as poison.
UnpublishedHasCarrier ==
  \A e \in Events \ released :
    inbox[e].state = "DEAD" /\ ~inbox[e].published =>
      \E m \in Messages : /\ Body[m].kind = "ready" /\ Body[m].event = e
                          /\ msgs[m] \in {"pending", "orphaned", "purged"} \/ RecordedPoison(m)

\* At most one process can settle an event, however late the others are.
OneSettler ==
  \A c, d \in Consumers :
    /\ {worker[c].pc, worker[d].pc} \subseteq Settling
    /\ KeyOf(c) = KeyOf(d) /\ Fenced(c) /\ Fenced(d)
    => c = d

\* Failures and expired leases share one budget: an event that can still be
\* claimed has budget left, and one dead of exhaustion has spent all of it.
FailureBudget ==
  \A k \in Keys :
    /\ inbox[k].state \in Open => inbox[k].failures < MaxFailures
    /\ inbox[k].reason = "RETRY_EXHAUSTED" /\ inbox[k].state = "DEAD"
       => inbox[k].failures = MaxFailures

(* Action properties. *)

\* One result per event: a second one is committed only after the event's row
\* was pruned or rearmed in between.
CommittedOnce ==
  [][\A e \in Events : e \in outbox' \ outbox => e \notin committed \/ e \in released]_vars

(* Liveness. *)

\* The worker loop keeps running and every scan reaches every pending entry;
\* analyses end (request_timeout); results go on leaving the outbox, maintenance
\* goes on pruning; time is not held up.  Nothing is assumed of the producer, of
\* the operator, of trimming or of faults.
Fairness ==
  /\ \A c \in Consumers : WF_vars(Process(c))
  /\ \A m \in Messages : SF_vars(\E c \in Consumers : Take(c, m))
  /\ SF_vars(\E c \in Consumers, m \in Messages : TakeDeleted(c, m))
  /\ WF_vars(\E e \in Events : DeliverResult(e))
  /\ WF_vars(\E k \in Keys : Prune(k))
  /\ SF_vars(Tick)

FairSpec == Spec /\ Fairness

\* The key under which an entry that still has its source is recorded.
OwnKey(m) == IF Body[m].kind = "ready" THEN Body[m].event ELSE m

\* A row that keeps its place for good: only a redelivery could close or publish
\* it, and no entry of its key is left in the stream or in the group.
Forsaken(k) ==
  /\ inbox[k].state \in Open \/ (inbox[k].state = "DEAD" /\ ~inbox[k].published)
  /\ \A m \in Messages : OwnKey(m) = k => msgs[m] \notin {"stream", "pending"}

\* An entry that has no row, while the inbox is full of forsaken ones.
Crowded(m) ==
  /\ ~InboxHasRoom /\ inbox[OwnKey(m)].state = "ABSENT"
  /\ \A k \in Keys : inbox[k].state # "ABSENT" => Forsaken(k)

\* Every entry the group has read leaves its pending list: analysed, refused
\* or dead-lettered, whatever stops, expires or is retried on the way.  A full
\* inbox only makes it wait.  The one exception is an inbox that stays full of
\* rows no entry is left for: rearmed events nobody replays, and rows whose
\* entries were trimmed before they were closed or published.  prune_terminal
\* never takes those, and new events are refused until an operator acts.
PendingIsSettled ==
  \A m \in Messages :
    msgs[m] = "pending" ~> (msgs[m] \in {"acked", "purged"} \/ []Crowded(m))

=============================================================================
