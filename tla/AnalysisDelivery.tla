-------------------------- MODULE AnalysisDelivery --------------------------
(***************************************************************************)
(* Durable delivery of analysis results to meeting-service: an encrypted   *)
(* SQLite outbox, one worker loop per process that leases the oldest due   *)
(* row, posts it under its stable run id and settles the row by the        *)
(* outcome.  The HTTP request can be stored by meeting-service although    *)
(* the worker never learns it, or be stored long after the worker gave up. *)
(*                                                                         *)
(* Deadlines are kept as their distance to now (see ReadyEventConsumer).   *)
(* A timestamp is taken before the transaction that uses it, so it may lag *)
(* behind now by up to MaxStampAge.                                        *)
(***************************************************************************)
EXTENDS Integers, Sequences, FiniteSets

CONSTANTS
  Runs,          \* analysis runs
  Workers,       \* delivery workers, one per process
  None,          \* SQL NULL: no owner, or an owner that no longer exists
  MaxAttempts,   \* ingestion_max_attempts
  MaxRows,       \* ingestion_max_rows
  LeaseTicks,    \* ingestion_lease_sec
  BackoffTicks,  \* the delay before a retry
  MaxStampAge,   \* bound: how far a timestamp may lag behind now
  MaxCrashes,    \* bound: process crashes and operator requeues
  MaxStoreErrors \* bound: SQLite errors while a row is settled

DeliveryAssumption ==
  /\ None \notin Workers \cup Runs
  /\ MaxAttempts \in Nat \ {0} /\ MaxRows \in Nat \ {0}
  /\ LeaseTicks \in Nat \ {0} /\ BackoffTicks \in Nat
  /\ MaxStampAge \in Nat /\ MaxCrashes \in Nat /\ MaxStoreErrors \in Nat

VARIABLES
  rows,      \* analysis_delivery_outbox, by run id
  queue,     \* the runs in the outbox, oldest first
  worker,    \* what each delivery worker holds in memory
  late,      \* runs posted by a worker that no longer waits for the answer
  stored,    \* runs meeting-service has persisted
  accepted,  \* history: runs that were ever enqueued
  refused,   \* history: runs some attempt found undeliverable
  crashes,   \* crashes and requeues spent so far
  errors     \* store errors spent so far

vars == <<rows, queue, worker, late, stored, accepted, refused, crashes, errors>>

-----------------------------------------------------------------------------
RowStates == {"ABSENT", "PENDING", "IN_FLIGHT", "DEAD"}
Active == {"PENDING", "IN_FLIGHT"}

\* dueAt is next_attempt_at of a PENDING row and lease_until of an IN_FLIGHT
\* one.  Attempts are told apart up to one more than the limit.
Row == [state : RowStates, attempts : 0..(MaxAttempts + 1), dueAt : Int,
        owner : Workers \cup {None}]

AbsentRow == [state |-> "ABSENT", attempts |-> 0, dueAt |-> 0, owner |-> None]

Pcs == {"idle", "claimed", "posted", "settle", "stopped"}
Verdicts == {"delivered", "retry", "terminal"}

Worker == [pc : Pcs, run : Runs \cup {None}, attempt : 0..(MaxAttempts + 1),
           verdict : Verdicts \cup {None}]

IdleWorker == [pc |-> "idle", run |-> None, attempt |-> 0, verdict |-> None]

Counted(n) == IF n > MaxAttempts THEN n ELSE n + 1

Conclude(w, verdict) ==
  worker' = [worker EXCEPT ![w].pc = "settle", ![w].verdict = verdict]

Leave(w) == worker' = [worker EXCEPT ![w] = IdleWorker]

-----------------------------------------------------------------------------
(* The outbox. *)

\* enqueue_in_transaction, for a run that has no row.
Enqueue(r) ==
  /\ rows[r].state = "ABSENT" /\ Len(queue) < MaxRows
  /\ rows' = [rows EXCEPT ![r] = [AbsentRow EXCEPT !.state = "PENDING"]]
  /\ queue' = Append(queue, r)
  /\ accepted' = accepted \cup {r}
  /\ UNCHANGED <<worker, late, stored, refused, crashes, errors>>

\* Mutant: an expired lease is never taken over.
ClaimablePendingOnly(r, t) == rows[r].state = "PENDING" /\ rows[r].dueAt <= t

\* A due row, or one whose lease has expired, at the timestamp t.
Claimable(r, t) == rows[r].state \in Active /\ rows[r].dueAt <= t

\* claim_next: the oldest claimable row; an attempt is counted as it starts.
Claim(w) ==
  /\ worker[w].pc = "idle"
  /\ \E lag \in 0..MaxStampAge, i \in DOMAIN queue :
       LET r == queue[i]
           n == Counted(rows[r].attempts)
       IN  /\ Claimable(r, -lag)
           /\ \A j \in 1..(i - 1) : ~Claimable(queue[j], -lag)
           /\ rows' = [rows EXCEPT ![r] = [state |-> "IN_FLIGHT", attempts |-> n,
                                           dueAt |-> LeaseTicks - lag, owner |-> w]]
           /\ worker' = [worker EXCEPT ![w] = [pc |-> "claimed", run |-> r, attempt |-> n,
                                               verdict |-> None]]
  /\ UNCHANGED <<queue, late, stored, accepted, refused, crashes, errors>>

-----------------------------------------------------------------------------
(* The attempt: credentials, the request, the answer. *)

\* The payload cannot be decrypted, or no token or no write capability was
\* obtained: the attempt is over before the request is sent.
FailBeforePost(w) ==
  /\ worker[w].pc = "claimed"
  /\ \/ Conclude(w, "retry") /\ UNCHANGED refused
     \/ Conclude(w, "terminal") /\ refused' = refused \cup {worker[w].run}
  /\ UNCHANGED <<rows, queue, late, stored, accepted, crashes, errors>>

Post(w) ==
  /\ worker[w].pc = "claimed"
  /\ worker' = [worker EXCEPT ![w].pc = "posted"]
  /\ UNCHANGED <<rows, queue, late, stored, accepted, refused, crashes, errors>>

\* Mutant: any 2xx answer is taken for an acknowledgement.
ConclusionOfAny2xx(w) ==
  \/ worker[w].run \in stored' /\ Conclude(w, "delivered")
  \/ Conclude(w, "delivered")

\* A 200 or 201 that confirms the stored result ends the delivery; one that does
\* not is ambiguous and is retried, as are 401, 429 and 5xx.
ConclusionOfAnswer(w) ==
  \/ worker[w].run \in stored' /\ Conclude(w, "delivered")
  \/ Conclude(w, "retry")

\* meeting-service answers: it stored the result, it had stored it before, or it
\* stored nothing.
Answer(w) ==
  /\ worker[w].pc = "posted"
  /\ \/ stored' = stored \cup {worker[w].run}
     \/ UNCHANGED stored
  /\ ConclusionOfAnswer(w)
  /\ UNCHANGED <<rows, queue, late, accepted, refused, crashes, errors>>

\* Any other status is final.
AnswerTerminal(w) ==
  /\ worker[w].pc = "posted"
  /\ Conclude(w, "terminal")
  /\ refused' = refused \cup {worker[w].run}
  /\ UNCHANGED <<rows, queue, late, stored, accepted, crashes, errors>>

\* A timeout or a broken connection; the request may still arrive.
Timeout(w) ==
  /\ worker[w].pc = "posted"
  /\ Conclude(w, "retry")
  /\ late' = late \cup {worker[w].run}
  /\ UNCHANGED <<rows, queue, stored, accepted, refused, crashes, errors>>

\* meeting-service stores the result of a request nobody waits for, or never
\* gets it.
LateArrival(r) ==
  /\ r \in late
  /\ late' = late \ {r}
  /\ stored' \in {stored, stored \cup {r}}
  /\ UNCHANGED <<rows, queue, worker, accepted, refused, crashes, errors>>

-----------------------------------------------------------------------------
(* Settling the row. *)

\* Mutant: the owner is not compared.
OwnsAny(w) == rows[worker[w].run].state = "IN_FLIGHT"

\* The fence of every settling statement.
Owns(w) ==
  /\ rows[worker[w].run].state = "IN_FLIGHT"
  /\ rows[worker[w].run].owner = w

Position(r) == CHOOSE i \in DOMAIN queue : queue[i] = r

QueueWithout(r) ==
  [i \in 1..(Len(queue) - 1) |-> queue[IF i < Position(r) THEN i ELSE i + 1]]

\* mark_delivered: the sensitive payload is deleted.
MarkDelivered(w) ==
  LET r == worker[w].run
  IN  /\ worker[w].pc = "settle" /\ worker[w].verdict = "delivered"
      /\ IF Owns(w)
         THEN /\ rows' = [rows EXCEPT ![r] = AbsentRow]
              /\ queue' = QueueWithout(r)
         ELSE UNCHANGED <<rows, queue>>
      /\ Leave(w)
      /\ UNCHANGED <<late, stored, accepted, refused, crashes, errors>>

\* Mutant: the row is given up one attempt early.
SpentEarly(w) == worker[w].verdict = "terminal" \/ worker[w].attempt + 1 >= MaxAttempts

\* The attempt that just failed was terminal, or the last one.
Spent(w) == worker[w].verdict = "terminal" \/ worker[w].attempt >= MaxAttempts

\* mark_dead.
MarkDead(w) ==
  LET r == worker[w].run
  IN  /\ worker[w].pc = "settle" /\ worker[w].verdict # "delivered" /\ Spent(w)
      /\ rows' = IF Owns(w)
                 THEN [rows EXCEPT ![r] = [@ EXCEPT !.state = "DEAD", !.dueAt = 0, !.owner = None]]
                 ELSE rows
      /\ Leave(w)
      /\ UNCHANGED <<queue, late, stored, accepted, refused, crashes, errors>>

\* mark_retry, with the deadline computed just before.
MarkRetry(w) ==
  LET r == worker[w].run
  IN  /\ worker[w].pc = "settle" /\ worker[w].verdict = "retry" /\ ~Spent(w)
      /\ \E lag \in 0..MaxStampAge :
           rows' = IF Owns(w)
                   THEN [rows EXCEPT ![r] = [@ EXCEPT !.state = "PENDING", !.owner = None,
                                                      !.dueAt = BackoffTicks - lag]]
                   ELSE rows
      /\ Leave(w)
      /\ UNCHANGED <<queue, late, stored, accepted, refused, crashes, errors>>

-----------------------------------------------------------------------------
(* Failures, the operator, time. *)

\* A row of a process that is gone keeps its lease but has no owner any more.
Disowned(w) ==
  [r \in Runs |-> IF rows[r].owner = w THEN [rows[r] EXCEPT !.owner = None] ELSE rows[r]]

\* The process dies or is restarted under a new owner name; a request it had
\* sent may still arrive.
Crash(w) ==
  /\ worker[w].pc # "idle"
  /\ crashes < MaxCrashes
  /\ crashes' = crashes + 1
  /\ late' = IF worker[w].pc = "posted" THEN late \cup {worker[w].run} ELSE late
  /\ rows' = Disowned(w)
  /\ Leave(w)
  /\ UNCHANGED <<queue, stored, accepted, refused, errors>>

\* A SQLite error while the row is settled is caught nowhere: it ends the worker
\* task, and the process runs on without it until it is restarted.
StoreError(w) ==
  /\ worker[w].pc = "settle"
  /\ errors < MaxStoreErrors
  /\ errors' = errors + 1
  /\ worker' = [worker EXCEPT ![w] = [IdleWorker EXCEPT !.pc = "stopped"]]
  /\ UNCHANGED <<rows, queue, late, stored, accepted, refused, crashes>>

\* requeue_dead, by an operator.
RequeueDead(r) ==
  /\ rows[r].state = "DEAD"
  /\ crashes < MaxCrashes
  /\ crashes' = crashes + 1
  /\ rows' = [rows EXCEPT ![r] = [AbsentRow EXCEPT !.state = "PENDING"]]
  /\ UNCHANGED <<queue, worker, late, stored, accepted, refused, errors>>

Earlier(t) == IF t > -MaxStampAge THEN t - 1 ELSE t

Tick ==
  /\ \E r \in Runs : rows[r].state \in Active /\ rows[r].dueAt > -MaxStampAge
  /\ rows' = [r \in Runs |-> IF rows[r].state \in Active
                             THEN [rows[r] EXCEPT !.dueAt = Earlier(@)] ELSE rows[r]]
  /\ UNCHANGED <<queue, worker, late, stored, accepted, refused, crashes, errors>>

-----------------------------------------------------------------------------
Init ==
  /\ rows = [r \in Runs |-> AbsentRow]
  /\ queue = <<>>
  /\ worker = [w \in Workers |-> IdleWorker]
  /\ late = {} /\ stored = {} /\ accepted = {} /\ refused = {}
  /\ crashes = 0 /\ errors = 0

\* One turn of the loop in _worker_loop and _deliver.
Deliver(w) ==
  \/ Claim(w) \/ FailBeforePost(w) \/ Post(w)
  \/ Answer(w) \/ AnswerTerminal(w) \/ Timeout(w)
  \/ MarkDelivered(w) \/ MarkDead(w) \/ MarkRetry(w)

Step ==
  \/ \E r \in Runs : Enqueue(r) \/ LateArrival(r) \/ RequeueDead(r)
  \/ \E w \in Workers : Deliver(w) \/ Crash(w) \/ StoreError(w)

Next == Step \/ Tick

Spec == Init /\ [][Next]_vars

-----------------------------------------------------------------------------
(* Type invariant and safety. *)

\* Every variable holds what its table can hold; the queue lists each retained
\* run once.
TypeOK ==
  /\ rows \in [Runs -> Row]
  /\ queue \in Seq(Runs)
  /\ \A r \in Runs : rows[r].state # "ABSENT" <=> \E i \in DOMAIN queue : queue[i] = r
  /\ \A i, j \in DOMAIN queue : queue[i] = queue[j] => i = j
  /\ worker \in [Workers -> Worker]
  /\ \A w \in Workers : worker[w].pc \notin {"idle", "stopped"} => worker[w].run \in Runs
  /\ late \subseteq Runs /\ stored \subseteq Runs
  /\ accepted \subseteq Runs /\ refused \subseteq Runs
  /\ crashes \in 0..MaxCrashes /\ errors \in 0..MaxStoreErrors

\* "Delete sensitive local payload after canonical acceptance": a result that
\* was accepted into the outbox is still there until meeting-service has it.
NoResultLost == \A r \in accepted : rows[r].state # "ABSENT" \/ r \in stored

\* The owner name fences like a token: whoever may settle a row is settling the
\* latest attempt, even when a process was slow, died or was overtaken.
SettlesLatestAttempt ==
  \A w \in Workers :
    worker[w].pc \in {"claimed", "posted", "settle"} /\ Owns(w) =>
      worker[w].attempt = rows[worker[w].run].attempts

\* A row is given up only after a terminal outcome or the last allowed attempt.
DeadIsJustified ==
  \A r \in Runs :
    rows[r].state = "DEAD" => r \in refused \/ rows[r].attempts >= MaxAttempts

\* An attempt is settled by the process that made it and only once, and a row
\* is given up no sooner than it should, whatever was lost in between.
DeliverySound == TypeOK /\ NoResultLost /\ SettlesLatestAttempt /\ DeadIsJustified

(* Liveness. *)

\* Settings refuses a lease that does not exceed the time limits of all requests
\* of an attempt: the lease of a worker that is in an attempt does not run out.
TimelyTick ==
  /\ \A w \in Workers :
       worker[w].pc \in {"claimed", "posted", "settle"} /\ Owns(w)
         => rows[worker[w].run].dueAt > 1
  /\ Tick

\* Each loop runs on unless its task was ended; time is not held up.  Nothing is
\* assumed of the operator, of restarts, or of what meeting-service answers.
Fairness ==
  /\ \A w \in Workers : WF_vars(Deliver(w))
  /\ SF_vars(TimelyTick)

FairSpec == Init /\ [][Step \/ TimelyTick]_vars /\ Fairness

\* Every accepted result is delivered or given up, although workers crash and
\* requests time out, as long as one worker task is left.
EveryResultDecided ==
  \A r \in Runs : rows[r].state \in Active ~> rows[r].state \in {"ABSENT", "DEAD"}

=============================================================================
