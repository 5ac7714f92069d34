---------------------- MODULE ReadyEventConsumerProofs ----------------------
(* The ready-event consumer, machine-checked for every value of the         *)
(* constants that satisfies ConstantsAssumption.  First its types and the    *)
(* failure budget of an event; then what becomes of an event.  One result    *)
(* per event: an event with a result in the outbox, or with a result         *)
(* committed since it was last released, is closed in a way no process can   *)
(* reopen.  One settler: a lease token is held by one process.  No entry is  *)
(* acknowledged before its event is decided, and no dead event is left       *)
(* without an entry that will dead-letter it: the invariant follows what     *)
(* each step of each process already knows about the row it came from.  From *)
(* these the refinement of ReadyEventEffect follows, step by step.           *)
EXTENDS ReadyEventRefinement, TLAPS


-----------------------------------------------------------------------------
(* Rows and workers that the actions write are well-formed. *)

\* The failure budget of one row; one that does not exist has it all.
Budgeted(r) ==
  /\ r.state \notin Terminal => r.failures < MaxFailures
  /\ r.state = "DEAD" /\ r.reason = "RETRY_EXHAUSTED" => r.failures = MaxFailures

LEMMA DeadRowOK ==
  ASSUME ConstantsAssumption,
         NEW hash \in Hashes \cup {"empty", None}, NEW reason \in DeadReasons,
         NEW failures \in 0..MaxFailures, NEW published \in BOOLEAN,
         reason = "RETRY_EXHAUSTED" => failures = MaxFailures
  PROVE  /\ DeadRow(hash, reason, failures, published) \in Row
         /\ Budgeted(DeadRow(hash, reason, failures, published))
BY DEF DeadRow, Row, RowStates, Budgeted, Terminal, Open

LEMMA WaitingRowOK ==
  ASSUME ConstantsAssumption,
         NEW hash \in Hashes \cup {"empty", None}, NEW failures \in 0..MaxFailures,
         failures < MaxFailures, NEW at \in Int
  PROVE  WaitingRow(hash, failures, at) \in Row /\ Budgeted(WaitingRow(hash, failures, at))
BY DEF WaitingRow, Row, RowStates, Budgeted, Terminal, Open

LEMMA LeasedRowOK ==
  ASSUME ConstantsAssumption,
         NEW hash \in Hashes, NEW failures \in 0..MaxFailures, failures < MaxFailures,
         NEW until \in Int, NEW token \in Tokens
  PROVE  /\ LeasedRow(hash, failures, until, token) \in Row
         /\ Budgeted(LeasedRow(hash, failures, until, token))
BY DEF LeasedRow, Row, RowStates, Budgeted, Terminal, Open

LEMMA OutboxedRowOK ==
  ASSUME ConstantsAssumption,
         NEW hash \in Hashes \cup {"empty", None}, NEW failures \in 0..MaxFailures
  PROVE  OutboxedRow(hash, failures) \in Row /\ Budgeted(OutboxedRow(hash, failures))
BY DEF OutboxedRow, Row, RowStates, Budgeted, Terminal, Open

LEMMA AbsentRowOK ==
  ASSUME ConstantsAssumption
  PROVE  AbsentRow \in Row /\ Budgeted(AbsentRow)
BY DEF ConstantsAssumption, AbsentRow, Row, RowStates, Budgeted, Terminal, Open

LEMMA WorkerAtType ==
  ASSUME ConstantsAssumption,
         NEW pc \in Pcs, NEW m \in Messages \cup {None}, NEW token \in Tokens \cup {None},
         NEW code \in ErrorCodes \cup {None}
  PROVE  /\ WorkerAt(pc, m, token, code) \in Worker
         /\ WorkerAt(pc, m, token, code).pc = pc
         /\ WorkerAt(pc, m, token, code).msg = m
BY DEF WorkerAt, Worker

-----------------------------------------------------------------------------
(* How one replaced row or worker keeps the whole well-formed. *)

InboxOK == inbox \in [Keys -> Row] /\ \A k \in Keys : Budgeted(inbox[k])

LEMMA ReplaceKeepsInbox ==
  ASSUME ConstantsAssumption, InboxOK, NEW k \in Keys, NEW r \in Row, Budgeted(r),
         inbox' = [inbox EXCEPT ![k] = r]
  PROVE  InboxOK'
BY DEF InboxOK, Budgeted

LEMMA ReplaceKeepsWorkers ==
  ASSUME ConstantsAssumption, WorkersOK, NEW c \in Consumers, NEW w \in Worker, Equipped(w),
         worker' = [worker EXCEPT ![c] = w]
  PROVE  WorkersOK'
BY DEF WorkersOK, Equipped

\* Putting a worker at a step with a message in hand.
LEMMA PutKeepsWorkers ==
  ASSUME ConstantsAssumption,
         WorkersOK, NEW c \in Consumers, NEW pc \in Pcs, NEW m \in Messages,
         NEW token \in Tokens \cup {None}, NEW code \in ErrorCodes \cup {None},
         Equipped(WorkerAt(pc, m, token, code)),
         worker' = [worker EXCEPT ![c] = WorkerAt(pc, m, token, code)]
  PROVE  WorkersOK'
<1>1. m \in Messages \cup {None}
  OBVIOUS
<1>2. WorkerAt(pc, m, token, code) \in Worker
  BY <1>1, WorkerAtType
<1> QED
  BY <1>2, ReplaceKeepsWorkers

\* A step that is part of handling an event or of neither list.
LEMMA PlainWorker ==
  ASSUME ConstantsAssumption,
         NEW pc \in Pcs \ (Handling \cup DeadLettering), NEW m \in Messages, NEW token, NEW code
  PROVE  Equipped(WorkerAt(pc, m, token, code))
BY DEF Equipped, WorkerAt

LEMMA HandlingWorker ==
  ASSUME ConstantsAssumption,
         NEW pc \in Handling, NEW m \in Messages, Body[m].kind = "ready", NEW token
  PROVE  Equipped(WorkerAt(pc, m, token, None))
BY DEF Equipped, WorkerAt, Handling, Settling, DeadLettering

LEMMA DeadLetteringWorker ==
  ASSUME ConstantsAssumption,
         NEW pc \in DeadLettering, NEW m \in Messages, NEW token, NEW code \in ErrorCodes
  PROVE  Equipped(WorkerAt(pc, m, token, code))
BY DEF ConstantsAssumption, Equipped, WorkerAt, Handling, Settling, DeadLettering

\* What a busy worker holds.
LEMMA BusyWorker ==
  ASSUME ConstantsAssumption, WorkersOK, NEW c \in Consumers, worker[c].pc # "idle"
  PROVE  /\ worker[c].msg \in Messages
         /\ worker[c].stamp \in Int
         /\ worker[c].token \in Tokens \cup {None}
         /\ worker[c].code \in ErrorCodes \cup {None}
         /\ worker[c].pc \in DeadLettering => worker[c].code \in ErrorCodes
         /\ worker[c].pc \in Handling => /\ Body[worker[c].msg].kind = "ready"
                                         /\ worker[c].code = None
                                         /\ KeyOf(c) = Body[worker[c].msg].event
                                         /\ KeyOf(c) \in Events
         /\ KeyOf(c) \in Keys
         /\ Body[worker[c].msg].hash \in Hashes
<1>1. /\ worker[c] \in Worker /\ Equipped(worker[c])
      /\ None \notin ErrorCodes /\ Body[worker[c].msg].hash \in Hashes
      /\ Body[worker[c].msg].event \in Events
  BY DEF ConstantsAssumption, WorkersOK, Equipped
<1>2. None \notin PoisonCodes
  BY <1>1 DEF ErrorCodes
<1>3. worker[c].pc \in Handling => worker[c].code = None
  BY <1>1 DEF Equipped
<1>4. worker[c].pc \in Handling => KeyOf(c) = Body[worker[c].msg].event
  BY <1>1, <1>2, <1>3 DEF Equipped, KeyOf
<1>5. KeyOf(c) \in Keys /\ worker[c].msg \in Messages
  BY <1>1 DEF Equipped, KeyOf, Keys
<1> QED
  BY <1>1, <1>3, <1>4, <1>5 DEF Equipped, Worker

LEMMA GoToKeepsWorkers ==
  ASSUME ConstantsAssumption,
         WorkersOK, NEW c \in Consumers, worker[c].pc # "idle", NEW pc \in Pcs, GoTo(c, pc),
         \/ pc = "ack"
         \/ pc \in Handling /\ worker[c].pc \in Handling
         \/ pc \in DeadLettering /\ worker[c].pc \in DeadLettering
  PROVE  WorkersOK'
<1>1. "ack" \in Pcs \ (Handling \cup DeadLettering)
  BY DEF Pcs, Handling, Settling, DeadLettering
<1>2. Equipped(WorkerAt(pc, worker[c].msg, worker[c].token, worker[c].code))
  BY <1>1, BusyWorker, PlainWorker, HandlingWorker, DeadLetteringWorker
<1> QED
  BY <1>2, BusyWorker, PutKeepsWorkers DEF GoTo

LEMMA LeaveKeepsWorkers ==
  ASSUME ConstantsAssumption, WorkersOK, NEW c \in Consumers, Leave(c)
  PROVE  WorkersOK'
<1>1. IdleWorker \in Worker /\ Equipped(IdleWorker)
  BY DEF IdleWorker, WorkerAt, Worker, Pcs, Equipped, Handling, Settling, DeadLettering
<1> QED
  BY <1>1, ReplaceKeepsWorkers DEF Leave

LEMMA DeadLetterKeepsWorkers ==
  ASSUME ConstantsAssumption, WorkersOK, NEW c \in Consumers, worker[c].pc # "idle",
         NEW code \in ErrorCodes, NEW published \in BOOLEAN,
         DeadLetter(c, code, published)
  PROVE  WorkersOK'
<1>1. (IF published THEN "ack" ELSE "publish") \in Pcs
  BY DEF Pcs
<1>2. "publish" \in DeadLettering /\ "ack" \in Pcs \ (Handling \cup DeadLettering)
  BY DEF Pcs, Handling, Settling, DeadLettering
<1>3. Equipped(WorkerAt(IF published THEN "ack" ELSE "publish", worker[c].msg, None, code))
  BY <1>2, BusyWorker, PlainWorker, DeadLetteringWorker
<1> QED
  BY <1>1, <1>3, BusyWorker, PutKeepsWorkers DEF DeadLetter

-----------------------------------------------------------------------------
(* Every action keeps the type invariant and the failure budget. *)

\* The rest of the type invariant.
StoresOK ==
  /\ outbox \subseteq Events
  /\ msgs \in [Messages -> MessageStates]
  /\ dlq \subseteq [key : Keys, msg : Messages, code : ErrorCodes]
  /\ faults \in 0..MaxFaults
  /\ committed \subseteq Events /\ delivered \subseteq Events /\ released \subseteq Keys

\* The inductive invariant: types and budget together, because the type of a
\* failure count depends on the budget not being spent.
IInv == InboxOK /\ WorkersOK /\ StoresOK

LEMMA IInvImplies ==
  ASSUME ConstantsAssumption
  PROVE  IInv => TypeOK /\ FailureBudget
BY DEF IInv, StoresOK, InboxOK, Budgeted, Terminal, Open, TypeOK, FailureBudget

LEMMA InitIInv ==
  ASSUME ConstantsAssumption
  PROVE  Init => IInv
<1> SUFFICES ASSUME Init PROVE IInv
  OBVIOUS
<1>1. InboxOK
  BY AbsentRowOK DEF Init, InboxOK
<1>2. WorkersOK
  BY DEF Init, WorkersOK, Equipped, IdleWorker, WorkerAt, Worker, Pcs, Handling, Settling,
         DeadLettering
<1>3. StoresOK
  BY DEF ConstantsAssumption, Init, StoresOK, MessageStates
<1> QED
  BY <1>1, <1>2, <1>3 DEF IInv

\* The stream and the group.
LEMMA RedisIInv ==
  ASSUME ConstantsAssumption, IInv,
         \/ \E m \in Messages : Produce(m) \/ TrimSource(m)
         \/ \E c \in Consumers, m \in Messages :
              Take(c, m) \/ TakeDeleted(c, m) \/ TakeEmptied(c, m)
  PROVE  IInv'
<1>1. InboxOK'
  BY DEF IInv, InboxOK, Produce, TrimSource, Take, TakeDeleted, TakeEmptied
<1>2. StoresOK'
  <2>1. ASSUME NEW m \in Messages, Produce(m) PROVE StoresOK'
    BY <2>1 DEF IInv, StoresOK, Produce, MessageStates, history
  <2>2. ASSUME NEW m \in Messages, TrimSource(m) PROVE StoresOK'
    BY <2>2 DEF ConstantsAssumption, IInv, StoresOK, TrimSource, MessageStates, history
  <2>3. ASSUME NEW c \in Consumers, NEW m \in Messages, Take(c, m) PROVE StoresOK'
    BY <2>3 DEF IInv, StoresOK, Take, MessageStates, history
  <2>4. ASSUME NEW c \in Consumers, NEW m \in Messages, TakeDeleted(c, m) PROVE StoresOK'
    BY <2>4 DEF IInv, StoresOK, TakeDeleted, MessageStates, history
  <2>5. ASSUME NEW c \in Consumers, NEW m \in Messages, TakeEmptied(c, m) PROVE StoresOK'
    BY <2>5 DEF IInv, StoresOK, TakeEmptied, history
  <2> QED
    BY <2>1, <2>2, <2>3, <2>4, <2>5
<1>3. WorkersOK'
  <2>1. ASSUME NEW m \in Messages, Produce(m) \/ TrimSource(m) PROVE WorkersOK'
    BY <2>1 DEF IInv, WorkersOK, Equipped, Produce, TrimSource
  <2>2. ASSUME NEW c \in Consumers, NEW m \in Messages, Take(c, m) PROVE WorkersOK'
    <3>1. \E pc \in Pcs, code \in ErrorCodes \cup {None} :
            PickUp(c, m, pc, code) /\ Equipped(WorkerAt(pc, m, None, code))
      BY <2>2
         DEF ConstantsAssumption, Take, Pcs, ErrorCodes, PoisonCodes, Equipped, WorkerAt, Handling, Settling, DeadLettering
    <3> QED
      BY <3>1, PutKeepsWorkers DEF IInv, PickUp
  <2>3. ASSUME NEW c \in Consumers, NEW m \in Messages,
               TakeDeleted(c, m) \/ TakeEmptied(c, m)
        PROVE  WorkersOK'
    <3>1. {"source_deleted", "emptied"} \subseteq ErrorCodes /\ "poison" \in DeadLettering /\ "poison" \in Pcs
      BY DEF ErrorCodes, PoisonCodes, DeadLettering, Pcs
    <3> QED
      BY <2>3, <3>1, DeadLetteringWorker, PutKeepsWorkers DEF IInv, TakeDeleted, TakeEmptied, PickUp
  <2> QED
    BY <2>1, <2>2, <2>3
<1> QED
  BY <1>1, <1>2, <1>3 DEF IInv

\* Nothing but workers and possibly one inbox row changes.
LEMMA SameStores ==
  ASSUME ConstantsAssumption, StoresOK, UNCHANGED <<outbox, msgs, dlq, faults, history>>
  PROVE  StoresOK'
BY DEF StoresOK, history

LEMMA SameInbox ==
  ASSUME ConstantsAssumption, InboxOK, UNCHANGED inbox
  PROVE  InboxOK'
BY DEF InboxOK

\* What an inbox row holds.
LEMMA RowFields ==
  ASSUME ConstantsAssumption, InboxOK, NEW k \in Keys
  PROVE  /\ inbox[k] \in Row /\ Budgeted(inbox[k])
         /\ inbox[k].state \in RowStates
         /\ inbox[k].hash \in Hashes \cup {"empty", None}
         /\ inbox[k].failures \in 0..MaxFailures
         /\ inbox[k].availableAt \in Int
         /\ inbox[k].reason \in DeadReasons \cup {None}
         /\ inbox[k].published \in BOOLEAN
BY DEF InboxOK, Row

LEMMA RecordPoisonIInv ==
  ASSUME ConstantsAssumption, IInv, NEW c \in Consumers, RecordPoison(c)
  PROVE  IInv'
<1> DEFINE k == worker[c].msg
<1>1. InboxOK /\ WorkersOK /\ StoresOK /\ worker[c].pc # "idle"
  BY DEF IInv, RecordPoison
<1>2. k \in Keys /\ Body[k].hash \in Hashes
  BY <1>1, BusyWorker DEF Keys
<1>3. StoresOK'
  BY <1>1, SameStores DEF RecordPoison
<1>4. InboxOK'
  <2>1. CASE UNCHANGED inbox
    BY <2>1, <1>1, SameInbox
  <2>2. CASE inbox' = [inbox EXCEPT ![k] = DeadRow(PoisonHash(c), "POISON", 0, FALSE)]
    <3>1. PoisonHash(c) \in Hashes \cup {"empty", None}
      BY <1>2 DEF PoisonHash
    <3>2. "POISON" \in DeadReasons /\ 0 \in 0..MaxFailures /\ FALSE \in BOOLEAN
      BY DEF ConstantsAssumption, DeadReasons
    <3> QED
      BY <2>2, <3>1, <3>2, <1>1, <1>2, DeadRowOK, ReplaceKeepsInbox
  <2> QED
    BY <2>1, <2>2 DEF RecordPoison
<1>5. WorkersOK'
  <2>1. CASE Leave(c)
    BY <2>1, <1>1, LeaveKeepsWorkers
  <2>2. CASE \E published \in BOOLEAN : DeadLetter(c, worker[c].code, published)
    BY <2>2, <1>1, BusyWorker, DeadLetterKeepsWorkers DEF RecordPoison, DeadLettering
  <2> QED
    BY <1>1, <1>2, <2>1, <2>2, RowFields DEF RecordPoison
<1> QED
  BY <1>3, <1>4, <1>5 DEF IInv

\* The two steps that decide what to do with an entry and write no row.
LEMMA NoWriteIInv ==
  ASSUME ConstantsAssumption,
         IInv, NEW c \in Consumers, BusyCheck(c) \/ ClaimRefused(c) \/ FinishWork(c) \/ LeaseLost(c)
  PROVE  IInv'
<1>1. InboxOK /\ WorkersOK /\ StoresOK /\ worker[c].pc # "idle"
  BY DEF IInv, BusyCheck, ClaimRefused, FinishWork, LeaseLost, Settling
<1>2. StoresOK' /\ InboxOK'
  BY <1>1, SameStores, SameInbox DEF BusyCheck, ClaimRefused, FinishWork, LeaseLost
<1>3. \/ Leave(c)
      \/ \E pc \in {"claim", "ack", "commit", "fail", "kill"} : GoTo(c, pc)
      \/ \E published \in BOOLEAN : DeadLetter(c, "previously_dead", published)
  <2>1. inbox[KeyOf(c)].published \in BOOLEAN
    BY <1>1, BusyWorker, RowFields
  <2> QED
    BY <2>1 DEF BusyCheck, ClaimRefused, FinishWork, LeaseLost, KeepPending
<1>4. CASE \E pc \in {"claim", "ack", "commit", "fail", "kill"} : GoTo(c, pc)
  <2>1. worker[c].pc \in Handling
    BY DEF BusyCheck, ClaimRefused, FinishWork, LeaseLost, Handling, Settling
  <2>2. {"claim", "ack", "commit", "fail", "kill"} \subseteq Pcs \cap (Handling \cup {"ack"})
    BY DEF Pcs, Handling, Settling
  <2> QED
    BY <1>1, <1>2, <1>4, <2>1, <2>2, GoToKeepsWorkers DEF IInv
<1>5. CASE \E published \in BOOLEAN : DeadLetter(c, "previously_dead", published)
  BY <1>1, <1>2, <1>5, DeadLetterKeepsWorkers DEF IInv, ErrorCodes
<1>6. CASE Leave(c)
  BY <1>1, <1>2, <1>6, LeaveKeepsWorkers DEF IInv
<1> QED
  BY <1>3, <1>4, <1>5, <1>6

\* The four steps that close a row as DEAD and go on to its dead letter.
LEMMA CloseIInv ==
  ASSUME ConstantsAssumption, IInv, NEW c \in Consumers, worker[c].pc # "idle",
         NEW reason \in DeadReasons, NEW code \in ErrorCodes,
         NEW failures \in 0..MaxFailures, NEW published \in BOOLEAN, NEW already \in BOOLEAN,
         reason = "RETRY_EXHAUSTED" => failures = MaxFailures,
         inbox' = [inbox EXCEPT ![KeyOf(c)] =
                      DeadRow(inbox[KeyOf(c)].hash, reason, failures, published)],
         DeadLetter(c, code, already),
         UNCHANGED <<outbox, msgs, dlq, faults, history>>
  PROVE  IInv'
<1>1. InboxOK /\ WorkersOK /\ StoresOK
  BY DEF IInv
<1>2. KeyOf(c) \in Keys /\ inbox[KeyOf(c)].hash \in Hashes \cup {"empty", None}
  BY <1>1, BusyWorker, RowFields
<1>3. InboxOK'
  BY <1>1, <1>2, DeadRowOK, ReplaceKeepsInbox
<1> QED
  BY <1>1, <1>3, SameStores, DeadLetterKeepsWorkers DEF IInv

LEMMA ClosingStepsIInv ==
  ASSUME ConstantsAssumption,
         IInv, NEW c \in Consumers, ClaimConflict(c) \/ ClaimExhausted(c) \/ MarkDead(c)
  PROVE  IInv'
<1> DEFINE r == inbox[KeyOf(c)]
<1>1. /\ worker[c].pc # "idle" /\ InboxOK /\ WorkersOK
      /\ {"CONFLICT", "TERMINAL", "RETRY_EXHAUSTED"} \subseteq DeadReasons
      /\ {"conflict", "terminal", "previously_dead", "retries_exhausted"} \subseteq ErrorCodes
  BY DEF IInv, ClaimConflict, ClaimExhausted, MarkDead, DeadReasons, ErrorCodes
<1>2. r.failures \in 0..MaxFailures /\ r.published \in BOOLEAN /\ Budgeted(r)
  BY <1>1, BusyWorker, RowFields
<1>3. CASE ClaimConflict(c)
  BY <1>1, <1>2, <1>3, CloseIInv DEF ClaimConflict
<1>4. CASE MarkDead(c)
  BY <1>1, <1>2, <1>4, CloseIInv DEF MarkDead
<1>5. CASE ClaimExhausted(c)
  <2>1. r.failures + 1 \in 0..MaxFailures /\ r.failures + 1 = MaxFailures
    <3>1. r.state = "PROCESSING" /\ Exhausted(r)
      BY <1>5 DEF ClaimExhausted
    <3>2. r.failures < MaxFailures /\ MaxFailures \in Nat
      BY <1>2, <3>1 DEF ConstantsAssumption, Budgeted, Terminal, Open
    <3> QED
      BY <1>2, <3>1, <3>2 DEF Exhausted
  <2>2. /\ inbox' = [inbox EXCEPT ![KeyOf(c)] =
                        DeadRow(r.hash, "RETRY_EXHAUSTED", r.failures + 1, r.published)]
        /\ DeadLetter(c, "previously_dead", r.published)
        /\ UNCHANGED <<outbox, msgs, dlq, faults, history>>
    BY <1>5 DEF ClaimExhausted
  <2> QED
    BY <1>1, <1>2, <2>1, <2>2, CloseIInv
<1> QED
  BY <1>3, <1>4, <1>5

\* The two steps that put a row back to wait, one failure dearer or not.
LEMMA WaitIInv ==
  ASSUME ConstantsAssumption, IInv, NEW c \in Consumers, worker[c].pc # "idle",
         NEW failures \in 0..MaxFailures, failures < MaxFailures, NEW at \in Int,
         inbox' = [inbox EXCEPT ![KeyOf(c)] = WaitingRow(inbox[KeyOf(c)].hash, failures, at)],
         Leave(c),
         UNCHANGED <<outbox, msgs, dlq, faults, history>>
  PROVE  IInv'
<1>1. InboxOK /\ WorkersOK /\ StoresOK
  BY DEF IInv
<1>2. KeyOf(c) \in Keys /\ inbox[KeyOf(c)].hash \in Hashes \cup {"empty", None}
  BY <1>1, BusyWorker, RowFields
<1>3. InboxOK'
  BY <1>1, <1>2, WaitingRowOK, ReplaceKeepsInbox
<1> QED
  BY <1>1, <1>3, SameStores, LeaveKeepsWorkers DEF IInv

LEMMA FailureStepsIInv ==
  ASSUME ConstantsAssumption, IInv, NEW c \in Consumers, MarkFailure(c) \/ Defer(c)
  PROVE  IInv'
<1> DEFINE r == inbox[KeyOf(c)]
<1>1. /\ worker[c].pc # "idle" /\ InboxOK /\ WorkersOK
      /\ "RETRY_EXHAUSTED" \in DeadReasons /\ "retries_exhausted" \in ErrorCodes
      /\ r.state = "PROCESSING"
  BY DEF IInv, MarkFailure, Defer, DeadReasons, ErrorCodes, Fenced
<1>2. r.failures \in 0..MaxFailures /\ r.published \in BOOLEAN /\ r.failures < MaxFailures
  BY <1>1, BusyWorker, RowFields DEF Budgeted, Terminal, Open
<1>3. /\ worker[c].stamp + BackoffTicks \in Int /\ r.failures + 1 \in 0..MaxFailures
      /\ MaxFailures \in Nat
  BY <1>1, <1>2, BusyWorker DEF ConstantsAssumption
<1>4. CASE Defer(c)
  BY <1>1, <1>2, <1>3, <1>4, WaitIInv DEF Defer
<1>5. CASE MarkFailure(c) /\ Exhausted(r)
  <2>1. r.failures + 1 = MaxFailures
    BY <1>2, <1>3, <1>5 DEF Exhausted
  <2> QED
    BY <1>1, <1>2, <1>3, <1>5, <2>1, CloseIInv DEF MarkFailure
<1>6. CASE MarkFailure(c) /\ ~Exhausted(r)
  <2>1. r.failures + 1 < MaxFailures
    BY <1>2, <1>3, <1>6 DEF Exhausted
  <2> QED
    BY <1>1, <1>2, <1>3, <1>6, <2>1, WaitIInv DEF MarkFailure
<1> QED
  BY <1>4, <1>5, <1>6

\* Leasing a row: reclaiming an expired one spends a failure.
LEMMA ClaimIInv ==
  ASSUME ConstantsAssumption, IInv, NEW c \in Consumers, Claim(c)
  PROVE  IInv'
<1> DEFINE k == KeyOf(c)
           r == inbox[k]
           h == Body[worker[c].msg].hash
           spent == IF r.state = "PROCESSING" THEN r.failures + 1 ELSE r.failures
<1>1. InboxOK /\ WorkersOK /\ StoresOK /\ worker[c].pc # "idle"
  BY DEF IInv, Claim
<1>2. k \in Keys /\ h \in Hashes /\ worker[c].msg \in Messages /\ worker[c].stamp \in Int
  BY <1>1, BusyWorker
<1>3. r.failures \in 0..MaxFailures /\ Budgeted(r) /\ MaxFailures \in Nat \ {0}
  BY <1>1, <1>2, RowFields DEF ConstantsAssumption
<1>4. \/ r.state = "ABSENT"
      \/ r.state \in Open /\ (r.state = "PROCESSING" => ~Exhausted(r))
  BY DEF Claim, Due
<1>5. spent \in 0..MaxFailures /\ spent < MaxFailures
  <2>1. CASE r.state = "PROCESSING"
    BY <1>3, <1>4, <2>1 DEF Exhausted
  <2>2. CASE r.state # "PROCESSING"
    BY <1>3, <1>4, <2>2 DEF Budgeted, Terminal, Open
  <2> QED
    BY <2>1, <2>2
<1>6. PICK t \in Tokens \ LiveTokens :
        /\ inbox' = [inbox EXCEPT ![k] =
                        LeasedRow(h, spent, worker[c].stamp + LeaseTicks, t)]
        /\ worker' = [worker EXCEPT ![c] = WorkerAt("work", @.msg, t, None)]
  BY DEF Claim
<1>7. InboxOK'
  <2>1. worker[c].stamp + LeaseTicks \in Int
    BY <1>2 DEF ConstantsAssumption
  <2> HIDE DEF spent, h, k
  <2> QED
    BY <1>1, <1>2, <1>5, <1>6, <2>1, LeasedRowOK, ReplaceKeepsInbox
<1>8. WorkersOK'
  <2>1. /\ "work" \in Pcs /\ "work" \in Handling /\ worker[c].pc \in Handling
        /\ None \in ErrorCodes \cup {None} /\ t \in Tokens \cup {None}
    BY DEF Claim, Pcs, Handling
  <2>2. Equipped(WorkerAt("work", worker[c].msg, t, None))
    BY <1>1, <1>2, <2>1, BusyWorker, HandlingWorker
  <2> QED
    BY <1>1, <1>2, <1>6, <2>1, <2>2, PutKeepsWorkers
<1>9. StoresOK'
  BY <1>1, SameStores DEF Claim
<1> QED
  BY <1>7, <1>8, <1>9 DEF IInv

LEMMA CommitIInv ==
  ASSUME ConstantsAssumption, IInv, NEW c \in Consumers, CommitOutboxed(c)
  PROVE  IInv'
<1> DEFINE k == KeyOf(c)
           r == inbox[k]
<1>1. InboxOK /\ WorkersOK /\ StoresOK /\ worker[c].pc # "idle" /\ r.state # "ABSENT"
  BY DEF IInv, CommitOutboxed, Fenced
<1>2. k \in Keys /\ worker[c].msg \in Messages
  BY <1>1, BusyWorker
<1>3. r.hash \in Hashes \cup {"empty", None} /\ r.failures \in 0..MaxFailures
  BY <1>1, <1>2, RowFields
<1>4. CASE UNCHANGED <<inbox, outbox, committed>> /\ \E pc \in {"kill", "defer"} : GoTo(c, pc)
  <2>1. StoresOK' /\ InboxOK'
    BY <1>1, <1>4, SameStores, SameInbox DEF CommitOutboxed, history
  <2>2. {"kill", "defer"} \subseteq Pcs \cap Handling /\ worker[c].pc \in Handling
    BY DEF CommitOutboxed, Pcs, Handling, Settling
  <2> QED
    BY <2>1, <2>2, <1>1, <1>4, GoToKeepsWorkers DEF IInv
<1>5. CASE /\ inbox' = [inbox EXCEPT ![k] = OutboxedRow(@.hash, @.failures)]
           /\ outbox' = outbox \cup {k}
           /\ committed' = committed \cup {k}
           /\ worker' = [worker EXCEPT ![c] = WorkerAt("ack", @.msg, None, None)]
  <2>1. InboxOK'
    BY <1>1, <1>2, <1>3, <1>5, OutboxedRowOK, ReplaceKeepsInbox
  <2>2. WorkersOK'
    <3>1. "ack" \in Pcs \ (Handling \cup DeadLettering)
      BY DEF Pcs, Handling, Settling, DeadLettering
    <3> QED
      BY <1>1, <1>2, <1>5, <3>1, PlainWorker, PutKeepsWorkers
  <2>3. k \in Events
    BY <1>1, BusyWorker DEF CommitOutboxed, Handling, Settling
  <2>4. StoresOK'
    BY <1>1, <1>5, <2>3 DEF StoresOK, CommitOutboxed
  <2> QED
    BY <2>1, <2>2, <2>4 DEF IInv
<1> QED
  BY <1>4, <1>5 DEF CommitOutboxed, OutboxAfterCommit

\* Publishing the dead letter, marking the row, acknowledging the entry.
LEMMA PublishIInv ==
  ASSUME ConstantsAssumption, IInv, NEW c \in Consumers, PublishDeadLetter(c)
  PROVE  IInv'
<1>1. /\ InboxOK /\ WorkersOK /\ StoresOK /\ worker[c].pc # "idle"
      /\ worker[c].pc \in DeadLettering /\ "mark" \in Pcs \cap DeadLettering
  BY DEF IInv, PublishDeadLetter, DeadLettering, Pcs
<1>2. InboxOK'
  BY <1>1, SameInbox DEF PublishDeadLetter
<1>3. WorkersOK'
  BY <1>1, LeaveKeepsWorkers, GoToKeepsWorkers DEF PublishDeadLetter
<1>4. dlq' \subseteq [key : Keys, msg : Messages, code : ErrorCodes]
  <2>1. PublishedCode(worker[c].code) \in ErrorCodes
    BY <1>1, BusyWorker DEF PublishedCode, ErrorCodes, PoisonCodes
  <2> QED
    BY <1>1, <2>1, BusyWorker DEF PublishDeadLetter, StoresOK
<1>5. StoresOK'
  BY <1>1, <1>4 DEF PublishDeadLetter, StoresOK, history
<1> QED
  BY <1>2, <1>3, <1>5 DEF IInv

LEMMA MarkPublishedIInv ==
  ASSUME ConstantsAssumption, IInv, NEW c \in Consumers, MarkDlqPublished(c)
  PROVE  IInv'
<1> DEFINE k == KeyOf(c)
           r == [inbox[k] EXCEPT !.published = TRUE]
<1>1. InboxOK /\ WorkersOK /\ StoresOK /\ worker[c].pc # "idle" /\ "ack" \in Pcs
  BY DEF IInv, MarkDlqPublished, Pcs
<1>2. k \in Keys /\ inbox[k] \in Row /\ Budgeted(inbox[k])
  BY <1>1, BusyWorker, RowFields
<1>3. r \in Row /\ Budgeted(r)
  BY <1>2 DEF Row, Budgeted
<1>4. CASE inbox[k].state = "DEAD"
  <2>1. inbox' = [inbox EXCEPT ![k] = r] /\ GoTo(c, "ack")
    BY <1>4, <1>1, <1>2 DEF MarkDlqPublished, InboxOK
  <2>2. StoresOK'
    BY <1>1, SameStores DEF MarkDlqPublished
  <2> QED
    BY <1>1, <1>2, <1>3, <2>1, <2>2, ReplaceKeepsInbox, GoToKeepsWorkers DEF IInv
<1>5. CASE inbox[k].state # "DEAD"
  BY <1>1, <1>5, SameInbox, SameStores, LeaveKeepsWorkers DEF IInv, MarkDlqPublished
<1> QED
  BY <1>4, <1>5

LEMMA LeavingStepsIInv ==
  ASSUME ConstantsAssumption, IInv, NEW c \in Consumers, Ack(c) \/ Abandon(c)
  PROVE  IInv'
<1>1. InboxOK /\ WorkersOK /\ StoresOK
  BY DEF IInv
<1>2. InboxOK' /\ WorkersOK'
  BY <1>1, SameInbox, LeaveKeepsWorkers DEF Ack, Abandon
<1>3. StoresOK'
  BY <1>1 DEF ConstantsAssumption, Ack, Abandon, StoresOK, MessageStates, history
<1> QED
  BY <1>2, <1>3 DEF IInv

LEMMA ProcessIInv ==
  ASSUME ConstantsAssumption, IInv, NEW c \in Consumers, Process(c) \/ Abandon(c)
  PROVE  IInv'
BY RecordPoisonIInv, NoWriteIInv, ClosingStepsIInv, FailureStepsIInv, ClaimIInv, CommitIInv,
   PublishIInv, MarkPublishedIInv, LeavingStepsIInv DEF Process

\* The operator, the maintenance of the inbox and the delivery worker.
LEMMA MaintenanceIInv ==
  ASSUME ConstantsAssumption, IInv,
         \/ \E e \in Events : Rearm(e) \/ DeliverResult(e)
         \/ \E k \in Keys : Prune(k)
  PROVE  IInv'
<1>1. InboxOK /\ WorkersOK /\ StoresOK /\ Events \subseteq Keys
  BY DEF IInv, Keys
<1>2. ASSUME NEW e \in Events, Rearm(e) PROVE IInv'
  <2>1. inbox[e].hash \in Hashes \cup {"empty", None} /\ 0 \in 0..MaxFailures /\ 0 < MaxFailures
    BY <1>1, RowFields DEF ConstantsAssumption
  <2>2. InboxOK'
    <3>1. /\ WaitingRow(inbox[e].hash, 0, 0) \in Row
          /\ Budgeted(WaitingRow(inbox[e].hash, 0, 0))
      BY <2>1 DEF WaitingRow, Row, RowStates, Budgeted, Terminal, Open
    <3> QED
      BY <1>1, <1>2, <3>1, ReplaceKeepsInbox DEF Rearm
  <2> QED
    BY <1>1, <1>2, <2>2 DEF Rearm, IInv, StoresOK, WorkersOK
<1>3. ASSUME NEW e \in Events, DeliverResult(e) PROVE IInv'
  BY <1>1, <1>3 DEF DeliverResult, IInv, StoresOK, WorkersOK, InboxOK
<1>4. ASSUME NEW k \in Keys, Prune(k) PROVE IInv'
  <2>1. InboxOK'
    BY <1>1, <1>4, AbsentRowOK, ReplaceKeepsInbox DEF Prune
  <2> QED
    BY <1>1, <1>4, <2>1 DEF Prune, IInv, StoresOK, WorkersOK
<1> QED
  BY <1>2, <1>3, <1>4

LEMMA TickIInv ==
  ASSUME ConstantsAssumption, IInv, Tick
  PROVE  IInv'
<1>1. InboxOK /\ WorkersOK /\ StoresOK
  BY DEF IInv
<1>2. ASSUME NEW t \in Int PROVE Earlier(t) \in Int
  BY DEF ConstantsAssumption, Earlier
<1>3. InboxOK'
  <2>1. ASSUME NEW k \in Keys
        PROVE  inbox'[k] \in Row /\ Budgeted(inbox'[k])
    BY <1>1, <1>2 DEF Tick, InboxOK, Row, Budgeted
  <2> QED
    BY <2>1 DEF Tick, InboxOK
<1>4. WorkersOK'
  <2>1. ASSUME NEW c \in Consumers
        PROVE  worker'[c] \in Worker /\ Equipped(worker'[c])
    BY <1>1, <1>2 DEF Tick, WorkersOK, Worker, Equipped
  <2> QED
    BY <2>1 DEF Tick, WorkersOK
<1> QED
  BY <1>1, <1>3, <1>4, SameStores DEF Tick, IInv

LEMMA NextIInv ==
  ASSUME ConstantsAssumption
  PROVE  IInv /\ [Next]_vars => IInv'
<1> SUFFICES ASSUME IInv, [Next]_vars PROVE IInv'
  OBVIOUS
<1>1. CASE UNCHANGED vars
  BY <1>1 DEF vars, IInv, InboxOK, WorkersOK, StoresOK
<1>2. CASE Next
  BY <1>2, RedisIInv, ProcessIInv, MaintenanceIInv, TickIInv DEF Next
<1> QED
  BY <1>1, <1>2

LEMMA AlwaysIInv ==
  ASSUME ConstantsAssumption
  PROVE  Spec => []IInv
BY InitIInv, NextIInv, PTL DEF Spec

\* Every table, stream and process of the consumer stays well-formed.
THEOREM TypeCorrect ==
  ASSUME ConstantsAssumption
  PROVE  Spec => []TypeOK
BY AlwaysIInv, IInvImplies, PTL

\* Failures and expired leases never overdraw the budget of an event, however
\* many processes take, lose and reclaim it.
THEOREM BudgetRespected ==
  ASSUME ConstantsAssumption
  PROVE  Spec => []FailureBudget
BY AlwaysIInv, IInvImplies, PTL

-----------------------------------------------------------------------------
(* What becomes of an event. *)

\* Closed by its result, or by a conflicting payload afterwards.
Closed(r) == r.state = "OUTBOXED" \/ (r.state = "DEAD" /\ r.reason = "CONFLICT")

CommittedIsClosed ==
  \A e \in Events :
    e \in outbox \/ (e \in committed /\ e \notin released) => Closed(inbox[e])

-----------------------------------------------------------------------------
(* A closed row stays closed unless it is released. *)

LEMMA OneRow ==
  ASSUME ConstantsAssumption, InboxOK, NEW k \in Keys, NEW r, NEW e \in Events,
         inbox' = [inbox EXCEPT ![k] = r]
  PROVE  (e = k => inbox'[e] = r) /\ (e # k => inbox'[e] = inbox[e])
BY DEF InboxOK, Keys

\* The steps of a process.
LEMMA ProcessKeepsClosed ==
  ASSUME ConstantsAssumption,
         IInv, NEW c \in Consumers, Process(c), NEW e \in Events, Closed(inbox[e])
  PROVE  Closed(inbox'[e])
<1> DEFINE k == KeyOf(c)
<1>1. InboxOK /\ WorkersOK /\ worker[c].pc # "idle"
  BY DEF IInv, Process, RecordPoison, BusyCheck, ClaimConflict, ClaimRefused, ClaimExhausted,
         Claim, FinishWork, LeaseLost, CommitOutboxed, MarkFailure, MarkDead, Defer,
         PublishDeadLetter, MarkDlqPublished, Ack, Settling
<1>2. k \in Keys /\ worker[c].msg \in Keys
  BY <1>1, BusyWorker DEF Keys
<1>3. CASE UNCHANGED inbox
  BY <1>3
<1>4. CASE RecordPoison(c)
  <2>1. CASE inbox[worker[c].msg].state = "ABSENT"
             /\ inbox' = [inbox EXCEPT ![worker[c].msg] = DeadRow(PoisonHash(c), "POISON", 0, FALSE)]
    <3>1. \E r : inbox' = [inbox EXCEPT ![worker[c].msg] = r]
      BY <2>1
    <3> QED
      BY <3>1, <2>1, <1>1, <1>2, OneRow DEF Closed
  <2> QED
    BY <1>3, <1>4, <2>1 DEF RecordPoison
<1>5. CASE ClaimConflict(c)
  BY <1>1, <1>2, <1>5, OneRow DEF ClaimConflict, Closed, DeadRow
<1>6. CASE ClaimExhausted(c) \/ Claim(c)
  <2>1. inbox[k].state = "ABSENT" \/ inbox[k].state \in Open
    BY <1>6 DEF ClaimExhausted, Claim, Due
  <2>2. \E r : inbox' = [inbox EXCEPT ![k] = r]
    BY <1>6 DEF ClaimExhausted, Claim
  <2> QED
    BY <1>1, <1>2, <2>1, <2>2, OneRow DEF Closed, Open
<1>7. CASE CommitOutboxed(c) \/ MarkFailure(c) \/ MarkDead(c) \/ Defer(c)
  <2>1. inbox[k].state = "PROCESSING"
    BY <1>7 DEF CommitOutboxed, MarkFailure, MarkDead, Defer, Fenced
  <2>2. UNCHANGED inbox \/ \E r : inbox' = [inbox EXCEPT ![k] = r]
    BY <1>7 DEF CommitOutboxed, MarkFailure, MarkDead, Defer
  <2> QED
    BY <1>1, <1>2, <1>3, <2>1, <2>2, OneRow DEF Closed
<1>8. CASE MarkDlqPublished(c)
  <2>1. CASE inbox' = [inbox EXCEPT ![k].published = TRUE]
    <3>1. inbox'[e].state = inbox[e].state /\ inbox'[e].reason = inbox[e].reason
      BY <1>1, <1>2, <2>1 DEF InboxOK, Row, Keys
    <3> QED
      BY <3>1 DEF Closed
  <2> QED
    BY <1>3, <1>8, <2>1 DEF MarkDlqPublished
<1> QED
  BY <1>3, <1>4, <1>5, <1>6, <1>7, <1>8
     DEF Process, BusyCheck, ClaimRefused, FinishWork, LeaseLost, PublishDeadLetter, Ack

LEMMA ClosedStays ==
  ASSUME ConstantsAssumption, IInv, [Next]_vars, NEW e \in Events, Closed(inbox[e])
  PROVE  \/ Closed(inbox'[e])
         \/ e \in released' /\ e \notin outbox /\ outbox' = outbox
<1>1. InboxOK
  BY DEF IInv
<1>2. CASE UNCHANGED inbox
  BY <1>2
<1>3. ASSUME NEW c \in Consumers, Process(c) PROVE Closed(inbox'[e])
  BY <1>3, ProcessKeepsClosed
<1>4. ASSUME NEW f \in Events, Rearm(f)
      PROVE  Closed(inbox'[e]) \/ (e \in released' /\ e \notin outbox /\ outbox' = outbox)
  BY <1>1, <1>4, OneRow DEF Rearm, Rearmable, Keys
<1>5. ASSUME NEW k \in Keys, Prune(k)
      PROVE  Closed(inbox'[e]) \/ (e \in released' /\ e \notin outbox /\ outbox' = outbox)
  BY <1>1, <1>5, OneRow DEF Prune, Prunable
<1>6. CASE Tick
  BY <1>1, <1>6 DEF Tick, Closed, Open, Keys
<1> QED
  BY <1>2, <1>3, <1>4, <1>5, <1>6
     DEF Next, vars, Produce, TrimSource, Take, TakeDeleted, TakeEmptied, Abandon, DeliverResult

-----------------------------------------------------------------------------
(* A result appears only with the closing of its event's row. *)

LEMMA ResultsOnlyByCommit ==
  ASSUME ConstantsAssumption, IInv, [Next]_vars, NEW e \in Events,
         e \in outbox' \ outbox \/ e \in committed' \ committed
  PROVE  /\ e \in outbox' /\ e \notin outbox
         /\ inbox[e].state = "PROCESSING" /\ inbox'[e].state = "OUTBOXED"
<1>1. PICK c \in Consumers : CommitOutboxed(c)
  BY DEF Next, vars, Produce, TrimSource, Take, TakeDeleted, TakeEmptied, Process, RecordPoison,
         BusyCheck, ClaimConflict, ClaimRefused, ClaimExhausted, Claim, FinishWork, LeaseLost,
         MarkFailure, MarkDead, Defer, PublishDeadLetter, MarkDlqPublished, Ack, Abandon,
         Rearm, Prune, DeliverResult, Tick, history
<1>2. InboxOK /\ KeyOf(c) \in Keys
  <2>1. WorkersOK /\ worker[c].pc # "idle"
    BY <1>1 DEF IInv, CommitOutboxed
  <2> QED
    BY <2>1, BusyWorker DEF IInv
<1>3. /\ e = KeyOf(c) /\ e \notin outbox /\ e \in outbox'
      /\ inbox' = [inbox EXCEPT ![e] = OutboxedRow(inbox[e].hash, inbox[e].failures)]
  BY <1>1 DEF CommitOutboxed, OutboxAfterCommit
<1>4. inbox[e].state = "PROCESSING"
  BY <1>1, <1>3 DEF CommitOutboxed, Fenced
<1>5. inbox'[e] = OutboxedRow(inbox[e].hash, inbox[e].failures)
  <2>1. PICK r : r = OutboxedRow(inbox[e].hash, inbox[e].failures)
    OBVIOUS
  <2>2. e = KeyOf(c) /\ inbox' = [inbox EXCEPT ![KeyOf(c)] = r]
    BY <1>3, <2>1
  <2> QED
    BY <1>2, <2>1, <2>2 DEF InboxOK, Keys
<1> QED
  BY <1>3, <1>4, <1>5 DEF OutboxedRow

LEMMA ReleasedGrows ==
  ASSUME ConstantsAssumption, [Next]_vars
  PROVE  released \subseteq released'
BY DEF Next, vars, Produce, TrimSource, Take, TakeDeleted, TakeEmptied, Process, RecordPoison,
       BusyCheck, ClaimConflict, ClaimRefused, ClaimExhausted, Claim, FinishWork, LeaseLost,
       CommitOutboxed, MarkFailure, MarkDead, Defer, PublishDeadLetter, MarkDlqPublished, Ack,
       Abandon, Rearm, Prune, DeliverResult, Tick, history

-----------------------------------------------------------------------------
LEMMA CommittedIsClosedStep ==
  ASSUME ConstantsAssumption
  PROVE  IInv /\ CommittedIsClosed /\ [Next]_vars => CommittedIsClosed'
<1> SUFFICES ASSUME IInv, CommittedIsClosed, [Next]_vars, NEW e \in Events,
                    e \in outbox' \/ (e \in committed' /\ e \notin released')
             PROVE  Closed(inbox'[e])
  BY DEF CommittedIsClosed
<1>1. CASE e \in outbox' \ outbox \/ e \in committed' \ committed
  BY <1>1, ResultsOnlyByCommit DEF Closed
<1>2. CASE e \notin outbox' \ outbox /\ e \notin committed' \ committed
  <2>1. e \in outbox \/ (e \in committed /\ e \notin released)
    BY <1>2, ReleasedGrows
  <2>2. Closed(inbox[e])
    BY <2>1 DEF CommittedIsClosed
  <2> QED
    BY <2>2, <1>2, ClosedStays
<1> QED
  BY <1>1, <1>2

LEMMA AlwaysCommittedIsClosed ==
  ASSUME ConstantsAssumption
  PROVE  Spec => [](IInv /\ CommittedIsClosed)
<1>1. Init => IInv /\ CommittedIsClosed
  BY InitIInv DEF Init, CommittedIsClosed
<1>2. IInv /\ CommittedIsClosed /\ [Next]_vars => (IInv /\ CommittedIsClosed)'
  BY NextIInv, CommittedIsClosedStep
<1> QED
  BY <1>1, <1>2, PTL DEF Spec

\* A retained result belongs to an event that no process can claim, rearm or
\* forget: a second analysis under the same run id cannot start.
THEOREM ResultsBelongToClosedEvents ==
  ASSUME ConstantsAssumption
  PROVE  Spec => []ResultOnlyOfClosedEvent
<1>1. IInv /\ CommittedIsClosed => ResultOnlyOfClosedEvent
  BY DEF IInv, StoresOK, CommittedIsClosed, ResultOnlyOfClosedEvent, Closed
<1> QED
  BY <1>1, AlwaysCommittedIsClosed, PTL

\* Exactly-once commit: however often an event is redelivered, reclaimed or
\* retried, a second result is committed only after a release.
THEOREM OneResultPerEvent ==
  ASSUME ConstantsAssumption
  PROVE  Spec => CommittedOnce
<1> DEFINE Once == \A e \in Events : e \in outbox' \ outbox => e \notin committed \/ e \in released
<1>1. IInv /\ CommittedIsClosed /\ [Next]_vars => Once
  <2> SUFFICES ASSUME IInv, CommittedIsClosed, [Next]_vars, NEW e \in Events,
                      e \in outbox' \ outbox, e \in committed, e \notin released
               PROVE  FALSE
    OBVIOUS
  <2>1. inbox[e].state = "PROCESSING"
    BY ResultsOnlyByCommit
  <2> QED
    BY <2>1 DEF CommittedIsClosed, Closed
<1>2. IInv /\ CommittedIsClosed /\ [Next]_vars => [Once]_vars
  BY <1>1
<1> QED
  BY <1>2, AlwaysCommittedIsClosed, PTL DEF Spec, CommittedOnce

-----------------------------------------------------------------------------
(* How rows and processes move. *)

LEMMA KeyRow ==
  ASSUME ConstantsAssumption, InboxOK, NEW k \in Keys, NEW r, NEW j \in Keys,
         inbox' = [inbox EXCEPT ![k] = r]
  PROVE  (j = k => inbox'[j] = r) /\ (j # k => inbox'[j] = inbox[j])
BY DEF InboxOK

LEMMA WorkerMoves ==
  ASSUME ConstantsAssumption, WorkersOK, NEW c \in Consumers, NEW d \in Consumers, NEW w,
         worker' = [worker EXCEPT ![c] = w]
  PROVE  (d = c => worker'[d] = w) /\ (d # c => worker'[d] = worker[d])
BY DEF WorkersOK

LEMMA WorkerFields ==
  ASSUME ConstantsAssumption, NEW pc, NEW m, NEW token, NEW code
  PROVE  /\ WorkerAt(pc, m, token, code).pc = pc /\ WorkerAt(pc, m, token, code).msg = m
         /\ WorkerAt(pc, m, token, code).token = token
         /\ WorkerAt(pc, m, token, code).code = code
BY DEF WorkerAt

\* A process that takes a step has a message in hand.
LEMMA Busy ==
  ASSUME ConstantsAssumption, IInv, NEW c \in Consumers, Process(c)
  PROVE  /\ worker[c].pc # "idle" /\ worker[c].msg \in Messages
         /\ KeyOf(c) \in Keys /\ worker[c].msg \in Keys
<1>1. WorkersOK /\ worker[c].pc # "idle"
  BY DEF IInv, Process, RecordPoison, BusyCheck, ClaimConflict, ClaimRefused, ClaimExhausted,
         Claim, FinishWork, LeaseLost, CommitOutboxed, MarkFailure, MarkDead, Defer,
         PublishDeadLetter, MarkDlqPublished, Ack, Settling
<1> QED
  BY <1>1, BusyWorker DEF Keys

\* A step of a process that draws no lease: it leaves, goes on with what it
\* has, or drops its token on the way to the dead letter or the acknowledgement.
Advances(c) ==
  \/ Leave(c)
  \/ \E pc \in {"claim", "ack", "commit", "fail", "kill"} :
       GoTo(c, pc) /\ worker[c].pc \in {"check", "claim", "work", "mark"}
                   /\ (pc \in Settling => worker[c].pc = "work")
  \/ worker[c].pc = "commit" /\ \E pc \in {"kill", "defer"} : GoTo(c, pc)
  \/ worker[c].pc = "publish" /\ GoTo(c, "mark")
  \/ \E code \in ErrorCodes \cup {None}, already \in BOOLEAN : DeadLetter(c, code, already)
  \/ worker' = [worker EXCEPT ![c] = WorkerAt("ack", @.msg, None, None)]

LEMMA ProcessAdvances ==
  ASSUME ConstantsAssumption, IInv, NEW c \in Consumers, Process(c), ~Claim(c)
  PROVE  Advances(c)
<1>1. InboxOK /\ WorkersOK /\ worker[c].pc # "idle" /\ KeyOf(c) \in Keys /\ worker[c].msg \in Keys
  BY Busy DEF IInv
<1>2. /\ inbox[KeyOf(c)].published \in BOOLEAN /\ inbox[worker[c].msg].published \in BOOLEAN
      /\ worker[c].code \in ErrorCodes \cup {None}
  BY <1>1, RowFields, BusyWorker
<1>3. {"conflict", "previously_dead", "retries_exhausted", "terminal"} \subseteq ErrorCodes
  BY DEF ErrorCodes
<1>4. CASE RecordPoison(c)
  BY <1>2, <1>4 DEF RecordPoison, Advances
<1>5. CASE BusyCheck(c) \/ FinishWork(c) \/ LeaseLost(c) \/ Ack(c)
  BY <1>5 DEF BusyCheck, KeepPending, FinishWork, LeaseLost, Ack, Advances, Settling
<1>6. CASE ClaimConflict(c)
  <2>1. PICK known \in BOOLEAN : DeadLetter(c, "conflict", known)
    BY <1>2, <1>6 DEF ClaimConflict
  <2> QED
    BY <1>3, <2>1 DEF Advances
<1>7. CASE ClaimRefused(c)
  BY <1>2, <1>3, <1>7 DEF ClaimRefused, KeepPending, Advances, Settling
<1>8. CASE ClaimExhausted(c) \/ MarkFailure(c) \/ MarkDead(c) \/ Defer(c)
  BY <1>2, <1>3, <1>8 DEF ClaimExhausted, MarkFailure, MarkDead, Defer, Advances
<1>9. CASE CommitOutboxed(c)
  BY <1>9 DEF CommitOutboxed, Advances
<1>10. CASE PublishDeadLetter(c) \/ MarkDlqPublished(c)
  BY <1>10 DEF PublishDeadLetter, MarkDlqPublished, Advances, Settling
<1> QED
  BY <1>4, <1>5, <1>6, <1>7, <1>8, <1>9, <1>10 DEF Process

\* A lease is drawn in this step.
Claiming == \E c \in Consumers : Claim(c)

Leasing == {"work"} \cup Settling

LEMMA UnclaimedWorker ==
  ASSUME ConstantsAssumption, IInv, [Next]_vars, ~Claiming, NEW d \in Consumers
  PROVE  /\ worker'[d].token \in {worker[d].token, None}
         /\ worker'[d].pc \in Leasing =>
              /\ worker[d].pc \in Leasing /\ worker'[d].msg = worker[d].msg
              /\ worker'[d].token = worker[d].token /\ worker'[d].code = worker[d].code
<1> DEFINE Kept == /\ worker'[d].token \in {worker[d].token, None}
                   /\ worker'[d].pc \in Leasing =>
                        /\ worker[d].pc \in Leasing /\ worker'[d].msg = worker[d].msg
                        /\ worker'[d].token = worker[d].token /\ worker'[d].code = worker[d].code
<1>1. InboxOK /\ WorkersOK
  BY DEF IInv
<1>2. CASE UNCHANGED worker
  BY <1>2
<1>3. ASSUME NEW c \in Consumers, NEW w, worker' = [worker EXCEPT ![c] = w],
             w.token = None, w.pc \notin Leasing
      PROVE  Kept
  BY <1>1, <1>3, WorkerMoves
<1>4. ASSUME NEW c \in Consumers, Leave(c) PROVE Kept
  BY <1>3, <1>4, WorkerFields DEF Leave, IdleWorker, Leasing, Settling
<1>5. ASSUME NEW c \in Consumers, NEW m, NEW pc \in {"check", "ack", "poison"}, NEW code,
             PickUp(c, m, pc, code)
      PROVE  Kept
  BY <1>3, <1>5, WorkerFields DEF PickUp, Leasing, Settling
<1>6. ASSUME NEW c \in Consumers, Advances(c) PROVE Kept
  <2>1. CASE \E pc \in {"claim", "ack", "commit", "fail", "kill"} :
               GoTo(c, pc) /\ worker[c].pc \in {"check", "claim", "work", "mark"}
                           /\ (pc \in Settling => worker[c].pc = "work")
    BY <1>1, <2>1, WorkerMoves, WorkerFields DEF GoTo, Leasing, Settling
  <2>2. CASE worker[c].pc = "commit" /\ \E pc \in {"kill", "defer"} : GoTo(c, pc)
    BY <1>1, <2>2, WorkerMoves, WorkerFields DEF GoTo, Leasing, Settling
  <2>3. CASE worker[c].pc = "publish" /\ GoTo(c, "mark")
    BY <1>1, <2>3, WorkerMoves, WorkerFields DEF GoTo, Leasing, Settling
  <2>4. CASE \E code \in ErrorCodes \cup {None}, already \in BOOLEAN : DeadLetter(c, code, already)
    BY <1>3, <2>4, WorkerFields DEF DeadLetter, Leasing, Settling
  <2>5. CASE worker' = [worker EXCEPT ![c] = WorkerAt("ack", @.msg, None, None)]
    BY <1>3, <2>5, WorkerFields DEF Leasing, Settling
  <2> QED
    BY <1>4, <1>6, <2>1, <2>2, <2>3, <2>4, <2>5 DEF Advances
<1>7. CASE Tick
  <2>1. worker'[d] = IF worker[d].pc \in Stamped
                     THEN [worker[d] EXCEPT !.stamp = Earlier(@)] ELSE worker[d]
    BY <1>7 DEF Tick
  <2>2. worker[d] \in Worker
    BY <1>1 DEF WorkersOK
  <2> QED
    BY <2>1, <2>2 DEF Worker
<1>8. ASSUME NEW c \in Consumers, Process(c) PROVE Kept
  BY <1>6, <1>8, ProcessAdvances DEF Claiming
<1>9. ASSUME NEW c \in Consumers, NEW m \in Messages,
             \/ Take(c, m) \/ TakeDeleted(c, m) \/ TakeEmptied(c, m)
      PROVE  Kept
  BY <1>5, <1>9 DEF Take, TakeDeleted, TakeEmptied
<1>10. ASSUME NEW c \in Consumers, Abandon(c) PROVE Kept
  BY <1>4, <1>10 DEF Abandon
<1> QED
  BY <1>2, <1>7, <1>8, <1>9, <1>10
     DEF Next, vars, Produce, TrimSource, Rearm, DeliverResult, Prune

\* A row that is under lease without a claim was so before, under the same token.
LEMMA UnclaimedRow ==
  ASSUME ConstantsAssumption,
         IInv, [Next]_vars, ~Claiming, NEW j \in Keys, inbox'[j].state = "PROCESSING"
  PROVE  /\ inbox[j].state = "PROCESSING" /\ inbox'[j].token = inbox[j].token
         /\ inbox'[j].hash = inbox[j].hash
<1> DEFINE Kept == /\ inbox[j].state = "PROCESSING" /\ inbox'[j].token = inbox[j].token
                   /\ inbox'[j].hash = inbox[j].hash
<1>1. InboxOK
  BY DEF IInv
<1>2. CASE UNCHANGED inbox
  BY <1>2
<1>3. ASSUME NEW k \in Keys, NEW r, inbox' = [inbox EXCEPT ![k] = r], r.state # "PROCESSING"
      PROVE  Kept
  BY <1>1, <1>3, KeyRow
<1>4. ASSUME NEW k \in Keys, \E r : inbox' = [inbox EXCEPT ![k] = r] /\ r.state # "PROCESSING"
      PROVE  Kept
  BY <1>3, <1>4
<1>6. ASSUME NEW c \in Consumers, Process(c) PROVE Kept
  <2>1. ~Claim(c) /\ KeyOf(c) \in Keys /\ worker[c].msg \in Keys
    BY <1>6, Busy DEF Claiming
  <2>2. CASE RecordPoison(c)
    <3>1. \/ UNCHANGED inbox
          \/ \E r : inbox' = [inbox EXCEPT ![worker[c].msg] = r] /\ r.state # "PROCESSING"
      BY <2>2 DEF RecordPoison, DeadRow
    <3> QED
      BY <1>2, <1>4, <2>1, <3>1
  <2>3. CASE ClaimConflict(c) \/ ClaimExhausted(c) \/ MarkDead(c)
    <3>1. CASE ClaimConflict(c)
      BY <1>1, <2>1, <3>1 DEF ClaimConflict, DeadRow, InboxOK
    <3>2. CASE ClaimExhausted(c)
      BY <1>1, <2>1, <3>2 DEF ClaimExhausted, DeadRow, InboxOK
    <3>3. CASE MarkDead(c)
      BY <1>1, <2>1, <3>3 DEF MarkDead, DeadRow, InboxOK
    <3> QED
      BY <2>3, <3>1, <3>2, <3>3
  <2>4. CASE MarkFailure(c) \/ Defer(c)
    <3>1. CASE Defer(c)
      BY <1>1, <2>1, <3>1 DEF Defer, WaitingRow, InboxOK
    <3>2. CASE MarkFailure(c)
      <4> DEFINE r == inbox[KeyOf(c)]
      <4>1. CASE inbox' = [inbox EXCEPT ![KeyOf(c)] =
                              DeadRow(r.hash, "RETRY_EXHAUSTED", r.failures + 1, r.published)]
        BY <1>1, <2>1, <4>1 DEF DeadRow, InboxOK
      <4>2. CASE inbox' = [inbox EXCEPT ![KeyOf(c)] =
                              WaitingRow(r.hash, r.failures + 1, worker[c].stamp + BackoffTicks)]
        BY <1>1, <2>1, <4>2 DEF WaitingRow, InboxOK
      <4> QED
        BY <3>2, <4>1, <4>2 DEF MarkFailure
    <3> QED
      BY <2>4, <3>1, <3>2
  <2>5. CASE CommitOutboxed(c)
    BY <1>1, <2>1, <2>5 DEF CommitOutboxed, OutboxedRow, InboxOK
  <2>6. CASE MarkDlqPublished(c)
    <3>1. CASE inbox' = [inbox EXCEPT ![KeyOf(c)].published = TRUE] /\ inbox[KeyOf(c)].state = "DEAD"
      BY <1>1, <2>1, <3>1 DEF InboxOK, Row
    <3> QED
      BY <1>2, <2>6, <3>1 DEF MarkDlqPublished
  <2> QED
    BY <1>2, <1>6, <2>1, <2>2, <2>3, <2>4, <2>5, <2>6
       DEF Process, BusyCheck, ClaimRefused, FinishWork, LeaseLost, PublishDeadLetter, Ack
<1>7. ASSUME NEW e \in Events, Rearm(e) PROVE Kept
  BY <1>1, <1>7 DEF Rearm, WaitingRow, InboxOK, Keys
<1>8. ASSUME NEW k \in Keys, Prune(k) PROVE Kept
  <2>1. AbsentRow.state # "PROCESSING"
    BY DEF AbsentRow
  <2> QED
    BY <1>3, <1>8, <2>1 DEF Prune
<1>9. CASE Tick
  <2>1. inbox'[j] = IF inbox[j].state \in Open
                    THEN [inbox[j] EXCEPT !.availableAt = Earlier(@)] ELSE inbox[j]
    BY <1>9 DEF Tick
  <2>2. inbox[j] \in Row
    BY <1>1 DEF InboxOK
  <2> QED
    BY <2>1, <2>2 DEF Row
<1> QED
  BY <1>2, <1>6, <1>7, <1>8, <1>9
     DEF Next, vars, Produce, TrimSource, Take, TakeDeleted, TakeEmptied, Abandon, DeliverResult

-----------------------------------------------------------------------------
(* Leases: a token is in one hand, and a row is settled with the payload it   *)
(* was claimed with.                                                          *)

TokensOK ==
  /\ \A c, d \in Consumers :
       worker[c].token # None /\ worker[c].token = worker[d].token => c = d
  /\ \A k \in Keys : inbox[k].state = "PROCESSING" => inbox[k].token \in Tokens

HashesOK ==
  \A c \in Consumers :
    /\ worker[c].pc \in Leasing
    /\ inbox[KeyOf(c)].state = "PROCESSING" /\ inbox[KeyOf(c)].token = worker[c].token
    => inbox[KeyOf(c)].hash = Body[worker[c].msg].hash

LeasesOK == TokensOK /\ HashesOK

LEMMA ClaimLeases ==
  ASSUME ConstantsAssumption, IInv, LeasesOK, NEW c \in Consumers, Claim(c)
  PROVE  LeasesOK'
<1> DEFINE k == KeyOf(c)
           h == Body[worker[c].msg].hash
<1>1. /\ InboxOK /\ WorkersOK /\ k \in Keys /\ worker[c].pc # "idle"
      /\ Process(c) /\ worker[c].pc \in Handling
  BY Busy DEF IInv, Process, Claim, Handling
<1>2. PICK t \in Tokens \ LiveTokens, spent \in {inbox[k].failures + 1, inbox[k].failures} :
        /\ inbox' = [inbox EXCEPT ![k] =
                        LeasedRow(h, spent, worker[c].stamp + LeaseTicks, t)]
        /\ worker' = [worker EXCEPT ![c] = WorkerAt("work", worker[c].msg, t, None)]
  BY DEF Claim
<1> HIDE DEF k, h
<1>3. /\ t \in Tokens /\ t # None
      /\ \A d \in Consumers : worker[d].token # t
      /\ \A j \in Keys : inbox[j].token # t
  BY DEF ConstantsAssumption, LiveTokens
<1>4. /\ worker'[c].pc = "work" /\ worker'[c].msg = worker[c].msg /\ worker'[c].token = t
      /\ worker'[c].code = None
      /\ \A d \in Consumers \ {c} : worker'[d] = worker[d]
  BY <1>1, <1>2 DEF WorkersOK, WorkerAt
<1>5. /\ inbox'[k].state = "PROCESSING" /\ inbox'[k].token = t /\ inbox'[k].hash = h
      /\ \A j \in Keys \ {k} : inbox'[j] = inbox[j]
  BY <1>1, <1>2 DEF InboxOK, LeasedRow
<1>6. TokensOK'
  BY <1>3, <1>4, <1>5 DEF LeasesOK, TokensOK
<1>7. HashesOK'
  <2> SUFFICES ASSUME NEW d \in Consumers, worker'[d].pc \in Leasing,
                      inbox'[KeyOf(d)'].state = "PROCESSING",
                      inbox'[KeyOf(d)'].token = worker'[d].token
               PROVE  inbox'[KeyOf(d)'].hash = Body[worker'[d].msg].hash
    BY DEF HashesOK
  <2>1. CASE d = c
    <3>1. KeyOf(c)' = k
      <4>1. worker[c].code = None
        BY <1>1, BusyWorker
      <4> QED
        BY <1>4, <4>1 DEF KeyOf, k
    <3> QED
      BY <1>4, <1>5, <2>1, <3>1 DEF h
  <2>2. CASE d # c
    <3>1. worker'[d] = worker[d] /\ KeyOf(d)' = KeyOf(d)
      BY <1>4, <2>2 DEF KeyOf
    <3>2. KeyOf(d) \in Keys /\ KeyOf(d) # k
      <4>1. worker[d].pc # "idle"
        BY <3>1 DEF Leasing, Settling
      <4> QED
        BY <1>1, <1>3, <1>5, <3>1, <4>1, BusyWorker
    <3> QED
      BY <1>5, <3>1, <3>2 DEF LeasesOK, HashesOK
  <2> QED
    BY <2>1, <2>2
<1> QED
  BY <1>6, <1>7 DEF LeasesOK

LEMMA LeasesStep ==
  ASSUME ConstantsAssumption
  PROVE  IInv /\ LeasesOK /\ [Next]_vars => LeasesOK'
<1> SUFFICES ASSUME IInv, LeasesOK, [Next]_vars PROVE LeasesOK'
  OBVIOUS
<1>1. CASE Claiming
  BY <1>1, ClaimLeases DEF Claiming
<1>2. CASE ~Claiming
  <2>1. TokensOK'
    <3>1. \A c, d \in Consumers :
            worker'[c].token # None /\ worker'[c].token = worker'[d].token => c = d
      BY <1>2, UnclaimedWorker DEF LeasesOK, TokensOK
    <3>2. \A k \in Keys : inbox'[k].state = "PROCESSING" => inbox'[k].token \in Tokens
      BY <1>2, UnclaimedRow DEF LeasesOK, TokensOK
    <3> QED
      BY <3>1, <3>2 DEF TokensOK
  <2>2. HashesOK'
    <3> SUFFICES ASSUME NEW d \in Consumers, worker'[d].pc \in Leasing,
                        inbox'[KeyOf(d)'].state = "PROCESSING",
                        inbox'[KeyOf(d)'].token = worker'[d].token
                 PROVE  inbox'[KeyOf(d)'].hash = Body[worker'[d].msg].hash
      BY DEF HashesOK
    <3>1. /\ worker[d].pc \in Leasing /\ worker'[d].msg = worker[d].msg
          /\ worker'[d].token = worker[d].token /\ worker'[d].code = worker[d].code
      BY <1>2, UnclaimedWorker
    <3>2. KeyOf(d)' = KeyOf(d) /\ KeyOf(d) \in Keys
      <4>1. worker[d].pc # "idle"
        BY <3>1 DEF Leasing, Settling
      <4> QED
        BY <3>1, <4>1, BusyWorker DEF KeyOf, IInv
    <3> QED
      BY <1>2, <3>1, <3>2, UnclaimedRow DEF LeasesOK, HashesOK
  <2> QED
    BY <2>1, <2>2 DEF LeasesOK
<1> QED
  BY <1>1, <1>2

LEMMA AlwaysLeases ==
  ASSUME ConstantsAssumption
  PROVE  Spec => [](IInv /\ LeasesOK)
<1>1. Init => LeasesOK
  BY WorkerFields DEF Init, LeasesOK, TokensOK, HashesOK, AbsentRow, IdleWorker, Leasing, Settling
<1>2. Init => IInv /\ LeasesOK
  BY <1>1, InitIInv
<1>3. IInv /\ LeasesOK /\ [Next]_vars => (IInv /\ LeasesOK)'
  BY NextIInv, LeasesStep
<1> QED
  BY <1>2, <1>3, PTL DEF Spec

\* However many processes believe they own an event after pauses, expired leases
\* and reclaims, the fence of the settling transactions lets one of them pass.
THEOREM OneSettlerPerEvent ==
  ASSUME ConstantsAssumption
  PROVE  Spec => []OneSettler
<1>1. IInv /\ LeasesOK => OneSettler
  <2> SUFFICES ASSUME IInv, LeasesOK, NEW c \in Consumers, NEW d \in Consumers,
                      worker[c].pc \in Settling,
                      KeyOf(c) = KeyOf(d), Fenced(c), Fenced(d)
               PROVE  c = d
    BY DEF OneSettler
  <2>1. KeyOf(c) \in Keys
    BY BusyWorker DEF IInv, Settling
  <2>2. inbox[KeyOf(c)].token \in Tokens /\ None \notin Tokens
    BY <2>1 DEF ConstantsAssumption, LeasesOK, TokensOK, Fenced
  <2> QED
    BY <2>2 DEF LeasesOK, TokensOK, Fenced
<1> QED
  BY <1>1, AlwaysLeases, PTL

-----------------------------------------------------------------------------
(* A closed row only moves on: to a conflict that is not published yet, to    *)
(* having been published, or out of the inbox by a release.                   *)

Conflict(r) == r.state = "DEAD" /\ r.reason = "CONFLICT"

Progress(r, s) ==
  r.state \in Terminal =>
    /\ s.state \in Terminal /\ s.hash = r.hash
    /\ Conflict(s) \/ (s.state = r.state /\ s.reason = r.reason)
    /\ r.published => s.published \/ (Conflict(s) /\ ~Conflict(r))

LEMMA ProcessProgress ==
  ASSUME ConstantsAssumption, IInv, NEW c \in Consumers, Process(c), NEW j \in Keys
  PROVE  Progress(inbox[j], inbox'[j])
<1> DEFINE k == KeyOf(c)
           r == inbox[k]
<1>1. /\ InboxOK /\ k \in Keys /\ worker[c].msg \in Keys /\ r \in Row
      /\ r.published \in BOOLEAN
  BY Busy, RowFields DEF IInv
<1>2. CASE UNCHANGED inbox
  BY <1>2 DEF Progress
<1>3. ASSUME NEW i \in Keys, inbox[i].state \notin Terminal, NEW s,
             inbox' = [inbox EXCEPT ![i] = s]
      PROVE  Progress(inbox[j], inbox'[j])
  BY <1>1, <1>3, KeyRow DEF Progress
<1>4. CASE RecordPoison(c)
  <2>1. "ABSENT" \notin Terminal
    BY DEF Terminal
  <2> QED
    BY <1>1, <1>2, <1>3, <1>4, <2>1 DEF RecordPoison
<1>5. CASE ClaimConflict(c)
  <2> DEFINE known == r.state = "DEAD" /\ r.reason = "CONFLICT" /\ r.published
             s == DeadRow(r.hash, "CONFLICT", r.failures, known)
  <2>1. inbox' = [inbox EXCEPT ![k] = s]
    BY <1>5 DEF ClaimConflict
  <2>2. /\ s.state = "DEAD" /\ s.hash = r.hash /\ s.reason = "CONFLICT" /\ s.published = known
        /\ "DEAD" \in Terminal
    BY DEF DeadRow, Terminal
  <2>3. Progress(r, s)
    BY <2>2 DEF Progress, Conflict
  <2> HIDE DEF s, known
  <2> QED
    BY <1>1, <2>1, <2>3, KeyRow DEF Progress
<1>6. CASE Claim(c) \/ ClaimExhausted(c)
  <2>1. r.state \notin Terminal
    BY <1>6 DEF Claim, ClaimExhausted, Due, Open, Terminal
  <2>2. \E s : inbox' = [inbox EXCEPT ![k] = s]
    BY <1>6 DEF Claim, ClaimExhausted
  <2> HIDE DEF k, r
  <2> QED
    BY <1>1, <1>3, <2>1, <2>2 DEF r
<1>7. CASE CommitOutboxed(c) \/ MarkFailure(c) \/ MarkDead(c) \/ Defer(c)
  <2>1. r.state \notin Terminal
    BY <1>7 DEF CommitOutboxed, MarkFailure, MarkDead, Defer, Fenced, Terminal
  <2>2. UNCHANGED inbox \/ \E s : inbox' = [inbox EXCEPT ![k] = s]
    BY <1>7 DEF CommitOutboxed, MarkFailure, MarkDead, Defer
  <2> HIDE DEF k, r
  <2> QED
    BY <1>1, <1>2, <1>3, <2>1, <2>2 DEF r
<1>8. CASE MarkDlqPublished(c)
  <2>1. CASE inbox' = [inbox EXCEPT ![k] = [r EXCEPT !.published = TRUE]] /\ r.state = "DEAD"
    <3> DEFINE s == [r EXCEPT !.published = TRUE]
    <3>1. s.state = r.state /\ s.hash = r.hash /\ s.reason = r.reason /\ s.published
      BY <1>1 DEF Row
    <3>2. Progress(r, s)
      BY <3>1 DEF Progress
    <3> HIDE DEF s
    <3> QED
      BY <1>1, <2>1, <3>2, KeyRow DEF Progress, s
  <2> QED
    BY <1>1, <1>2, <1>8, <2>1 DEF MarkDlqPublished, InboxOK
<1> QED
  BY <1>2, <1>4, <1>5, <1>6, <1>7, <1>8
     DEF Process, BusyCheck, ClaimRefused, FinishWork, LeaseLost, PublishDeadLetter, Ack

LEMMA RowsProgress ==
  ASSUME ConstantsAssumption, IInv, [Next]_vars, NEW j \in Keys
  PROVE  Progress(inbox[j], inbox'[j]) \/ j \in released'
<1>1. InboxOK
  BY DEF IInv
<1>2. CASE UNCHANGED inbox
  BY <1>2 DEF Progress
<1>3. ASSUME NEW e \in Events, Rearm(e) PROVE Progress(inbox[j], inbox'[j]) \/ j \in released'
  BY <1>1, <1>3, KeyRow DEF Rearm, Keys, Progress
<1>4. ASSUME NEW k \in Keys, Prune(k) PROVE Progress(inbox[j], inbox'[j]) \/ j \in released'
  BY <1>1, <1>4, KeyRow DEF Prune, Progress
<1>5. CASE Tick
  BY <1>1, <1>5 DEF Tick, Progress, Open, Terminal
<1>6. ASSUME NEW c \in Consumers, Process(c) PROVE Progress(inbox[j], inbox'[j])
  BY <1>6, ProcessProgress
<1> QED
  BY <1>2, <1>3, <1>4, <1>5, <1>6
     DEF Next, vars, Produce, TrimSource, Take, TakeDeleted, TakeEmptied, Abandon, DeliverResult

-----------------------------------------------------------------------------
(* What a process knows about the row that sent it on, and what an            *)
(* acknowledgement leaves behind.                                             *)

\* The row was closed by this payload, or by a payload that contradicts another.
SettledBy(r, h) == r.state \in Terminal /\ (r.hash = h \/ Conflict(r))

\* Nothing is left to do for this payload.
FinishedBy(r, h) ==
  /\ r.state \in Terminal
  /\ IF r.hash = h THEN r.state = "DEAD" => r.published \/ Conflict(r)
     ELSE Conflict(r) /\ r.published

\* The entry may be dead-lettered; it may be acknowledged.
Dying(m) ==
  LET e == Body[m].event
  IN  Body[m].kind = "ready" /\ (e \in released \/ SettledBy(inbox[e], Body[m].hash))

Decided(m) ==
  LET e == Body[m].event
  IN  \/ Body[m].kind = "foreign" \/ RecordedPoison(m)
      \/ Body[m].kind = "ready" /\ (e \in released \/ FinishedBy(inbox[e], Body[m].hash))

\* What was decided stays so: released for good, or closed for good.
LEMMA Lasting ==
  ASSUME ConstantsAssumption, IInv, [Next]_vars, NEW m \in Messages
  PROVE  /\ RecordedPoison(m) => RecordedPoison(m)'
         /\ Dying(m) => Dying(m)'
         /\ Decided(m) => Decided(m)'
<1> DEFINE e == Body[m].event
<1>1. /\ m \in Keys /\ e \in Keys /\ released \subseteq released'
      /\ "DEAD" \in Terminal
  BY ReleasedGrows DEF ConstantsAssumption, Keys, Terminal
<1>2. /\ Progress(inbox[m], inbox'[m]) \/ m \in released'
      /\ Progress(inbox[e], inbox'[e]) \/ e \in released'
  BY <1>1, RowsProgress
<1>3. RecordedPoison(m) => RecordedPoison(m)'
  BY <1>1, <1>2 DEF RecordedPoison, Progress, Conflict
<1>4. e \in released' \/ (SettledBy(inbox[e], Body[m].hash) => SettledBy(inbox'[e], Body[m].hash))
  BY <1>2 DEF Progress, SettledBy, Conflict
<1>5. e \in released' \/ (FinishedBy(inbox[e], Body[m].hash) => FinishedBy(inbox'[e], Body[m].hash))
  BY <1>2 DEF Progress, FinishedBy, Conflict
<1>6. Dying(m) => Dying(m)'
  BY <1>1, <1>4 DEF Dying
<1>7. Decided(m) => Decided(m)'
  BY <1>1, <1>3, <1>5 DEF Decided
<1> QED
  BY <1>3, <1>6, <1>7

\* A row under a message id is a poison row, and is written with a poison code.
PoisonOK ==
  /\ \A m \in Messages : inbox[m].state \in {"ABSENT", "DEAD"}
  /\ \A c \in Consumers : worker[c].pc = "poison" => worker[c].code \in PoisonCodes

\* What a process has in hand was delivered to the group.
TakenOK == \A c \in Consumers : worker[c].pc # "idle" => msgs[worker[c].msg] \notin {"unsent", "stream"}

StepOK(c) ==
  /\ worker[c].pc \in {"publish", "mark"} =>
       IF worker[c].code \in PoisonCodes THEN RecordedPoison(worker[c].msg) ELSE Dying(worker[c].msg)
  /\ worker[c].pc = "ack" => Decided(worker[c].msg)

StepsOK == \A c \in Consumers : StepOK(c)

AckedOK == \A m \in Messages : msgs[m] = "acked" => Decided(m)

\* The entry will put the event's dead letter on the stream when it comes back,
\* or is itself on record as unreadable; after a conflict the contradicting one does.
Carries(m, e) ==
  /\ Body[m].kind = "ready" /\ Body[m].event = e
  /\ \/ RecordedPoison(m)
     \/ /\ msgs[m] \in {"pending", "orphaned", "purged"}
        /\ Conflict(inbox[e]) => Body[m].hash # inbox[e].hash

CarriersOK ==
  \A e \in Events \ released :
    inbox[e].state = "DEAD" /\ ~inbox[e].published => \E m \in Messages : Carries(m, e)

OutcomeOK == PoisonOK /\ TakenOK /\ StepsOK /\ AckedOK /\ CarriersOK

-----------------------------------------------------------------------------
\* A step of a process moves that process alone.
LEMMA OthersStay ==
  ASSUME ConstantsAssumption, IInv, NEW c \in Consumers, Process(c), NEW d \in Consumers \ {c}
  PROVE  worker'[d] = worker[d]
<1>1. WorkersOK
  BY DEF IInv
<1>2. CASE Claim(c)
  BY <1>1, <1>2, WorkerMoves DEF Claim
<1>3. CASE ~Claim(c)
  <2>1. Advances(c)
    BY <1>3, ProcessAdvances
  <2> QED
    BY <1>1, <2>1, WorkerMoves DEF Advances, Leave, GoTo, DeadLetter
<1> QED
  BY <1>2, <1>3

\* A worker that goes on keeps its entry.
LEMMA StaysOn ==
  ASSUME ConstantsAssumption, IInv, NEW c \in Consumers, Process(c)
  PROVE  /\ worker'[c].pc # "idle" => worker'[c].msg = worker[c].msg
         /\ worker'[c].pc # "poison"
<1>1. WorkersOK
  BY DEF IInv
<1>2. CASE Claim(c)
  BY <1>1, <1>2 DEF Claim, WorkersOK, WorkerAt
<1>3. CASE ~Claim(c)
  <2>1. Advances(c)
    BY <1>3, ProcessAdvances
  <2>2. CASE Leave(c)
    BY <1>1, <2>2 DEF Leave, IdleWorker, WorkersOK, WorkerAt
  <2>3. CASE \E pc \in {"claim", "ack", "commit", "fail", "kill", "defer", "mark"} : GoTo(c, pc)
    BY <1>1, <2>3 DEF GoTo, WorkersOK, WorkerAt
  <2>4. CASE \E code \in ErrorCodes \cup {None}, already \in BOOLEAN : DeadLetter(c, code, already)
    BY <1>1, <2>4 DEF DeadLetter, WorkersOK, WorkerAt
  <2>5. CASE worker' = [worker EXCEPT ![c] = WorkerAt("ack", @.msg, None, None)]
    BY <1>1, <2>5 DEF WorkersOK, WorkerAt
  <2> QED
    BY <2>1, <2>2, <2>3, <2>4, <2>5 DEF Advances
<1> QED
  BY <1>2, <1>3

\* Tick changes no more of a worker than its timestamp.
LEMMA TickWorkers ==
  ASSUME ConstantsAssumption, IInv, Tick, NEW d \in Consumers
  PROVE  /\ worker'[d].pc = worker[d].pc /\ worker'[d].msg = worker[d].msg
         /\ worker'[d].code = worker[d].code
<1>1. worker'[d] = IF worker[d].pc \in Stamped
                   THEN [worker[d] EXCEPT !.stamp = Earlier(@)] ELSE worker[d]
  BY DEF Tick
<1>2. worker[d] \in Worker
  BY DEF IInv, WorkersOK
<1> QED
  BY <1>1, <1>2 DEF Worker

\* A worker that does not take a step of its own: it stands still, is stopped,
\* or takes up an entry.
LEMMA Standing ==
  ASSUME ConstantsAssumption, IInv, [Next]_vars, NEW d \in Consumers, ~Process(d)
  PROVE  \/ /\ worker'[d].pc = worker[d].pc /\ worker'[d].msg = worker[d].msg
            /\ worker'[d].code = worker[d].code
         \/ worker'[d].pc = "idle"
         \/ \E m \in Messages :
              /\ worker'[d].msg = m /\ msgs'[m] \in {"pending", "orphaned", "purged"}
              /\ \/ worker'[d].pc = "check"
                 \/ worker'[d].pc = "ack" /\ Body[m].kind = "foreign"
                 \/ worker'[d].pc = "poison" /\ worker'[d].code \in PoisonCodes
<1>1. WorkersOK /\ msgs \in [Messages -> MessageStates]
  BY DEF IInv, StoresOK
<1>2. CASE UNCHANGED worker
  BY <1>2
<1>3. ASSUME NEW c \in Consumers, Process(c) PROVE worker'[d] = worker[d]
  BY <1>3, OthersStay
<1>4. ASSUME NEW c \in Consumers, Abandon(c) PROVE worker'[d] = worker[d] \/ worker'[d].pc = "idle"
  BY <1>1, <1>4, WorkerMoves, WorkerFields DEF Abandon, Leave, IdleWorker
<1>5. ASSUME NEW c \in Consumers, NEW m \in Messages,
             \/ Take(c, m) \/ TakeDeleted(c, m) \/ TakeEmptied(c, m), d = c
      PROVE  /\ worker'[d].msg = m /\ msgs'[m] \in {"pending", "orphaned", "purged"}
             /\ \/ worker'[d].pc = "check"
                \/ worker'[d].pc = "ack" /\ Body[m].kind = "foreign"
                \/ worker'[d].pc = "poison" /\ worker'[d].code \in PoisonCodes
  <2>1. msgs'[m] \in {"pending", "orphaned", "purged"}
    BY <1>1, <1>5 DEF Take, TakeDeleted, TakeEmptied
  <2>2. CASE Take(c, m)
    BY <1>1, <1>5, <2>1, <2>2 DEF Take, PickUp, WorkersOK, WorkerAt, PoisonCodes
  <2>3. CASE TakeDeleted(c, m) \/ TakeEmptied(c, m)
    BY <1>1, <1>5, <2>1, <2>3 DEF TakeDeleted, TakeEmptied, PickUp, WorkersOK, WorkerAt, PoisonCodes
  <2> QED
    BY <1>5, <2>2, <2>3
<1>6. ASSUME NEW c \in Consumers, NEW m \in Messages,
             \/ Take(c, m) \/ TakeDeleted(c, m) \/ TakeEmptied(c, m), d # c
      PROVE  worker'[d] = worker[d]
  BY <1>1, <1>6, WorkerMoves DEF Take, TakeDeleted, TakeEmptied, PickUp
<1>7. CASE Tick
  BY <1>7, TickWorkers
<1> QED
  BY <1>2, <1>3, <1>4, <1>5, <1>6, <1>7
     DEF Next, vars, Produce, TrimSource, Rearm, DeliverResult, Prune

-----------------------------------------------------------------------------
LEMMA PoisonStep ==
  ASSUME ConstantsAssumption, IInv, PoisonOK, [Next]_vars
  PROVE  PoisonOK'
<1>1. InboxOK /\ WorkersOK /\ Messages \cap Events = {}
  BY DEF ConstantsAssumption, IInv
<1>2. ASSUME NEW m \in Messages PROVE inbox'[m].state \in {"ABSENT", "DEAD"}
  <2> DEFINE Kept == inbox'[m].state \in {"ABSENT", "DEAD"}
  <2>1. m \in Keys /\ inbox[m].state \in {"ABSENT", "DEAD"}
    BY DEF Keys, PoisonOK
  <2>2. CASE UNCHANGED inbox
    BY <2>1, <2>2
  <2>3. ASSUME NEW c \in Consumers, Process(c) PROVE Kept
    <3>1. KeyOf(c) \in Keys /\ worker[c].msg \in Keys /\ worker[c].pc # "idle"
      BY <2>3, Busy
    <3>2. CASE worker[c].pc \in Handling
      <4>1. KeyOf(c) # m
        BY <1>1, <3>1, <3>2, BusyWorker
      <4>2. UNCHANGED inbox \/ \E r : inbox' = [inbox EXCEPT ![KeyOf(c)] = r]
        BY <2>3, <3>2
           DEF Process, RecordPoison, BusyCheck, ClaimConflict, ClaimRefused, ClaimExhausted, Claim,
               FinishWork, LeaseLost, CommitOutboxed, MarkFailure, MarkDead, Defer,
               PublishDeadLetter, MarkDlqPublished, Ack, Handling, Settling
      <4> HIDE DEF Kept
      <4> QED
        BY <1>1, <2>1, <2>2, <3>1, <4>1, <4>2, KeyRow DEF Kept
    <3>3. CASE RecordPoison(c)
      <4>1. CASE inbox' = [inbox EXCEPT ![worker[c].msg] = DeadRow(PoisonHash(c), "POISON", 0, FALSE)]
        BY <1>1, <2>1, <3>1, <4>1 DEF InboxOK, DeadRow
      <4> QED
        BY <2>2, <3>3, <4>1 DEF RecordPoison
    <3>4. CASE MarkDlqPublished(c)
      BY <1>1, <2>1, <2>2, <3>1, <3>4 DEF MarkDlqPublished, InboxOK, Row
    <3> QED
      BY <2>2, <2>3, <3>2, <3>3, <3>4
         DEF Process, BusyCheck, ClaimConflict, ClaimRefused, ClaimExhausted, Claim, FinishWork,
             LeaseLost, CommitOutboxed, MarkFailure, MarkDead, Defer, PublishDeadLetter, Ack,
             Handling, Settling
  <2>4. ASSUME NEW e \in Events, Rearm(e) PROVE Kept
    BY <1>1, <2>1, <2>4, KeyRow DEF Rearm, Keys
  <2>5. ASSUME NEW k \in Keys, Prune(k) PROVE Kept
    BY <1>1, <2>1, <2>5 DEF Prune, InboxOK, AbsentRow
  <2>6. CASE Tick
    BY <2>1, <2>6 DEF Tick, Open
  <2> QED
    BY <2>2, <2>3, <2>4, <2>5, <2>6
       DEF Next, vars, Produce, TrimSource, Take, TakeDeleted, TakeEmptied, Abandon, DeliverResult
<1>3. ASSUME NEW d \in Consumers, worker'[d].pc = "poison" PROVE worker'[d].code \in PoisonCodes
  BY <1>3, Standing, StaysOn DEF PoisonOK
<1> QED
  BY <1>2, <1>3 DEF PoisonOK

\* An entry's place in the group.
LEMMA EntryMoves ==
  ASSUME ConstantsAssumption, IInv, [Next]_vars, NEW m \in Messages
  PROVE  /\ msgs[m] \notin {"unsent", "stream"} => msgs'[m] \notin {"unsent", "stream"}
         /\ msgs'[m] = msgs[m] \/ msgs'[m] # "acked"
            \/ \E c \in Consumers : Ack(c) /\ worker[c].msg = m
<1>1. msgs \in [Messages -> MessageStates]
  BY DEF IInv, StoresOK
<1>2. CASE UNCHANGED msgs
  BY <1>2
<1>3. ASSUME NEW n \in Messages, Produce(n) \/ TrimSource(n)
      PROVE  /\ msgs[m] \notin {"unsent", "stream"} => msgs'[m] \notin {"unsent", "stream"}
             /\ msgs'[m] = msgs[m] \/ msgs'[m] # "acked"
  BY <1>1, <1>3 DEF Produce, TrimSource
<1>4. ASSUME NEW c \in Consumers, NEW n \in Messages,
             \/ Take(c, n) \/ TakeDeleted(c, n) \/ TakeEmptied(c, n)
      PROVE  /\ msgs[m] \notin {"unsent", "stream"} => msgs'[m] \notin {"unsent", "stream"}
             /\ msgs'[m] = msgs[m] \/ msgs'[m] # "acked"
  BY <1>1, <1>4 DEF Take, TakeDeleted, TakeEmptied
<1>5. ASSUME NEW c \in Consumers, Ack(c)
      PROVE  /\ msgs[m] \notin {"unsent", "stream"} => msgs'[m] \notin {"unsent", "stream"}
             /\ msgs'[m] = msgs[m] \/ worker[c].msg = m
  BY <1>1, <1>5 DEF Ack
<1> QED
  BY <1>2, <1>3, <1>4, <1>5
     DEF Next, vars, Process, RecordPoison, BusyCheck, ClaimConflict, ClaimRefused,
         ClaimExhausted, Claim, FinishWork, LeaseLost, CommitOutboxed, MarkFailure, MarkDead,
         Defer, PublishDeadLetter, MarkDlqPublished, Abandon, Rearm, Prune, DeliverResult, Tick

LEMMA TakenStep ==
  ASSUME ConstantsAssumption, IInv, TakenOK, [Next]_vars
  PROVE  TakenOK'
<1> SUFFICES ASSUME NEW d \in Consumers, worker'[d].pc # "idle"
             PROVE  msgs'[worker'[d].msg] \notin {"unsent", "stream"}
  BY DEF TakenOK
<1>1. ASSUME worker[d].pc # "idle" PROVE msgs'[worker[d].msg] \notin {"unsent", "stream"}
  <2>1. worker[d].msg \in Messages
    BY <1>1, BusyWorker DEF IInv
  <2> QED
    BY <1>1, <2>1, EntryMoves DEF TakenOK
<1>2. CASE Process(d)
  BY <1>1, <1>2, StaysOn, Busy
<1>3. CASE ~Process(d)
  BY <1>1, <1>3, Standing
<1> QED
  BY <1>2, <1>3

-----------------------------------------------------------------------------
(* Whoever dead-letters or acknowledges has a decided row behind him. *)

LEMMA DeadLetterMoves ==
  ASSUME ConstantsAssumption, WorkersOK, NEW c \in Consumers, NEW code, NEW already \in BOOLEAN,
         DeadLetter(c, code, already)
  PROVE  /\ worker'[c].pc = IF already THEN "ack" ELSE "publish"
         /\ worker'[c].msg = worker[c].msg /\ worker'[c].code = code
BY DEF DeadLetter, WorkersOK, WorkerAt

\* A dead letter of a ready event that the row agrees with.
LEMMA DyingStep ==
  ASSUME ConstantsAssumption,
         WorkersOK, NEW c \in Consumers, NEW m \in Messages, worker[c].msg = m,
         NEW code, code \notin PoisonCodes, NEW already \in BOOLEAN,
         DeadLetter(c, code, already), Body[m].kind = "ready",
         SettledBy(inbox'[Body[m].event], Body[m].hash),
         already => FinishedBy(inbox'[Body[m].event], Body[m].hash)
  PROVE  StepOK(c)'
<1>1. /\ worker'[c].pc = IF already THEN "ack" ELSE "publish"
      /\ worker'[c].msg = m /\ worker'[c].code = code
  BY DeadLetterMoves
<1>2. Dying(m)' /\ (already => Decided(m)')
  BY DEF Dying, Decided
<1> QED
  BY <1>1, <1>2 DEF StepOK

LEMMA RecordPoisonStepOK ==
  ASSUME ConstantsAssumption, IInv, PoisonOK, NEW c \in Consumers, RecordPoison(c)
  PROVE  StepOK(c)'
<1> PICK m : m = worker[c].msg
  OBVIOUS
<1>1. /\ InboxOK /\ WorkersOK /\ m \in Messages /\ m \in Keys /\ Process(c)
      /\ worker[c].code \in PoisonCodes
      /\ inbox[m].state \in {"ABSENT", "DEAD"} /\ inbox[m].published \in BOOLEAN
  BY Busy, RowFields DEF IInv, PoisonOK, RecordPoison, Process
<1>2. CASE Leave(c)
  BY <1>1, <1>2 DEF Leave, IdleWorker, WorkersOK, WorkerAt, StepOK
<1>3. ASSUME NEW already \in BOOLEAN, DeadLetter(c, worker[c].code, already), inbox'[m].state = "DEAD"
      PROVE  StepOK(c)'
  <2>1. /\ worker'[c].pc = IF already THEN "ack" ELSE "publish"
        /\ worker'[c].msg = m /\ worker'[c].code = worker[c].code
    BY <1>1, <1>3, DeadLetterMoves
  <2>2. RecordedPoison(m)' /\ Decided(m)'
    BY <1>3 DEF RecordedPoison, Decided
  <2> QED
    BY <1>1, <2>1, <2>2 DEF StepOK
<1>4. CASE /\ inbox' = [inbox EXCEPT ![m] = DeadRow(PoisonHash(c), "POISON", 0, FALSE)]
           /\ DeadLetter(c, worker[c].code, FALSE)
  <2>1. inbox'[m].state = "DEAD"
    BY <1>1, <1>4 DEF InboxOK, DeadRow
  <2> QED
    BY <1>3, <1>4, <2>1
<1>5. CASE /\ inbox[m].state # "ABSENT" /\ UNCHANGED inbox
           /\ DeadLetter(c, worker[c].code, inbox[m].published)
  BY <1>1, <1>3, <1>5
<1> QED
  BY <1>2, <1>4, <1>5 DEF RecordPoison

\* What every step of handling an event starts from.
LEMMA HandlingParts ==
  ASSUME ConstantsAssumption, IInv, NEW c \in Consumers, worker[c].pc \in Handling
  PROVE  /\ worker[c].msg \in Messages /\ worker[c].code = None
         /\ Body[worker[c].msg].kind = "ready" /\ KeyOf(c) = Body[worker[c].msg].event
         /\ KeyOf(c) \in Keys /\ KeyOf(c) \in Events
         /\ inbox[KeyOf(c)] \in Row /\ inbox[KeyOf(c)].published \in BOOLEAN
<1>1. worker[c].pc # "idle"
  BY DEF Handling, Settling
<1> QED
  BY <1>1, BusyWorker, RowFields DEF IInv

LEMMA ClaimingStepOK ==
  ASSUME ConstantsAssumption,
         IInv, NEW c \in Consumers, ClaimConflict(c) \/ ClaimRefused(c) \/ ClaimExhausted(c)
  PROVE  StepOK(c)'
<1> PICK m : m = worker[c].msg
  OBVIOUS
<1> DEFINE k == KeyOf(c)
           r == inbox[k]
           h == Body[m].hash
<1>1. /\ InboxOK /\ WorkersOK
      /\ {"conflict", "previously_dead"} \cap PoisonCodes = {}
  BY DEF IInv, PoisonCodes
<1>2. worker[c].pc \in Handling
  BY DEF ClaimConflict, ClaimRefused, ClaimExhausted, Handling
<1>3. /\ m \in Messages /\ Body[m].kind = "ready" /\ k = Body[m].event
      /\ k \in Keys /\ r.published \in BOOLEAN
  BY <1>2, HandlingParts
<1>4. CASE ClaimConflict(c)
  <2> DEFINE known == r.state = "DEAD" /\ r.reason = "CONFLICT" /\ r.published
             s == DeadRow(r.hash, "CONFLICT", r.failures, known)
  <2>1. /\ inbox' = [inbox EXCEPT ![k] = s] /\ DeadLetter(c, "conflict", known)
        /\ known \in BOOLEAN /\ r.hash # h
    BY <1>3, <1>4 DEF ClaimConflict
  <2>2. s.state = "DEAD" /\ s.hash = r.hash /\ s.reason = "CONFLICT" /\ s.published = known
    BY DEF DeadRow
  <2>3. inbox'[k] = s
    <3> HIDE DEF s, k
    <3> QED
      BY <1>1, <1>3, <2>1 DEF InboxOK
  <2>4. SettledBy(s, h) /\ (known => FinishedBy(s, h))
    BY <2>1, <2>2 DEF SettledBy, FinishedBy, Conflict, Terminal
  <2> HIDE DEF s, known, h
  <2> QED
    BY <1>1, <1>3, <2>1, <2>3, <2>4, DyingStep DEF h
<1>5. CASE ClaimRefused(c)
  <2>1. inbox' = inbox /\ (r.state # "ABSENT" => r.hash = h)
    BY <1>5 DEF ClaimRefused
  <2>2. CASE Leave(c)
    BY <1>1, <2>2 DEF Leave, IdleWorker, WorkersOK, WorkerAt, StepOK
  <2>3. CASE r.state = "OUTBOXED" /\ GoTo(c, "ack")
    <3>1. worker'[c].pc = "ack" /\ worker'[c].msg = m
      BY <1>1, <2>3 DEF GoTo, WorkersOK, WorkerAt
    <3>2. Decided(m)'
      BY <1>3, <2>1, <2>3 DEF Decided, FinishedBy, Terminal
    <3> QED
      BY <3>1, <3>2 DEF StepOK
  <2>4. CASE r.state = "DEAD" /\ DeadLetter(c, "previously_dead", r.published)
    <3>1. SettledBy(r, h) /\ (r.published => FinishedBy(r, h))
      BY <2>1, <2>4 DEF SettledBy, FinishedBy, Terminal
    <3> QED
      BY <1>1, <1>3, <2>1, <2>4, <3>1, DyingStep
  <2> QED
    BY <1>5, <2>2, <2>3, <2>4 DEF ClaimRefused, KeepPending
<1>6. CASE ClaimExhausted(c)
  <2> DEFINE s == DeadRow(r.hash, "RETRY_EXHAUSTED", r.failures + 1, r.published)
  <2>1. /\ inbox' = [inbox EXCEPT ![k] = s] /\ DeadLetter(c, "previously_dead", r.published)
        /\ r.hash = h
    BY <1>6 DEF ClaimExhausted
  <2>2. s.state = "DEAD" /\ s.hash = r.hash /\ s.published = r.published
    BY DEF DeadRow
  <2>3. inbox'[k] = s
    <3> HIDE DEF s, k
    <3> QED
      BY <1>1, <1>3, <2>1 DEF InboxOK
  <2>4. SettledBy(s, h) /\ (r.published => FinishedBy(s, h))
    BY <2>1, <2>2 DEF SettledBy, FinishedBy, Terminal
  <2> HIDE DEF s, h
  <2> QED
    BY <1>1, <1>3, <2>1, <2>3, <2>4, DyingStep DEF h
<1> QED
  BY <1>4, <1>5, <1>6

\* The fence lets a process settle only the row it claimed with its own payload.
LEMMA FencedHash ==
  ASSUME ConstantsAssumption,
         IInv, HashesOK, NEW c \in Consumers, worker[c].pc \in Settling, Fenced(c)
  PROVE  inbox[KeyOf(c)].hash = Body[worker[c].msg].hash /\ inbox[KeyOf(c)].state = "PROCESSING"
BY DEF HashesOK, Fenced, Leasing

LEMMA SettlingStepOK ==
  ASSUME ConstantsAssumption, IInv, HashesOK, NEW c \in Consumers,
         CommitOutboxed(c) \/ MarkFailure(c) \/ MarkDead(c) \/ Defer(c)
  PROVE  StepOK(c)'
<1> PICK m : m = worker[c].msg
  OBVIOUS
<1> DEFINE k == KeyOf(c)
           r == inbox[k]
           h == Body[m].hash
<1>1. /\ InboxOK /\ WorkersOK /\ {"retries_exhausted", "terminal"} \cap PoisonCodes = {}
  BY DEF IInv, PoisonCodes
<1>2. worker[c].pc \in Handling /\ worker[c].pc \in Settling /\ Fenced(c)
  BY DEF CommitOutboxed, MarkFailure, MarkDead, Defer, Handling, Settling
<1>3. /\ m \in Messages /\ Body[m].kind = "ready" /\ k = Body[m].event
      /\ k \in Keys /\ r.hash = h
  BY <1>2, HandlingParts, FencedHash
<1>4. CASE Leave(c)
  BY <1>1, <1>4 DEF Leave, IdleWorker, WorkersOK, WorkerAt, StepOK
<1>5. CASE \E pc \in {"kill", "defer"} : GoTo(c, pc)
  BY <1>1, <1>5 DEF GoTo, WorkersOK, WorkerAt, StepOK
<1>6. CASE /\ inbox' = [inbox EXCEPT ![k] = OutboxedRow(r.hash, r.failures)]
           /\ worker' = [worker EXCEPT ![c] = WorkerAt("ack", m, None, None)]
  <2>1. inbox'[k].state = "OUTBOXED" /\ inbox'[k].hash = h
    BY <1>1, <1>3, <1>6 DEF InboxOK, OutboxedRow
  <2>2. worker'[c].pc = "ack" /\ worker'[c].msg = m
    BY <1>1, <1>6 DEF WorkersOK, WorkerAt
  <2>3. Decided(m)'
    BY <1>3, <2>1 DEF Decided, FinishedBy, Terminal
  <2> QED
    BY <2>2, <2>3 DEF StepOK
<1>7. ASSUME NEW reason, NEW failures, NEW published, NEW code \in {"retries_exhausted", "terminal"},
             inbox' = [inbox EXCEPT ![k] = DeadRow(r.hash, reason, failures, published)],
             DeadLetter(c, code, FALSE)
      PROVE  StepOK(c)'
  <2>1. inbox'[k].state = "DEAD" /\ inbox'[k].hash = h
    BY <1>1, <1>3, <1>7 DEF InboxOK, DeadRow
  <2>2. SettledBy(inbox'[k], h)
    BY <2>1 DEF SettledBy, Terminal
  <2> QED
    BY <1>1, <1>3, <1>7, <2>2, DyingStep
<1>8. CASE CommitOutboxed(c)
  BY <1>5, <1>6, <1>8 DEF CommitOutboxed
<1>9. CASE MarkFailure(c) \/ MarkDead(c)
  BY <1>4, <1>7, <1>9 DEF MarkFailure, MarkDead
<1>10. CASE Defer(c)
  BY <1>4, <1>10 DEF Defer
<1> QED
  BY <1>8, <1>9, <1>10

LEMMA PublishingStepOK ==
  ASSUME ConstantsAssumption, IInv, [Next]_vars, NEW c \in Consumers, StepOK(c),
         PublishDeadLetter(c) \/ MarkDlqPublished(c) \/ Ack(c)
  PROVE  StepOK(c)'
<1> PICK m : m = worker[c].msg
  OBVIOUS
<1> DEFINE k == KeyOf(c)
           r == inbox[k]
<1>1. /\ InboxOK /\ WorkersOK /\ Process(c) /\ m \in Messages /\ k \in Keys /\ r \in Row
      /\ released \subseteq released'
  BY Busy, RowFields, ReleasedGrows DEF IInv, Process
<1>2. CASE Leave(c)
  BY <1>1, <1>2 DEF Leave, IdleWorker, WorkersOK, WorkerAt, StepOK
<1>3. CASE worker[c].pc = "publish" /\ GoTo(c, "mark")
  <2>1. worker'[c].pc = "mark" /\ worker'[c].msg = m /\ worker'[c].code = worker[c].code
    BY <1>1, <1>3 DEF GoTo, WorkersOK, WorkerAt
  <2>2. IF worker[c].code \in PoisonCodes THEN RecordedPoison(m) ELSE Dying(m)
    BY <1>3 DEF StepOK
  <2>3. IF worker[c].code \in PoisonCodes THEN RecordedPoison(m)' ELSE Dying(m)'
    BY <1>1, <2>2, Lasting
  <2> QED
    BY <2>1, <2>3 DEF StepOK
<1>4. CASE /\ worker[c].pc = "mark" /\ r.state = "DEAD" /\ GoTo(c, "ack")
           /\ inbox' = [inbox EXCEPT ![k].published = TRUE]
  <2>1. worker'[c].pc = "ack" /\ worker'[c].msg = m
    BY <1>1, <1>4 DEF GoTo, WorkersOK, WorkerAt
  <2>2. /\ inbox'[k].state = "DEAD" /\ inbox'[k].hash = r.hash /\ inbox'[k].reason = r.reason
        /\ inbox'[k].published
    BY <1>1, <1>4 DEF InboxOK, Row
  <2>3. CASE worker[c].code \in PoisonCodes
    <3>1. RecordedPoison(m)
      BY <1>4, <2>3 DEF StepOK
    <3>2. RecordedPoison(m)'
      BY <1>1, <3>1, Lasting
    <3> QED
      BY <2>1, <3>2 DEF StepOK, Decided
  <2>4. CASE worker[c].code \notin PoisonCodes
    <3>1. Dying(m)
      BY <1>4, <2>4 DEF StepOK
    <3>2. Body[m].kind = "ready" /\ k = Body[m].event
      BY <2>4, <3>1 DEF Dying, KeyOf
    <3>3. CASE k \in released
      <4>1. Decided(m)'
        BY <1>1, <3>2, <3>3 DEF Decided
      <4> QED
        BY <2>1, <4>1 DEF StepOK
    <3>4. CASE SettledBy(r, Body[m].hash)
      <4>1. FinishedBy(inbox'[k], Body[m].hash)
        BY <2>2, <3>4 DEF FinishedBy, SettledBy, Conflict, Terminal
      <4>2. Decided(m)'
        BY <3>2, <4>1 DEF Decided
      <4> QED
        BY <2>1, <4>2 DEF StepOK
    <3> QED
      BY <3>1, <3>2, <3>3, <3>4 DEF Dying
  <2> QED
    BY <2>3, <2>4
<1> QED
  BY <1>2, <1>3, <1>4 DEF PublishDeadLetter, MarkDlqPublished, Ack

LEMMA StepsStep ==
  ASSUME ConstantsAssumption, IInv, HashesOK, PoisonOK, StepsOK, [Next]_vars
  PROVE  StepsOK'
<1> SUFFICES ASSUME NEW d \in Consumers PROVE StepOK(d)'
  BY DEF StepsOK
<1>0. WorkersOK /\ StepOK(d)
  BY DEF IInv, StepsOK
<1>1. CASE ~Process(d)
  <2> PICK m : m = worker[d].msg
    OBVIOUS
  <2>1. CASE /\ worker'[d].pc = worker[d].pc /\ worker'[d].msg = worker[d].msg
             /\ worker'[d].code = worker[d].code
    <3>1. CASE worker[d].pc \in {"publish", "mark", "ack"}
      <4>1. m \in Messages
        BY <1>0, <3>1, BusyWorker
      <4>2. /\ RecordedPoison(m) => RecordedPoison(m)'
            /\ Dying(m) => Dying(m)'
            /\ Decided(m) => Decided(m)'
        BY <4>1, Lasting
      <4> QED
        BY <1>0, <2>1, <4>2 DEF StepOK
    <3>2. CASE worker[d].pc \notin {"publish", "mark", "ack"}
      BY <2>1, <3>2 DEF StepOK
    <3> QED
      BY <3>1, <3>2
  <2>2. CASE worker'[d].pc \notin {"publish", "mark", "ack"}
    BY <2>2 DEF StepOK
  <2>3. CASE worker'[d].pc = "ack" /\ \E n \in Messages : worker'[d].msg = n /\ Body[n].kind = "foreign"
    BY <2>3 DEF StepOK, Decided
  <2> QED
    BY <1>1, <2>1, <2>2, <2>3, Standing
<1>2. CASE BusyCheck(d) \/ FinishWork(d) \/ LeaseLost(d)
  <2>1. worker'[d].pc \notin {"publish", "mark", "ack"}
    BY <1>0, <1>2
       DEF BusyCheck, KeepPending, FinishWork, LeaseLost, Leave, GoTo, IdleWorker, WorkersOK, WorkerAt
  <2> QED
    BY <2>1 DEF StepOK
<1>3. CASE Claim(d)
  <2>1. worker'[d].pc \notin {"publish", "mark", "ack"}
    BY <1>0, <1>3 DEF Claim, WorkersOK, WorkerAt
  <2> QED
    BY <2>1 DEF StepOK
<1> QED
  BY <1>0, <1>1, <1>2, <1>3, RecordPoisonStepOK, ClaimingStepOK, SettlingStepOK, PublishingStepOK
     DEF Process

LEMMA AckedStep ==
  ASSUME ConstantsAssumption, IInv, StepsOK, AckedOK, [Next]_vars
  PROVE  AckedOK'
<1> SUFFICES ASSUME NEW m \in Messages, msgs'[m] = "acked" PROVE Decided(m)'
  BY DEF AckedOK
<1>1. Decided(m)
  <2>1. CASE msgs[m] = "acked"
    BY <2>1 DEF AckedOK
  <2>2. CASE \E c \in Consumers : Ack(c) /\ worker[c].msg = m
    BY <2>2 DEF StepsOK, StepOK, Ack
  <2> QED
    BY <2>1, <2>2, EntryMoves
<1> QED
  BY <1>1, Lasting

-----------------------------------------------------------------------------
(* A dead event keeps an entry that will dead-letter it. *)

\* The steps that close a row as dead.
Buries(c, e) ==
  /\ KeyOf(c) = e
  /\ ClaimConflict(c) \/ ClaimExhausted(c) \/ MarkFailure(c) \/ MarkDead(c)

LEMMA DeadBefore ==
  ASSUME ConstantsAssumption, IInv, [Next]_vars, NEW e \in Events, e \notin released',
         inbox'[e].state = "DEAD", ~inbox'[e].published,
         \A c \in Consumers : ~Buries(c, e)
  PROVE  /\ inbox[e].state = "DEAD" /\ ~inbox[e].published
         /\ inbox'[e].hash = inbox[e].hash /\ inbox'[e].reason = inbox[e].reason
<1> DEFINE Same == /\ inbox[e].state = "DEAD" /\ ~inbox[e].published
                   /\ inbox'[e].hash = inbox[e].hash /\ inbox'[e].reason = inbox[e].reason
<1>1. InboxOK /\ WorkersOK /\ e \in Keys /\ e \notin Messages /\ released \subseteq released'
  BY ReleasedGrows DEF ConstantsAssumption, IInv, Keys
<1>2. CASE inbox'[e] = inbox[e]
  BY <1>2
<1>3. ASSUME NEW c \in Consumers, Process(c) PROVE Same
  <2>1. KeyOf(c) \in Keys /\ worker[c].msg \in Messages /\ worker[c].msg \in Keys
    BY <1>3, Busy
  <2>2. CASE RecordPoison(c)
    <3>1. inbox'[e] = inbox[e]
      BY <1>1, <2>1, <2>2 DEF RecordPoison, InboxOK
    <3> QED
      BY <1>2, <3>1
  <2>3. CASE ClaimConflict(c) \/ ClaimExhausted(c) \/ MarkFailure(c) \/ MarkDead(c)
    <3>1. KeyOf(c) # e
      BY <2>3 DEF Buries
    <3>2. \E r : inbox' = [inbox EXCEPT ![KeyOf(c)] = r]
      BY <2>3 DEF ClaimConflict, ClaimExhausted, MarkFailure, MarkDead
    <3>3. inbox'[e] = inbox[e]
      BY <1>1, <2>1, <3>1, <3>2, KeyRow
    <3> QED
      BY <1>2, <3>3
  <2>4. CASE Claim(c)
    BY <1>1, <1>2, <2>1, <2>4 DEF Claim, InboxOK, LeasedRow
  <2>5. CASE CommitOutboxed(c)
    BY <1>1, <1>2, <2>1, <2>5 DEF CommitOutboxed, InboxOK, OutboxedRow
  <2>6. CASE Defer(c)
    BY <1>1, <1>2, <2>1, <2>6 DEF Defer, InboxOK, WaitingRow
  <2>7. CASE MarkDlqPublished(c)
    BY <1>1, <1>2, <2>1, <2>7 DEF MarkDlqPublished, InboxOK, Row
  <2> QED
    BY <1>2, <1>3, <2>2, <2>3, <2>4, <2>5, <2>6, <2>7
       DEF Process, BusyCheck, ClaimRefused, FinishWork, LeaseLost, PublishDeadLetter, Ack
<1>4. ASSUME NEW f \in Events, Rearm(f) PROVE Same
  <2>1. f # e /\ f \in Keys
    BY <1>4 DEF Rearm, Keys
  <2> QED
    BY <1>1, <1>2, <1>4, <2>1 DEF Rearm, InboxOK
<1>5. ASSUME NEW k \in Keys, Prune(k) PROVE Same
  <2>1. k # e
    BY <1>5 DEF Prune
  <2> QED
    BY <1>1, <1>2, <1>5, <2>1 DEF Prune, InboxOK
<1>6. CASE Tick
  <2>1. inbox'[e] = IF inbox[e].state \in Open
                    THEN [inbox[e] EXCEPT !.availableAt = Earlier(@)] ELSE inbox[e]
    BY <1>1, <1>6 DEF Tick
  <2>2. inbox[e] \in Row
    BY <1>1 DEF InboxOK
  <2> QED
    BY <2>1, <2>2 DEF Row
<1> QED
  BY <1>2, <1>3, <1>4, <1>5, <1>6
     DEF Next, vars, Produce, TrimSource, Take, TakeDeleted, TakeEmptied, Abandon, DeliverResult

LEMMA BuriedByCarrier ==
  ASSUME ConstantsAssumption,
         IInv, TakenOK, AckedOK, [Next]_vars, NEW e \in Events, e \notin released',
         ~inbox'[e].published, NEW c \in Consumers, Buries(c, e)
  PROVE  \E m \in Messages : Carries(m, e)'
<1> PICK m : m = worker[c].msg
  OBVIOUS
<1> DEFINE r == inbox[e]
           h == Body[m].hash
<1>1. /\ InboxOK /\ msgs' = msgs /\ msgs \in [Messages -> MessageStates]
      /\ released \subseteq released' /\ e \in Keys /\ KeyOf(c) = e
  BY ReleasedGrows DEF IInv, StoresOK, Keys, Buries, ClaimConflict, ClaimExhausted, MarkFailure, MarkDead
<1>2. worker[c].pc \in Handling
  BY DEF Buries, ClaimConflict, ClaimExhausted, MarkFailure, MarkDead, Handling, Settling
<1>3. m \in Messages /\ Body[m].kind = "ready" /\ Body[m].event = e
  BY <1>1, <1>2, HandlingParts
<1>4. msgs[m] \in {"pending", "orphaned", "purged", "acked"}
  BY <1>1, <1>2, <1>3 DEF TakenOK, MessageStates, Handling, Settling
<1>5. CASE ClaimConflict(c)
  <2>1. /\ inbox'[e].hash = r.hash /\ r.hash # h
        /\ inbox'[e].published = (r.state = "DEAD" /\ r.reason = "CONFLICT" /\ r.published)
    BY <1>1, <1>5 DEF ClaimConflict, InboxOK, DeadRow
  <2>2. CASE msgs[m] # "acked"
    BY <1>1, <1>3, <1>4, <2>1, <2>2 DEF Carries
  <2>3. CASE msgs[m] = "acked"
    <3>1. Decided(m) /\ ~FinishedBy(r, h)
      BY <1>3, <2>1, <2>3 DEF AckedOK, FinishedBy, Conflict
    <3>2. RecordedPoison(m)
      BY <1>1, <1>3, <3>1 DEF Decided
    <3>3. RecordedPoison(m)'
      BY <1>3, <3>2, Lasting
    <3> QED
      BY <1>3, <3>3 DEF Carries
  <2> QED
    BY <2>2, <2>3
<1>6. CASE ClaimExhausted(c) \/ MarkFailure(c) \/ MarkDead(c)
  <2>1. r.state = "PROCESSING"
    BY <1>1, <1>6 DEF ClaimExhausted, MarkFailure, MarkDead, Fenced
  <2>2. ~Conflict(inbox'[e])
    <3>1. CASE ClaimExhausted(c)
      BY <1>1, <3>1 DEF ClaimExhausted, InboxOK, DeadRow, Conflict
    <3>2. CASE MarkDead(c)
      BY <1>1, <3>2 DEF MarkDead, InboxOK, DeadRow, Conflict
    <3>3. CASE MarkFailure(c)
      <4>1. CASE inbox' = [inbox EXCEPT ![e] =
                              DeadRow(r.hash, "RETRY_EXHAUSTED", r.failures + 1, r.published)]
        BY <1>1, <4>1 DEF DeadRow, InboxOK, Conflict
      <4>2. CASE inbox' = [inbox EXCEPT ![e] =
                              WaitingRow(r.hash, r.failures + 1, worker[c].stamp + BackoffTicks)]
        BY <1>1, <4>2 DEF WaitingRow, InboxOK, Conflict
      <4> QED
        BY <1>1, <3>3, <4>1, <4>2 DEF MarkFailure
    <3> QED
      BY <1>6, <3>1, <3>2, <3>3
  <2>3. CASE msgs[m] # "acked"
    BY <1>1, <1>3, <1>4, <2>2, <2>3 DEF Carries
  <2>4. CASE msgs[m] = "acked"
    <3>1. Decided(m) /\ ~FinishedBy(r, h)
      BY <1>3, <2>1, <2>4 DEF AckedOK, FinishedBy, Terminal
    <3>2. RecordedPoison(m)
      BY <1>1, <1>3, <3>1 DEF Decided
    <3>3. RecordedPoison(m)'
      BY <1>3, <3>2, Lasting
    <3> QED
      BY <1>3, <3>3 DEF Carries
  <2> QED
    BY <2>3, <2>4
<1> QED
  BY <1>5, <1>6 DEF Buries

LEMMA CarrierStays ==
  ASSUME ConstantsAssumption, IInv, StepsOK, [Next]_vars, NEW e \in Events, e \notin released',
         inbox[e].state = "DEAD", ~inbox[e].published, inbox'[e].state = "DEAD",
         inbox'[e].hash = inbox[e].hash, inbox'[e].reason = inbox[e].reason,
         NEW m \in Messages, Carries(m, e)
  PROVE  Carries(m, e)'
<1>1. IInv' /\ released \subseteq released'
  BY NextIInv, ReleasedGrows
<1>2. msgs'[m] \in MessageStates
  BY <1>1 DEF IInv, StoresOK
<1>3. CASE RecordedPoison(m)
  BY <1>3, Lasting DEF Carries
<1>4. CASE ~RecordedPoison(m)
  <2>1. msgs[m] \in {"pending", "orphaned", "purged"} /\ (Conflict(inbox[e]) => Body[m].hash # inbox[e].hash)
    BY <1>4 DEF Carries
  <2>2. msgs'[m] # "acked"
    <3> SUFFICES ASSUME NEW c \in Consumers, Ack(c), worker[c].msg = m PROVE FALSE
      BY <2>1, EntryMoves
    <3>1. Decided(m)
      BY DEF StepsOK, StepOK, Ack
    <3>2. FinishedBy(inbox[e], Body[m].hash)
      BY <1>1, <1>4, <3>1 DEF Decided, Carries
    <3> QED
      BY <2>1, <3>2 DEF FinishedBy, Conflict
  <2>3. msgs'[m] \in {"pending", "orphaned", "purged"}
    BY <1>2, <2>1, <2>2, EntryMoves DEF MessageStates
  <2> QED
    BY <2>1, <2>3 DEF Carries, Conflict
<1> QED
  BY <1>3, <1>4

LEMMA CarriersStep ==
  ASSUME ConstantsAssumption, IInv, OutcomeOK, [Next]_vars
  PROVE  CarriersOK'
<1> SUFFICES ASSUME NEW e \in Events, e \notin released', inbox'[e].state = "DEAD",
                    ~inbox'[e].published
             PROVE  \E m \in Messages : Carries(m, e)'
  BY DEF CarriersOK
<1>1. TakenOK /\ StepsOK /\ AckedOK /\ CarriersOK /\ e \notin released
  BY ReleasedGrows DEF OutcomeOK
<1>2. CASE \E c \in Consumers : Buries(c, e)
  BY <1>1, <1>2, BuriedByCarrier
<1>3. CASE \A c \in Consumers : ~Buries(c, e)
  <2>1. /\ inbox[e].state = "DEAD" /\ ~inbox[e].published
        /\ inbox'[e].hash = inbox[e].hash /\ inbox'[e].reason = inbox[e].reason
    BY <1>3, DeadBefore
  <2>2. PICK m \in Messages : Carries(m, e)
    BY <1>1, <2>1 DEF CarriersOK
  <2> QED
    BY <1>1, <2>1, <2>2, CarrierStays
<1> QED
  BY <1>2, <1>3

-----------------------------------------------------------------------------
LEMMA OutcomeStep ==
  ASSUME ConstantsAssumption
  PROVE  IInv /\ LeasesOK /\ OutcomeOK /\ [Next]_vars => OutcomeOK'
BY PoisonStep, TakenStep, StepsStep, AckedStep, CarriersStep DEF OutcomeOK, LeasesOK

LEMMA AlwaysOutcome ==
  ASSUME ConstantsAssumption
  PROVE  Spec => [](IInv /\ LeasesOK /\ OutcomeOK)
<1>1. Init => OutcomeOK
  BY WorkerFields DEF Init, OutcomeOK, PoisonOK, TakenOK, StepsOK, StepOK, AckedOK, CarriersOK,
                      AbsentRow, IdleWorker, Keys
<1>2. Init => LeasesOK
  BY WorkerFields DEF Init, LeasesOK, TokensOK, HashesOK, AbsentRow, IdleWorker, Leasing, Settling
<1>3. Init => IInv /\ LeasesOK /\ OutcomeOK
  BY <1>1, <1>2, InitIInv
<1>4. IInv /\ LeasesOK /\ OutcomeOK /\ [Next]_vars => (IInv /\ LeasesOK /\ OutcomeOK)'
  BY NextIInv, LeasesStep, OutcomeStep
<1> QED
  BY <1>3, <1>4, PTL DEF Spec

\* No entry is acknowledged before its event is closed for good or the entry is
\* on record as unreadable, whichever process acknowledges it and however often
\* it was delivered.
THEOREM NoEarlyAck ==
  ASSUME ConstantsAssumption
  PROVE  Spec => []AckedIsDecided
<1>1. OutcomeOK => AckedIsDecided
  BY DEF OutcomeOK, AckedOK, Decided, FinishedBy, AckedIsDecided
<1> QED
  BY <1>1, AlwaysOutcome, PTL

\* A dead event that is not on the dead-letter stream yet has an entry whose
\* redelivery puts it there: no crash between closing and publishing loses it.
THEOREM DeadLettersAreNotLost ==
  ASSUME ConstantsAssumption
  PROVE  Spec => []UnpublishedHasCarrier
<1>1. IInv /\ OutcomeOK => UnpublishedHasCarrier
  BY DEF OutcomeOK, CarriersOK, Carries, UnpublishedHasCarrier
<1> QED
  BY <1>1, AlwaysOutcome, PTL

-----------------------------------------------------------------------------
(* The consumer implements ReadyEventEffect.  A step that does not show leaves *)
(* the abstract variables alone (Quiet...); any other is one abstract step.    *)

\* The abstract state.
Effects == [e \in Events |-> EffectOf(e)]
AckedReady == {m \in ReadyMessages : msgs[m] = "acked"}
Unread == {m \in ReadyMessages : RecordedPoison(m)}
Reopened == released \cap Events

\* What a row means.
Meaning(r) ==
  CASE r.state = "OUTBOXED" -> "analysed"
    [] r.state = "DEAD" /\ r.reason = "RETRY_EXHAUSTED" -> "exhausted"
    [] r.state = "DEAD" /\ r.reason # "RETRY_EXHAUSTED" -> "refused"
    [] OTHER -> "undecided"

LEMMA Meanings ==
  ASSUME NEW r
  PROVE  /\ r.state = "OUTBOXED" => Meaning(r) = "analysed"
         /\ r.state = "DEAD" /\ r.reason = "RETRY_EXHAUSTED" => Meaning(r) = "exhausted"
         /\ r.state = "DEAD" /\ r.reason # "RETRY_EXHAUSTED" => Meaning(r) = "refused"
         /\ r.state \notin Terminal => Meaning(r) = "undecided"
         /\ r.state \in Terminal => Meaning(r) # "undecided"
BY DEF Meaning, Terminal

LEMMA EffectsAreMeanings ==
  ASSUME NEW e \in Events
  PROVE  Effects[e] = Meaning(inbox[e]) /\ Effects'[e] = Meaning(inbox'[e])
BY DEF Effects, EffectOf, Meaning

\* Every row of an event keeps its meaning.
LEMMA EffectsStay ==
  ASSUME \A e \in Events : Meaning(inbox'[e]) = Meaning(inbox[e])
  PROVE  Effects' = Effects
<1>1. \A e \in Events : EffectOf(e)' = EffectOf(e)
  BY DEF EffectOf, Meaning
<1> QED
  BY <1>1 DEF Effects

\* The row of one event is replaced.
LEMMA EffectsMove ==
  ASSUME ConstantsAssumption, InboxOK, NEW e \in Events, NEW r, inbox' = [inbox EXCEPT ![e] = r]
  PROVE  /\ Effects' = [Effects EXCEPT ![e] = Meaning(r)]
         /\ Effects[e] = Meaning(inbox[e])
         /\ Unread' = {m \in ReadyMessages : inbox[m].state = "DEAD" \/ m \in released'}
<1>1. /\ inbox'[e] = r /\ \A d \in Events \ {e} : inbox'[d] = inbox[d]
      /\ \A m \in Messages : inbox'[m] = inbox[m]
  BY DEF InboxOK, Keys, ConstantsAssumption
<1>2. Unread' = {m \in ReadyMessages : inbox[m].state = "DEAD" \/ m \in released'}
  BY <1>1 DEF Unread, ReadyMessages, RecordedPoison
<1>3. DOMAIN Effects = Events /\ DOMAIN Effects' = Events
  BY DEF Effects
<1>4. \A d \in Events : Effects'[d] = IF d = e THEN Meaning(r) ELSE Effects[d]
  BY <1>1, EffectsAreMeanings
<1>5. Effects' = [Effects EXCEPT ![e] = Meaning(r)]
  <2>1. Effects' = [d \in Events |-> Effects'[d]] /\ Effects = [d \in Events |-> Effects[d]]
    BY DEF Effects
  <2> HIDE DEF Effects
  <2> QED
    BY <1>4, <2>1
<1> QED
  BY <1>2, <1>5, EffectsAreMeanings

\* A step that shows neither in the decisions, the results nor the entries.
LEMMA Quiet ==
  ASSUME Effects' = Effects, AckedReady' = AckedReady, Unread' = Unread,
         UNCHANGED <<outbox, delivered, released>>
  PROVE  UNCHANGED Effect!vars
BY DEF Effect!vars, Effects, AckedReady, Unread

\* A row is replaced by one that says the same.
LEMMA QuietRow ==
  ASSUME ConstantsAssumption, InboxOK, NEW k \in Keys, NEW r, inbox' = [inbox EXCEPT ![k] = r],
         Meaning(r) = Meaning(inbox[k]), r.state = "DEAD" <=> inbox[k].state = "DEAD",
         UNCHANGED <<outbox, delivered, released, msgs>>
  PROVE  UNCHANGED Effect!vars
<1>1. \A j \in Keys : inbox'[j] = IF j = k THEN r ELSE inbox[j]
  BY DEF InboxOK
<1>2. Effects' = Effects
  BY <1>1, EffectsStay DEF Keys
<1>3. \A m \in Messages : RecordedPoison(m)' <=> RecordedPoison(m)
  BY <1>1 DEF RecordedPoison, Keys
<1>4. Unread' = Unread
  BY <1>3 DEF Unread, ReadyMessages
<1> QED
  BY <1>2, <1>4, Quiet DEF AckedReady

\* Steps that write no row.
LEMMA QuietSteps ==
  ASSUME ConstantsAssumption, IInv,
         \/ \E m \in Messages : Produce(m) \/ TrimSource(m)
         \/ \E c \in Consumers, m \in Messages : Take(c, m) \/ TakeDeleted(c, m) \/ TakeEmptied(c, m)
         \/ \E c \in Consumers : \/ BusyCheck(c) \/ ClaimRefused(c) \/ FinishWork(c) \/ LeaseLost(c)
                                 \/ PublishDeadLetter(c) \/ Abandon(c)
  PROVE  UNCHANGED Effect!vars
<1>1. UNCHANGED <<inbox, outbox, delivered, released>>
  BY DEF Produce, TrimSource, Take, TakeDeleted, TakeEmptied, BusyCheck, ClaimRefused, FinishWork,
         LeaseLost, PublishDeadLetter, Abandon, history
<1>2. Effects' = Effects /\ Unread' = Unread
  BY <1>1, EffectsStay DEF Unread, RecordedPoison
<1>3. msgs \in [Messages -> MessageStates]
  BY DEF IInv, StoresOK
<1>4. \A m \in Messages : msgs'[m] = "acked" <=> msgs[m] = "acked"
  <2>1. CASE UNCHANGED msgs
    BY <2>1
  <2>2. ASSUME NEW m \in Messages, Produce(m) \/ TrimSource(m)
        PROVE  \A n \in Messages : msgs'[n] = "acked" <=> msgs[n] = "acked"
    BY <1>3, <2>2 DEF Produce, TrimSource
  <2>3. ASSUME NEW c \in Consumers, NEW m \in Messages, Take(c, m) \/ TakeDeleted(c, m)
        PROVE  \A n \in Messages : msgs'[n] = "acked" <=> msgs[n] = "acked"
    BY <1>3, <2>3 DEF Take, TakeDeleted
  <2> QED
    BY <2>1, <2>2, <2>3 DEF TakeEmptied, BusyCheck, ClaimRefused, FinishWork, LeaseLost,
         PublishDeadLetter, Abandon
<1> QED
  BY <1>1, <1>2, <1>4, Quiet DEF AckedReady, ReadyMessages

\* A lease, a retry, a deferral and a published mark leave the decision as it is.
LEMMA QuietRows ==
  ASSUME ConstantsAssumption, IInv, NEW c \in Consumers,
         Claim(c) \/ Defer(c) \/ MarkDlqPublished(c) \/ (MarkFailure(c) /\ ~Exhausted(inbox[KeyOf(c)]))
  PROVE  UNCHANGED Effect!vars
<1> DEFINE k == KeyOf(c)
<1>1. InboxOK /\ k \in Keys /\ inbox[k] \in Row
  BY BusyWorker DEF IInv, InboxOK, Claim, Defer, MarkDlqPublished, MarkFailure
<1>2. ASSUME NEW r, inbox' = [inbox EXCEPT ![k] = r], r.state \in Open,
             inbox[k].state \in Open \cup {"ABSENT"}, UNCHANGED <<outbox, msgs, history>>
      PROVE  UNCHANGED Effect!vars
  BY <1>1, <1>2, QuietRow, Meanings DEF Terminal, Open, history
<1>3. CASE Claim(c)
  BY <1>2, <1>3 DEF Claim, LeasedRow, Due, Open
<1>4. CASE Defer(c)
  BY <1>2, <1>4 DEF Defer, WaitingRow, Open, Fenced
<1>5. CASE MarkFailure(c) /\ ~Exhausted(inbox[k])
  BY <1>2, <1>5 DEF MarkFailure, WaitingRow, Open, Fenced
<1>6. CASE MarkDlqPublished(c)
  <2>1. CASE inbox[k].state = "DEAD"
    <3> PICK row \in Row : row = inbox[k]
      BY <1>1
    <3> DEFINE r == [row EXCEPT !.published = TRUE]
    <3>1. inbox' = [inbox EXCEPT ![k] = r]
      BY <1>1, <1>6, <2>1 DEF MarkDlqPublished, InboxOK
    <3>2. r.state = row.state /\ r.reason = row.reason
      BY DEF Row
    <3>3. Meaning(r) = Meaning(row)
      BY <3>2 DEF Meaning
    <3> HIDE DEF r
    <3> QED
      BY <1>1, <1>6, <3>1, <3>2, <3>3, QuietRow DEF MarkDlqPublished, history
  <2>2. CASE inbox[k].state # "DEAD"
    <3>1. UNCHANGED <<inbox, outbox, msgs, delivered, released>>
      BY <1>6, <2>2 DEF MarkDlqPublished, history
    <3> QED
      BY <3>1, EffectsStay, Quiet DEF Unread, AckedReady, RecordedPoison
  <2> QED
    BY <2>1, <2>2
<1> QED
  BY <1>3, <1>4, <1>5, <1>6

\* A dead row is a decision against the event, unless it was refused before.
LEMMA DeadShows ==
  ASSUME ConstantsAssumption, InboxOK, NEW e \in Events, NEW r, inbox' = [inbox EXCEPT ![e] = r],
         r.state = "DEAD", r.reason = "RETRY_EXHAUSTED" => inbox[e].state \notin Terminal,
         UNCHANGED <<outbox, msgs, delivered, released>>
  PROVE  Effect!GiveUp(e) \/ UNCHANGED Effect!vars
<1>1. r.state = "DEAD"
  OBVIOUS
<1>2. /\ Effects' = [Effects EXCEPT ![e] = Meaning(r)] /\ Effects[e] = Meaning(inbox[e])
      /\ Unread' = Unread
  BY EffectsMove DEF Unread, RecordedPoison
<1>3. AckedReady' = AckedReady
  BY DEF AckedReady
<1>4. CASE r.reason = "RETRY_EXHAUSTED"
  <2>1. Meaning(r) = "exhausted" /\ Meaning(inbox[e]) = "undecided"
    BY <1>1, <1>4, Meanings
  <2> QED
    BY <1>2, <1>3, <2>1 DEF Effect!GiveUp, Effects, Unread, AckedReady
<1>5. CASE r.reason # "RETRY_EXHAUSTED" /\ Meaning(inbox[e]) # "refused"
  <2>1. Meaning(r) = "refused"
    BY <1>1, <1>5, Meanings
  <2> QED
    BY <1>2, <1>3, <1>5, <2>1 DEF Effect!GiveUp, Effects, Unread, AckedReady
<1>6. CASE r.reason # "RETRY_EXHAUSTED" /\ Meaning(inbox[e]) = "refused"
  <2>1. Meaning(r) = "refused"
    BY <1>1, <1>6, Meanings
  <2>2. Effects' = Effects
    BY <1>2, <1>6, <2>1 DEF Effects
  <2> QED
    BY <1>2, <1>3, <2>2, Quiet
<1> QED
  BY <1>4, <1>5, <1>6

LEMMA ClosingSteps ==
  ASSUME ConstantsAssumption, IInv, NEW c \in Consumers,
         ClaimConflict(c) \/ ClaimExhausted(c) \/ MarkDead(c)
         \/ (MarkFailure(c) /\ Exhausted(inbox[KeyOf(c)]))
  PROVE  (\E e \in Events : Effect!GiveUp(e)) \/ UNCHANGED Effect!vars
<1> PICK e : e = KeyOf(c)
  OBVIOUS
<1>1. InboxOK /\ e \in Events /\ UNCHANGED <<outbox, msgs, delivered, released>>
  BY HandlingParts DEF IInv, ClaimConflict, ClaimExhausted, MarkDead, MarkFailure, Handling, Settling, history
<1>2. CASE ClaimConflict(c)
  <2> PICK r : r = DeadRow(inbox[e].hash, "CONFLICT", inbox[e].failures,
                           inbox[e].state = "DEAD" /\ inbox[e].reason = "CONFLICT" /\ inbox[e].published)
    OBVIOUS
  <2>1. inbox' = [inbox EXCEPT ![e] = r]
    BY <1>2 DEF ClaimConflict
  <2>2. r.state = "DEAD" /\ r.reason = "CONFLICT"
    BY DEF DeadRow
  <2> QED
    BY <1>1, <2>1, <2>2, DeadShows
<1>3. CASE MarkDead(c)
  <2> PICK r : r = DeadRow(inbox[e].hash, "TERMINAL", inbox[e].failures, inbox[e].published)
    OBVIOUS
  <2>1. inbox' = [inbox EXCEPT ![e] = r]
    BY <1>1, <1>3 DEF MarkDead, InboxOK, Keys
  <2>2. r.state = "DEAD" /\ r.reason = "TERMINAL"
    BY DEF DeadRow
  <2> QED
    BY <1>1, <2>1, <2>2, DeadShows
<1>4. CASE ClaimExhausted(c) \/ (MarkFailure(c) /\ Exhausted(inbox[e]))
  <2> PICK r : r = DeadRow(inbox[e].hash, "RETRY_EXHAUSTED", inbox[e].failures + 1, inbox[e].published)
    OBVIOUS
  <2>1. inbox' = [inbox EXCEPT ![e] = r]
    BY <1>4 DEF ClaimExhausted, MarkFailure
  <2>2. r.state = "DEAD"
    BY DEF DeadRow
  <2>3. inbox[e].state \notin Terminal
    BY <1>4 DEF ClaimExhausted, MarkFailure, Fenced, Terminal
  <2> QED
    BY <1>1, <2>1, <2>2, <2>3, DeadShows
<1> QED
  BY <1>2, <1>3, <1>4

\* An entry on record as unreadable.
LEMMA PoisonShows ==
  ASSUME ConstantsAssumption, IInv, NEW c \in Consumers, RecordPoison(c)
  PROVE  (\E m \in ReadyMessages : Effect!LoseSource(m)) \/ UNCHANGED Effect!vars
<1> DEFINE m == worker[c].msg
<1>1. /\ InboxOK /\ m \in Messages /\ m \notin Events
      /\ UNCHANGED <<outbox, msgs, delivered, released>>
  BY BusyWorker DEF IInv, RecordPoison, history, ConstantsAssumption
<1>2. CASE UNCHANGED inbox
  BY <1>1, <1>2, EffectsStay, Quiet DEF Unread, AckedReady, RecordedPoison
<1>3. CASE inbox' = [inbox EXCEPT ![m] = DeadRow(PoisonHash(c), "POISON", 0, FALSE)]
  <2>1. /\ inbox'[m].state = "DEAD" /\ \A k \in Keys \ {m} : inbox'[k] = inbox[k]
    BY <1>1, <1>3 DEF InboxOK, Keys, DeadRow
  <2>2. Effects' = Effects
    BY <1>1, <2>1, EffectsStay DEF Keys
  <2>3. AckedReady' = AckedReady
    BY <1>1 DEF AckedReady
  <2>4. Unread' = IF m \in ReadyMessages THEN Unread \cup {m} ELSE Unread
    BY <1>1, <2>1 DEF Unread, RecordedPoison, ReadyMessages, Keys
  <2>5. CASE m \in ReadyMessages \ Unread
    BY <1>1, <2>2, <2>3, <2>4, <2>5 DEF Effect!LoseSource, Effects, AckedReady, Unread
  <2>6. CASE m \notin ReadyMessages \ Unread
    <3>1. Unread' = Unread
      BY <2>4, <2>6
    <3> QED
      BY <1>1, <2>2, <2>3, <3>1, Quiet
  <2> QED
    BY <2>5, <2>6
<1> QED
  BY <1>2, <1>3 DEF RecordPoison

\* The result is committed in the step that decides the event.
LEMMA CommitShows ==
  ASSUME ConstantsAssumption, IInv, NEW c \in Consumers, CommitOutboxed(c)
  PROVE  (\E e \in Events : Effect!Analyse(e)) \/ UNCHANGED Effect!vars
<1> DEFINE e == KeyOf(c)
<1>1. InboxOK /\ e \in Events /\ UNCHANGED <<msgs, delivered, released>> /\ Fenced(c)
  BY HandlingParts DEF IInv, CommitOutboxed, Handling, Settling
<1>2. CASE e \in outbox \/ Cardinality(outbox) >= OutboxMaxRows
  <2>1. UNCHANGED <<inbox, outbox>>
    BY <1>2 DEF CommitOutboxed
  <2> QED
    BY <1>1, <2>1, EffectsStay, Quiet DEF Unread, AckedReady, RecordedPoison
<1>3. CASE ~(e \in outbox \/ Cardinality(outbox) >= OutboxMaxRows)
  <2> PICK r : r = OutboxedRow(inbox[e].hash, inbox[e].failures)
    OBVIOUS
  <2>1. inbox' = [inbox EXCEPT ![e] = r] /\ outbox' = outbox \cup {e} /\ e \notin outbox
    BY <1>1, <1>3 DEF CommitOutboxed, OutboxAfterCommit, InboxOK, Keys
  <2>2. /\ Effects' = [Effects EXCEPT ![e] = Meaning(r)] /\ Effects[e] = Meaning(inbox[e])
        /\ Unread' = Unread
    BY <1>1, <2>1, EffectsMove DEF Unread, RecordedPoison
  <2>3. Meaning(r) = "analysed" /\ Meaning(inbox[e]) = "undecided"
    BY <1>1, Meanings DEF OutboxedRow, Fenced, Terminal
  <2>4. AckedReady' = AckedReady
    BY <1>1 DEF AckedReady
  <2>5. Effect!Analyse(e)
    BY <1>1, <2>1, <2>2, <2>3, <2>4 DEF Effect!Analyse, Effects, Unread, AckedReady
  <2> QED
    BY <1>1, <2>5
<1> QED
  BY <1>2, <1>3

\* An entry is acknowledged.
LEMMA AckShows ==
  ASSUME ConstantsAssumption, IInv, AckedIsDecided', NEW c \in Consumers, Ack(c)
  PROVE  (\E m \in ReadyMessages : Effect!Acknowledge(m)) \/ UNCHANGED Effect!vars
<1> PICK m : m = worker[c].msg
  OBVIOUS
<1>1. /\ m \in Messages /\ msgs \in [Messages -> MessageStates]
      /\ UNCHANGED <<inbox, outbox, delivered, released>>
  BY BusyWorker DEF IInv, StoresOK, Ack, history
<1>2. Effects' = Effects /\ Unread' = Unread
  BY <1>1, EffectsStay DEF Unread, RecordedPoison
<1>3. CASE m \in ReadyMessages /\ msgs[m] \in {"pending", "orphaned"}
  <2>1. msgs' = [msgs EXCEPT ![m] = "acked"]
    BY <1>3 DEF Ack
  <2>2. AckedReady' = AckedReady \cup {m} /\ m \notin AckedReady
    BY <1>1, <1>3, <2>1 DEF AckedReady, ReadyMessages
  <2>3. \/ RecordedPoison(m) \/ inbox[Body[m].event].state \in Terminal \/ Body[m].event \in released
    BY <1>1, <1>3, <2>1 DEF AckedIsDecided, RecordedPoison, ReadyMessages
  <2>4. Body[m].event \in Events
    BY <1>1 DEF ConstantsAssumption
  <2>5. Effects[Body[m].event] # "undecided" \/ Body[m].event \in Reopened \/ m \in Unread
    BY <1>3, <2>3, <2>4, EffectsAreMeanings, Meanings DEF Reopened, Unread
  <2>6. Effect!Acknowledge(m)
    BY <1>1, <1>2, <2>2, <2>5 DEF Effect!Acknowledge, BodyEvent, Effects, Unread, AckedReady, Reopened
  <2> QED
    BY <1>3, <2>6
<1>4. CASE ~(m \in ReadyMessages /\ msgs[m] \in {"pending", "orphaned"})
  <2>1. AckedReady' = AckedReady
    BY <1>1, <1>4 DEF Ack, AckedReady, ReadyMessages
  <2> QED
    BY <1>1, <1>2, <2>1, Quiet
<1> QED
  BY <1>3, <1>4

\* An operator rearms, the retention runs out, the result is handed over, time passes.
LEMMA RestShows ==
  ASSUME ConstantsAssumption, IInv,
         \/ \E e \in Events : Rearm(e) \/ DeliverResult(e)
         \/ \E k \in Keys : Prune(k)
         \/ Tick
  PROVE  Effect!Next \/ UNCHANGED Effect!vars
<1>1. InboxOK
  BY DEF IInv
<1>2. ASSUME NEW e \in Events, NEW r, inbox' = [inbox EXCEPT ![e] = r], r.state \notin Terminal,
             inbox[e].state \in Terminal, e \notin outbox, released' = released \cup {e},
             UNCHANGED <<outbox, msgs, delivered>>
      PROVE  Effect!Reopen(e)
  <2>1. /\ Effects' = [Effects EXCEPT ![e] = Meaning(r)] /\ Effects[e] = Meaning(inbox[e])
        /\ Unread' = Unread
    <3>1. e \notin Messages
      BY DEF ConstantsAssumption
    <3> QED
      BY <1>1, <1>2, <3>1, EffectsMove DEF Unread, RecordedPoison, ReadyMessages
  <2>2. Meaning(r) = "undecided" /\ Meaning(inbox[e]) # "undecided"
    BY <1>2, Meanings
  <2>3. AckedReady' = AckedReady /\ Reopened' = Reopened \cup {e}
    BY <1>2 DEF AckedReady, Reopened
  <2> QED
    BY <1>2, <2>1, <2>2, <2>3 DEF Effect!Reopen, Effects, Unread, AckedReady, Reopened
<1>3. ASSUME NEW e \in Events, Rearm(e) PROVE Effect!Reopen(e)
  <2> PICK r : r = WaitingRow(inbox[e].hash, 0, 0)
    OBVIOUS
  <2>1. inbox' = [inbox EXCEPT ![e] = r] /\ r.state = "RECEIVED"
    BY <1>1, <1>3 DEF Rearm, InboxOK, Keys, WaitingRow
  <2> QED
    BY <1>2, <1>3, <2>1 DEF Rearm, Rearmable, Terminal
<1>4. ASSUME NEW e \in Events, Prune(e) PROVE Effect!Reopen(e)
  BY <1>2, <1>4 DEF Prune, Prunable, AbsentRow, Terminal
<1>5. ASSUME NEW m \in Messages, Prune(m)
      PROVE  (\E n \in ReadyMessages : Effect!LoseSource(n)) \/ UNCHANGED Effect!vars
  <2>1. m \notin Events /\ \A k \in Keys \ {m} : inbox'[k] = inbox[k]
    BY <1>1, <1>5 DEF Prune, InboxOK, ConstantsAssumption
  <2>2. Effects' = Effects
    BY <2>1, EffectsStay DEF Keys
  <2>3. AckedReady' = AckedReady /\ Reopened' = Reopened
    BY <1>5, <2>1 DEF AckedReady, Reopened, Prune
  <2>4. Unread' = IF m \in ReadyMessages THEN Unread \cup {m} ELSE Unread
    BY <1>5, <2>1 DEF Unread, RecordedPoison, ReadyMessages, Prune, Keys
  <2>5. UNCHANGED <<outbox, delivered>>
    BY <1>5 DEF Prune
  <2>6. CASE m \in ReadyMessages \ Unread
    BY <2>2, <2>3, <2>4, <2>5, <2>6 DEF Effect!LoseSource, Effects, AckedReady, Unread, Reopened
  <2>7. CASE m \notin ReadyMessages \ Unread
    BY <2>2, <2>3, <2>4, <2>5, <2>7 DEF Effect!vars, Effects, AckedReady, Unread, Reopened
  <2> QED
    BY <2>6, <2>7
<1>6. ASSUME NEW e \in Events, DeliverResult(e) PROVE Effect!HandOver(e)
  BY <1>6 DEF DeliverResult, Effect!HandOver, EffectOf, RecordedPoison
<1>7. CASE Tick
  <2>1. \A k \in Keys : inbox'[k].state = inbox[k].state /\ inbox'[k].reason = inbox[k].reason
    <3>1. ASSUME NEW row \in Row, NEW at
          PROVE  [row EXCEPT !.availableAt = at].state = row.state
                 /\ [row EXCEPT !.availableAt = at].reason = row.reason
      BY DEF Row
    <3> QED
      BY <1>1, <1>7, <3>1 DEF Tick, InboxOK
  <2>2. Effects' = Effects
    BY <2>1, EffectsStay DEF Keys, Meaning
  <2>3. Unread' = Unread
    BY <1>7, <2>1 DEF Tick, Unread, RecordedPoison, ReadyMessages, Keys, history
  <2> QED
    BY <1>7, <2>2, <2>3, Quiet DEF Tick, AckedReady, history
<1> QED
  BY <1>3, <1>4, <1>5, <1>6, <1>7 DEF Effect!Next, Keys

LEMMA StepShows ==
  ASSUME ConstantsAssumption
  PROVE  IInv /\ AckedIsDecided' /\ [Next]_vars => [Effect!Next]_(Effect!vars)
<1> SUFFICES ASSUME IInv, AckedIsDecided', [Next]_vars PROVE Effect!Next \/ UNCHANGED Effect!vars
  OBVIOUS
<1>1. CASE UNCHANGED vars
  BY <1>1, EffectsStay, Quiet DEF vars, Unread, AckedReady, RecordedPoison
<1>2. ASSUME NEW c \in Consumers, Process(c) PROVE Effect!Next \/ UNCHANGED Effect!vars
  <2>1. CASE RecordPoison(c)
    BY <2>1, PoisonShows DEF Effect!Next
  <2>2. CASE BusyCheck(c) \/ ClaimRefused(c) \/ FinishWork(c) \/ LeaseLost(c) \/ PublishDeadLetter(c)
    BY <2>2, QuietSteps
  <2>3. CASE Claim(c) \/ Defer(c) \/ MarkDlqPublished(c)
    BY <2>3, QuietRows
  <2>4. CASE ClaimConflict(c) \/ ClaimExhausted(c) \/ MarkDead(c) \/ MarkFailure(c)
    <3>1. KeyOf(c) \in Events
      BY <2>4, HandlingParts DEF ClaimConflict, ClaimExhausted, MarkDead, MarkFailure, Handling, Settling
    <3> QED
      BY <2>4, <3>1, ClosingSteps, QuietRows DEF Effect!Next
  <2>5. CASE CommitOutboxed(c)
    BY <2>5, CommitShows DEF Effect!Next
  <2>6. CASE Ack(c)
    BY <2>6, AckShows DEF Effect!Next
  <2> QED
    BY <1>2, <2>1, <2>2, <2>3, <2>4, <2>5, <2>6 DEF Process
<1> QED
  BY <1>1, <1>2, QuietSteps, RestShows DEF Next

LEMMA InitShows ==
  ASSUME ConstantsAssumption
  PROVE  Init => Effect!Init
<1> SUFFICES ASSUME Init PROVE Effect!Init
  OBVIOUS
<1>1. \A k \in Keys : inbox[k].state = "ABSENT"
  BY DEF Init, AbsentRow
<1>2. Effects = [e \in Events |-> "undecided"]
  BY <1>1 DEF Effects, EffectOf, Keys
<1>3. AckedReady = {} /\ Unread = {} /\ Reopened = {}
  BY <1>1 DEF Init, AckedReady, Unread, Reopened, RecordedPoison, ReadyMessages, Keys
<1> QED
  BY <1>2, <1>3 DEF Init, Effect!Init, Effects, AckedReady, Unread, Reopened

\* To whoever looks at decisions, results and acknowledgements only, the consumer is the
\* five-step ReadyEventEffect: leases, retries, crashes and late processes never show.
THEOREM ConsumerImplementsEffect ==
  ASSUME ConstantsAssumption
  PROVE  Spec => ImplementsEffect
BY InitShows, StepShows, AlwaysIInv, NoEarlyAck, PTL DEF Spec, ImplementsEffect, Effect!Spec

=============================================================================
