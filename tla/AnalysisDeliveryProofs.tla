------------------------ MODULE AnalysisDeliveryProofs ------------------------
(* DeliverySound, machine-checked for any number of runs, workers, attempts,  *)
(* crashes and store errors, and any lease, back-off and lag.                 *)
(*                                                                            *)
(* The invariant adds to DeliverySound what a worker that is about to settle  *)
(* a row knows about it (VerdictSound).                                       *)
EXTENDS AnalysisDelivery, SequenceTheorems, TLAPS

RowTypes == rows \in [Runs -> Row]

WorkerTypes ==
  /\ worker \in [Workers -> Worker]
  /\ \A w \in Workers : worker[w].pc \notin {"idle", "stopped"} => worker[w].run \in Runs

SetTypes ==
  /\ late \subseteq Runs /\ stored \subseteq Runs
  /\ accepted \subseteq Runs /\ refused \subseteq Runs
  /\ crashes \in 0..MaxCrashes /\ errors \in 0..MaxStoreErrors

QueueOK ==
  /\ queue \in Seq(Runs)
  /\ \A r \in Runs : rows[r].state # "ABSENT" <=> \E i \in DOMAIN queue : queue[i] = r
  /\ \A i, j \in DOMAIN queue : queue[i] = queue[j] => i = j

\* "delivered" is said of what meeting-service has, "terminal" of what was refused.
VerdictSound ==
  \A w \in Workers :
    worker[w].pc = "settle" =>
      /\ worker[w].verdict = "delivered" => worker[w].run \in stored
      /\ worker[w].verdict = "terminal" => worker[w].run \in refused

IInv ==
  /\ RowTypes /\ WorkerTypes /\ SetTypes /\ QueueOK
  /\ NoResultLost /\ SettlesLatestAttempt /\ DeadIsJustified /\ VerdictSound

-----------------------------------------------------------------------------
(* Rows and workers. *)

LEMMA RowsAreRows ==
  ASSUME DeliveryAssumption
  PROVE  /\ AbsentRow \in Row /\ [AbsentRow EXCEPT !.state = "PENDING"] \in Row
         /\ IdleWorker \in Worker /\ [IdleWorker EXCEPT !.pc = "stopped"] \in Worker
         /\ \A n \in 0..(MaxAttempts + 1) : Counted(n) \in 0..(MaxAttempts + 1)
BY DEF DeliveryAssumption, AbsentRow, Row, RowStates, IdleWorker, Worker, Pcs, Verdicts, Counted

LEMMA OneRow ==
  ASSUME RowTypes, NEW r \in Runs, NEW row \in Row, rows' = [rows EXCEPT ![r] = row]
  PROVE  RowTypes' /\ rows'[r] = row /\ \A q \in Runs : q # r => rows'[q] = rows[q]
BY DEF RowTypes

LEMMA OneWorker ==
  ASSUME WorkerTypes, NEW w \in Workers, NEW new \in Worker,
         new.pc \notin {"idle", "stopped"} => new.run \in Runs,
         worker' = [worker EXCEPT ![w] = new]
  PROVE  WorkerTypes' /\ worker'[w] = new /\ \A v \in Workers : v # w => worker'[v] = worker[v]
BY DEF WorkerTypes

\* A step of the outbox alone that keeps the set of retained rows keeps the queue.
LEMMA QueueKept ==
  ASSUME QueueOK, queue' = queue, \A r \in Runs : rows'[r].state = "ABSENT" <=> rows[r].state = "ABSENT"
  PROVE  QueueOK'
BY DEF QueueOK

LEMMA QueueShortened ==
  ASSUME QueueOK, RowTypes, NEW r \in Runs, rows[r].state # "ABSENT",
         rows' = [rows EXCEPT ![r] = AbsentRow], queue' = QueueWithout(r)
  PROVE  QueueOK'
<1> DEFINE k == Position(r)
           n == Len(queue)
<1>1. queue \in [1..n -> Runs] /\ n \in Nat /\ DOMAIN queue = 1..n
  BY LenProperties DEF QueueOK
<1>2. k \in 1..n /\ queue[k] = r
  BY <1>1 DEF QueueOK, Position
<1> HIDE DEF k
<1>3. queue' = [i \in 1..(n - 1) |-> queue[IF i < k THEN i ELSE i + 1]] /\ n - 1 \in Nat
  BY <1>1, <1>2 DEF QueueWithout, k
<1>4. queue' \in [1..(n - 1) -> Runs] /\ DOMAIN queue' = 1..(n - 1)
  BY <1>1, <1>2, <1>3
<1>5. queue' \in Seq(Runs)
  BY <1>3, <1>4, SeqDef
<1>6. \A i, j \in DOMAIN queue' : queue'[i] = queue'[j] => i = j
  BY <1>1, <1>2, <1>3, <1>4 DEF QueueOK
<1>7. ASSUME NEW q \in Runs
      PROVE  rows'[q].state # "ABSENT" <=> \E i \in DOMAIN queue' : queue'[i] = q
  <2>1. CASE q = r
    <3>1. \A i \in 1..(n - 1) : queue'[i] # r
      BY <1>1, <1>2, <1>3 DEF QueueOK
    <3> QED
      BY <1>4, <2>1, <3>1 DEF AbsentRow, RowTypes
  <2>2. CASE q # r
    <3>1. rows'[q] = rows[q]
      BY <2>2 DEF RowTypes
    <3>2. ASSUME NEW i \in 1..n, queue[i] = q PROVE \E j \in 1..(n - 1) : queue'[j] = q
      <4>1. i # k
        BY <1>2, <2>2, <3>2
      <4>2. CASE i < k
        BY <1>1, <1>2, <1>3, <3>2, <4>2
      <4>3. CASE i > k
        <5>1. i - 1 \in 1..(n - 1) /\ queue'[i - 1] = queue[i]
          BY <1>1, <1>2, <1>3, <4>3
        <5> QED
          BY <3>2, <5>1
      <4> QED
        BY <1>1, <1>2, <4>1, <4>2, <4>3
    <3>3. ASSUME NEW j \in 1..(n - 1) PROVE \E i \in 1..n : queue[i] = queue'[j]
      BY <1>1, <1>2, <1>3
    <3>4. (\E i \in 1..n : queue[i] = q) <=> (\E j \in 1..(n - 1) : queue'[j] = q)
      BY <3>2, <3>3
    <3>5. rows[q].state # "ABSENT" <=> \E i \in 1..n : queue[i] = q
      BY <1>1 DEF QueueOK
    <3> QED
      BY <1>4, <3>1, <3>4, <3>5
  <2> QED
    BY <2>1, <2>2
<1> QED
  BY <1>5, <1>6, <1>7 DEF QueueOK

\* What IInv says of a row depends on its state, attempts and owner only.
LEMMA WorkerStep ==
  ASSUME DeliveryAssumption, IInv, NEW w \in Workers, NEW new \in Worker,
         worker' = [worker EXCEPT ![w] = new],
         new.pc \notin {"idle", "stopped"} => new.run = worker[w].run /\ new.attempt = worker[w].attempt
                                              /\ worker[w].pc \in {"claimed", "posted", "settle"},
         UNCHANGED <<rows, queue, accepted>>,
         stored \subseteq stored', refused \subseteq refused', SetTypes',
         new.pc = "settle" => (new.verdict = "delivered" => new.run \in stored')
                              /\ (new.verdict = "terminal" => new.run \in refused')
  PROVE  IInv'
<1>1. new.pc \notin {"idle", "stopped"} => new.run \in Runs
  BY DEF IInv, WorkerTypes
<1>2. WorkerTypes' /\ worker'[w] = new /\ \A v \in Workers : v # w => worker'[v] = worker[v]
  BY <1>1, OneWorker DEF IInv
<1>3. RowTypes' /\ QueueOK'
  BY QueueKept DEF IInv, RowTypes
<1>4. NoResultLost' /\ DeadIsJustified'
  BY DEF IInv, NoResultLost, DeadIsJustified
<1>5. SettlesLatestAttempt'
  BY <1>2 DEF IInv, SettlesLatestAttempt, Owns
<1>6. VerdictSound'
  BY <1>2 DEF IInv, VerdictSound
<1> QED
  BY <1>2, <1>3, <1>4, <1>5, <1>6 DEF IInv

LEMMA WorkerSteps ==
  ASSUME DeliveryAssumption, IInv, NEW w \in Workers,
         FailBeforePost(w) \/ Post(w) \/ Answer(w) \/ AnswerTerminal(w) \/ Timeout(w) \/ StoreError(w)
  PROVE  IInv'
<1> DEFINE old == worker[w]
           r == worker[w].run
<1>1. old \in Worker /\ (old.pc \notin {"idle", "stopped"} => r \in Runs)
  BY DEF IInv, WorkerTypes
<1>2. ASSUME NEW verdict \in Verdicts
      PROVE  [old EXCEPT !.pc = "settle", !.verdict = verdict] \in Worker
  BY <1>1 DEF Worker, Pcs
<1>3. ASSUME NEW verdict \in Verdicts, Conclude(w, verdict), old.pc \in {"claimed", "posted"},
             UNCHANGED <<rows, queue, accepted>>,
             stored \subseteq stored', refused \subseteq refused', SetTypes',
             verdict = "delivered" => r \in stored',
             verdict = "terminal" => r \in refused'
      PROVE  IInv'
  <2> DEFINE new == [old EXCEPT !.pc = "settle", !.verdict = verdict]
  <2>1. worker' = [worker EXCEPT ![w] = new] /\ new \in Worker
    BY <1>2, <1>3 DEF Conclude
  <2>2. new.pc = "settle" /\ new.run = r /\ new.attempt = old.attempt /\ new.verdict = verdict
    BY <1>1 DEF Worker
  <2> HIDE DEF new
  <2> QED
    BY <1>3, <2>1, <2>2, WorkerStep
<1>4. SetTypes
  BY DEF IInv
<1>5. CASE FailBeforePost(w)
  BY <1>1, <1>3, <1>4, <1>5 DEF FailBeforePost, Verdicts, SetTypes
<1>6. CASE Answer(w)
  BY <1>1, <1>3, <1>4, <1>6 DEF Answer, ConclusionOfAnswer, Verdicts, SetTypes
<1>7. CASE AnswerTerminal(w)
  BY <1>1, <1>3, <1>4, <1>7 DEF AnswerTerminal, Verdicts, SetTypes
<1>8. CASE Timeout(w)
  BY <1>1, <1>3, <1>4, <1>8 DEF Timeout, Verdicts, SetTypes
<1>9. CASE Post(w)
  <2> DEFINE new == [old EXCEPT !.pc = "posted"]
  <2>1. worker' = [worker EXCEPT ![w] = new] /\ new \in Worker
    BY <1>1, <1>9 DEF Post, Worker, Pcs
  <2>2. new.pc = "posted" /\ new.run = r /\ new.attempt = old.attempt /\ old.pc = "claimed"
    BY <1>1, <1>9 DEF Worker, Post
  <2>3. UNCHANGED <<rows, queue, accepted, stored, refused>> /\ SetTypes'
    BY <1>4, <1>9 DEF Post, SetTypes
  <2> HIDE DEF new
  <2> QED
    BY <2>1, <2>2, <2>3, WorkerStep
<1>10. CASE StoreError(w)
  <2> DEFINE new == [IdleWorker EXCEPT !.pc = "stopped"]
  <2>1. worker' = [worker EXCEPT ![w] = new] /\ new \in Worker /\ new.pc = "stopped"
    BY <1>10, RowsAreRows DEF StoreError, IdleWorker
  <2>2. UNCHANGED <<rows, queue, accepted, stored, refused>> /\ SetTypes'
    BY <1>4, <1>10 DEF StoreError, SetTypes, DeliveryAssumption
  <2> HIDE DEF new
  <2> QED
    BY <2>1, <2>2, WorkerStep
<1> QED
  BY <1>5, <1>6, <1>7, <1>8, <1>9, <1>10

-----------------------------------------------------------------------------
(* Taking a row and settling it. *)

LEMMA ClaimKeeps ==
  ASSUME DeliveryAssumption, IInv, NEW w \in Workers, Claim(w)
  PROVE  IInv'
<1> PICK lag \in 0..MaxStampAge, i \in DOMAIN queue :
      LET r == queue[i]
          n == Counted(rows[r].attempts)
      IN  /\ Claimable(r, -lag)
          /\ rows' = [rows EXCEPT ![r] = [state |-> "IN_FLIGHT", attempts |-> n,
                                          dueAt |-> LeaseTicks - lag, owner |-> w]]
          /\ worker' = [worker EXCEPT ![w] = [pc |-> "claimed", run |-> r, attempt |-> n,
                                              verdict |-> None]]
  BY DEF Claim
<1> DEFINE n == Counted(rows[queue[i]].attempts)
<1> PICK r : r = queue[i]
  OBVIOUS
<1> PICK m : m = n
  OBVIOUS
<1> DEFINE row == [state |-> "IN_FLIGHT", attempts |-> m, dueAt |-> LeaseTicks - lag, owner |-> w]
           new == [pc |-> "claimed", run |-> r, attempt |-> m, verdict |-> None]
<1>1. /\ rows' = [rows EXCEPT ![r] = row] /\ worker' = [worker EXCEPT ![w] = new]
      /\ rows[r].state \in Active
      /\ UNCHANGED <<queue, late, stored, accepted, refused, crashes, errors>>
  BY DEF Claim, Claimable
<1>2. r \in Runs
  BY ElementOfSeq, LenProperties DEF IInv, QueueOK
<1>3. m \in 0..(MaxAttempts + 1)
  BY <1>2, RowsAreRows DEF IInv, RowTypes, Row
<1>4. row \in Row /\ new \in Worker
  BY <1>2, <1>3 DEF Row, RowStates, Worker, Pcs, DeliveryAssumption
<1>5. RowTypes' /\ rows'[r] = row /\ \A q \in Runs : q # r => rows'[q] = rows[q]
  BY <1>1, <1>2, <1>4, OneRow DEF IInv
<1>6. WorkerTypes' /\ worker'[w] = new /\ \A v \in Workers : v # w => worker'[v] = worker[v]
  BY <1>1, <1>2, <1>4, OneWorker DEF IInv
<1>7. QueueOK' /\ SetTypes'
  BY <1>1, <1>5, QueueKept DEF IInv, SetTypes, Active
<1>8. NoResultLost' /\ DeadIsJustified'
  BY <1>1, <1>2, <1>5 DEF IInv, NoResultLost, DeadIsJustified, SetTypes
<1>9. SettlesLatestAttempt'
  BY <1>5, <1>6 DEF IInv, SettlesLatestAttempt, Owns, WorkerTypes
<1>10. VerdictSound'
  BY <1>1, <1>6 DEF IInv, VerdictSound
<1> QED
  BY <1>5, <1>6, <1>7, <1>8, <1>9, <1>10 DEF IInv

\* A worker that settles is idle afterwards, whether it still owned the row or not.
LEMMA SettledWithoutRow ==
  ASSUME DeliveryAssumption, IInv, NEW w \in Workers, Leave(w),
         UNCHANGED <<rows, queue, late, stored, accepted, refused, crashes, errors>>
  PROVE  IInv'
<1>1. worker' = [worker EXCEPT ![w] = IdleWorker] /\ IdleWorker \in Worker /\ IdleWorker.pc = "idle"
  BY RowsAreRows DEF Leave, IdleWorker
<1>2. SetTypes'
  BY DEF IInv, SetTypes
<1> QED
  BY <1>1, <1>2, WorkerStep

\* The same, with a row it owned: all that is left to show is about that row.
LEMMA SettledRow ==
  ASSUME DeliveryAssumption, IInv, NEW w \in Workers, worker[w].pc = "settle", Owns(w), Leave(w),
         NEW row \in Row, rows' = [rows EXCEPT ![worker[w].run] = row],
         row.state = "ABSENT" => worker[w].run \in stored /\ queue' = QueueWithout(worker[w].run) /\ row = AbsentRow,
         row.state # "ABSENT" => queue' = queue,
         row.state = "DEAD" => worker[w].run \in refused \/ row.attempts >= MaxAttempts,
         row.owner = None,
         UNCHANGED <<late, stored, accepted, refused, crashes, errors>>
  PROVE  IInv'
<1> PICK r : r = worker[w].run
  OBVIOUS
<1>1. r \in Runs /\ rows[r].state = "IN_FLIGHT"
  BY DEF IInv, WorkerTypes, Owns
<1>2. RowTypes' /\ rows'[r] = row /\ \A q \in Runs : q # r => rows'[q] = rows[q]
  BY <1>1, OneRow DEF IInv
<1>3. WorkerTypes' /\ worker'[w] = IdleWorker /\ \A v \in Workers : v # w => worker'[v] = worker[v]
  BY OneWorker, RowsAreRows DEF IInv, Leave, IdleWorker
<1>4. QueueOK'
  <2>1. CASE row.state = "ABSENT"
    BY <1>1, <2>1, QueueShortened DEF IInv
  <2>2. CASE row.state # "ABSENT"
    BY <1>1, <1>2, <2>2, QueueKept DEF IInv
  <2> QED
    BY <2>1, <2>2
<1>5. SetTypes'
  BY DEF IInv, SetTypes
<1>6. NoResultLost' /\ DeadIsJustified'
  BY <1>2 DEF IInv, NoResultLost, DeadIsJustified, SetTypes
<1>7. SettlesLatestAttempt'
  BY <1>2, <1>3 DEF IInv, SettlesLatestAttempt, Owns, IdleWorker, WorkerTypes, DeliveryAssumption
<1>8. VerdictSound'
  BY <1>3 DEF IInv, VerdictSound, IdleWorker
<1> QED
  BY <1>2, <1>3, <1>4, <1>5, <1>6, <1>7, <1>8 DEF IInv

LEMMA SettlingKeeps ==
  ASSUME DeliveryAssumption, IInv, NEW w \in Workers, MarkDelivered(w) \/ MarkDead(w) \/ MarkRetry(w)
  PROVE  IInv'
<1> DEFINE r == worker[w].run
<1>1. /\ worker[w].pc = "settle" /\ Leave(w)
      /\ UNCHANGED <<late, stored, accepted, refused, crashes, errors>>
  BY DEF MarkDelivered, MarkDead, MarkRetry
<1>2. CASE ~Owns(w)
  BY <1>1, <1>2, SettledWithoutRow DEF MarkDelivered, MarkDead, MarkRetry
<1>3. CASE Owns(w) /\ MarkDelivered(w)
  <2>1. rows' = [rows EXCEPT ![r] = AbsentRow] /\ queue' = QueueWithout(r) /\ r \in stored
    BY <1>1, <1>3 DEF MarkDelivered, IInv, VerdictSound
  <2>2. AbsentRow \in Row /\ AbsentRow.state = "ABSENT" /\ AbsentRow.owner = None
    BY RowsAreRows DEF AbsentRow
  <2> QED
    BY <1>1, <1>3, <2>1, <2>2, SettledRow
<1>4. r \in Runs /\ rows[r] \in Row
  BY <1>1 DEF IInv, WorkerTypes, RowTypes
<1>5. Owns(w) /\ MarkDead(w) =>
        /\ rows' = [rows EXCEPT ![r] = [rows[r] EXCEPT !.state = "DEAD", !.dueAt = 0, !.owner = None]]
        /\ queue' = queue
  BY DEF MarkDead
<1> PICK old \in Row : old = rows[r]
  BY <1>4
<1>6. CASE Owns(w) /\ MarkDead(w)
  <2> DEFINE row == [old EXCEPT !.state = "DEAD", !.dueAt = 0, !.owner = None]
  <2>1. rows' = [rows EXCEPT ![r] = row] /\ queue' = queue
    <3>1. row = [rows[r] EXCEPT !.state = "DEAD", !.dueAt = 0, !.owner = None]
      OBVIOUS
    <3> HIDE DEF row
    <3> QED
      BY <1>5, <1>6, <3>1
  <2>2. row \in Row /\ row.state = "DEAD" /\ row.owner = None /\ row.attempts = rows[r].attempts
    <3>1. PICK lease \in Int : lease = 0
      OBVIOUS
    <3>2. [old EXCEPT !.state = "DEAD", !.dueAt = lease, !.owner = None] \in Row
      BY DEF Row, RowStates
    <3>3. row \in Row /\ row.state = "DEAD" /\ row.owner = None
      BY <3>1, <3>2 DEF Row, RowStates
    <3>4. row.attempts = old.attempts
      BY DEF Row
    <3> QED
      BY <3>3, <3>4
  <2>3. worker[w].verdict = "terminal" \/ worker[w].attempt >= MaxAttempts
    BY <1>6 DEF MarkDead, Spent
  <2>4. r \in refused \/ row.attempts >= MaxAttempts
    BY <1>1, <1>6, <2>2, <2>3 DEF IInv, VerdictSound, SettlesLatestAttempt
  <2> HIDE DEF row
  <2> QED
    BY <1>1, <1>6, <2>1, <2>2, <2>4, SettledRow
<1>7. CASE Owns(w) /\ MarkRetry(w)
  <2> PICK lag \in 0..MaxStampAge :
        rows' = [rows EXCEPT ![r] = [@ EXCEPT !.state = "PENDING", !.owner = None, !.dueAt = BackoffTicks - lag]]
    BY <1>7 DEF MarkRetry
  <2> DEFINE row == [old EXCEPT !.state = "PENDING", !.owner = None, !.dueAt = BackoffTicks - lag]
  <2>1. rows' = [rows EXCEPT ![r] = row] /\ queue' = queue
    BY <1>7 DEF MarkRetry
  <2>2. row \in Row /\ row.state = "PENDING" /\ row.owner = None
    <3>1. BackoffTicks - lag \in Int
      BY DEF DeliveryAssumption
    <3> QED
      BY <3>1 DEF Row, RowStates
  <2> HIDE DEF row
  <2> QED
    BY <1>1, <1>7, <2>1, <2>2, SettledRow
<1> QED
  BY <1>2, <1>3, <1>6, <1>7

-----------------------------------------------------------------------------
(* The rest of the system. *)

\* Steps that touch no worker.
LEMMA RowStep ==
  ASSUME IInv, RowTypes', QueueOK', SetTypes', NoResultLost', DeadIsJustified',
         UNCHANGED worker, stored \subseteq stored', refused \subseteq refused',
         \A r \in Runs : rows'[r].state = "IN_FLIGHT" =>
            rows[r].state = "IN_FLIGHT" /\ rows'[r].owner = rows[r].owner /\ rows'[r].attempts = rows[r].attempts
  PROVE  IInv'
<1>1. WorkerTypes' /\ VerdictSound'
  BY DEF IInv, WorkerTypes, VerdictSound
<1>2. SettlesLatestAttempt'
  BY DEF IInv, SettlesLatestAttempt, Owns, WorkerTypes
<1> QED
  BY <1>1, <1>2 DEF IInv

LEMMA EnqueueKeeps ==
  ASSUME DeliveryAssumption, IInv, NEW r \in Runs, Enqueue(r)
  PROVE  IInv'
<1> DEFINE row == [AbsentRow EXCEPT !.state = "PENDING"]
           n == Len(queue)
<1>1. /\ rows' = [rows EXCEPT ![r] = row] /\ rows[r].state = "ABSENT" /\ queue' = Append(queue, r)
      /\ accepted' = accepted \cup {r}
      /\ UNCHANGED <<worker, late, stored, refused, crashes, errors>>
  BY DEF Enqueue
<1>2. row \in Row /\ row.state = "PENDING"
  BY RowsAreRows DEF AbsentRow
<1> HIDE DEF row
<1>3. RowTypes' /\ rows'[r] = row /\ \A q \in Runs : q # r => rows'[q] = rows[q]
  BY <1>1, <1>2, OneRow DEF IInv
<1>4. QueueOK'
  <2>1. n \in Nat /\ queue \in [1..n -> Runs] /\ DOMAIN queue = 1..n /\ queue \in Seq(Runs)
    BY LenProperties DEF IInv, QueueOK
  <2>2. /\ queue' \in Seq(Runs) /\ DOMAIN queue' = 1..(n + 1) /\ queue'[n + 1] = r
        /\ \A i \in 1..n : queue'[i] = queue[i]
    <3>1. Len(Append(queue, r)) = n + 1 /\ Append(queue, r) \in Seq(Runs)
      BY <2>1, AppendProperties
    <3> QED
      BY <1>1, <2>1, <3>1, AppendProperties, LenProperties
  <2>3. \A i \in 1..n : queue[i] # r
    BY <1>1, <2>1 DEF IInv, QueueOK
  <2>4. \A i, j \in DOMAIN queue' : queue'[i] = queue'[j] => i = j
    BY <2>1, <2>2, <2>3 DEF IInv, QueueOK
  <2>5. ASSUME NEW q \in Runs PROVE rows'[q].state # "ABSENT" <=> \E i \in DOMAIN queue' : queue'[i] = q
    <3>1. CASE q = r
      BY <1>2, <1>3, <2>1, <2>2, <3>1
    <3>2. CASE q # r
      <4>1. rows[q].state # "ABSENT" <=> \E i \in 1..n : queue[i] = q
        BY <2>1 DEF IInv, QueueOK
      <4>2. (\E i \in 1..n : queue[i] = q) <=> \E i \in 1..(n + 1) : queue'[i] = q
        BY <2>1, <2>2, <3>2
      <4> QED
        BY <1>3, <2>2, <3>2, <4>1, <4>2
    <3> QED
      BY <3>1, <3>2
  <2> QED
    BY <2>2, <2>4, <2>5 DEF QueueOK
<1>5. SetTypes'
  BY <1>1 DEF IInv, SetTypes
<1>6. NoResultLost' /\ DeadIsJustified'
  BY <1>1, <1>2, <1>3 DEF IInv, NoResultLost, DeadIsJustified, SetTypes
<1> QED
  BY <1>1, <1>2, <1>3, <1>4, <1>5, <1>6, RowStep

LEMMA RequeueKeeps ==
  ASSUME DeliveryAssumption, IInv, NEW r \in Runs, RequeueDead(r)
  PROVE  IInv'
<1> DEFINE row == [AbsentRow EXCEPT !.state = "PENDING"]
<1>1. /\ rows' = [rows EXCEPT ![r] = row] /\ rows[r].state = "DEAD"
      /\ crashes < MaxCrashes /\ crashes' = crashes + 1
      /\ UNCHANGED <<queue, worker, late, stored, accepted, refused, errors>>
  BY DEF RequeueDead
<1>2. row \in Row /\ row.state = "PENDING"
  BY RowsAreRows DEF AbsentRow
<1> HIDE DEF row
<1>3. RowTypes' /\ rows'[r] = row /\ \A q \in Runs : q # r => rows'[q] = rows[q]
  BY <1>1, <1>2, OneRow DEF IInv
<1>4. QueueOK'
  BY <1>1, <1>2, <1>3, QueueKept DEF IInv
<1>5. SetTypes'
  BY <1>1 DEF IInv, SetTypes, DeliveryAssumption
<1>6. NoResultLost' /\ DeadIsJustified'
  BY <1>1, <1>2, <1>3 DEF IInv, NoResultLost, DeadIsJustified, SetTypes
<1> QED
  BY <1>1, <1>2, <1>3, <1>4, <1>5, <1>6, RowStep

LEMMA LateArrivalKeeps ==
  ASSUME DeliveryAssumption, IInv, NEW r \in Runs, LateArrival(r)
  PROVE  IInv'
<1>1. /\ UNCHANGED <<rows, queue, worker, accepted, refused, crashes, errors>>
      /\ late' \subseteq late /\ stored \subseteq stored' /\ stored' \subseteq stored \cup {r}
  BY DEF LateArrival
<1>2. RowTypes' /\ QueueOK'
  BY <1>1, QueueKept DEF IInv, RowTypes
<1>3. SetTypes' /\ NoResultLost' /\ DeadIsJustified'
  BY <1>1 DEF IInv, SetTypes, NoResultLost, DeadIsJustified
<1> QED
  BY <1>1, <1>2, <1>3, RowStep

LEMMA TickKeeps ==
  ASSUME DeliveryAssumption, IInv, Tick
  PROVE  IInv'
<1>1. /\ rows' = [r \in Runs |-> IF rows[r].state \in Active
                                 THEN [rows[r] EXCEPT !.dueAt = Earlier(@)] ELSE rows[r]]
      /\ UNCHANGED <<queue, worker, late, stored, accepted, refused, crashes, errors>>
  BY DEF Tick
<1>2. ASSUME NEW row \in Row
      PROVE  LET new == [row EXCEPT !.dueAt = Earlier(row.dueAt)]
             IN  /\ new \in Row /\ new.state = row.state /\ new.owner = row.owner
                 /\ new.attempts = row.attempts
  BY DEF Row, Earlier, DeliveryAssumption
<1>3. ASSUME NEW r \in Runs
      PROVE  /\ rows'[r] \in Row /\ rows'[r].state = rows[r].state /\ rows'[r].owner = rows[r].owner
             /\ rows'[r].attempts = rows[r].attempts
  BY <1>1, <1>2 DEF IInv, RowTypes
<1>4. RowTypes'
  BY <1>1, <1>3 DEF RowTypes
<1>5. QueueOK'
  BY <1>1, <1>3, QueueKept DEF IInv
<1>6. SetTypes' /\ NoResultLost' /\ DeadIsJustified'
  BY <1>1, <1>3 DEF IInv, SetTypes, NoResultLost, DeadIsJustified
<1> QED
  BY <1>1, <1>3, <1>4, <1>5, <1>6, RowStep

LEMMA CrashKeeps ==
  ASSUME DeliveryAssumption, IInv, NEW w \in Workers, Crash(w)
  PROVE  IInv'
<1>1. /\ rows' = [r \in Runs |-> IF rows[r].owner = w THEN [rows[r] EXCEPT !.owner = None] ELSE rows[r]]
      /\ worker' = [worker EXCEPT ![w] = IdleWorker]
      /\ crashes < MaxCrashes /\ crashes' = crashes + 1
      /\ late' = IF worker[w].pc = "posted" THEN late \cup {worker[w].run} ELSE late
      /\ UNCHANGED <<queue, stored, accepted, refused, errors>>
  BY DEF Crash, Disowned, Leave
<1>2. ASSUME NEW row \in Row
      PROVE  LET new == [row EXCEPT !.owner = None]
             IN  /\ new \in Row /\ new.state = row.state /\ new.owner = None
                 /\ new.attempts = row.attempts
  BY DEF Row
<1>3. ASSUME NEW r \in Runs
      PROVE  /\ rows'[r] \in Row /\ rows'[r].state = rows[r].state /\ rows'[r].attempts = rows[r].attempts
             /\ rows'[r].owner \in {rows[r].owner, None}
  BY <1>1, <1>2 DEF IInv, RowTypes
<1>4. RowTypes'
  BY <1>1, <1>3 DEF RowTypes
<1>5. WorkerTypes' /\ worker'[w] = IdleWorker /\ \A v \in Workers : v # w => worker'[v] = worker[v]
  BY <1>1, OneWorker, RowsAreRows DEF IInv, IdleWorker
<1>6. QueueOK'
  BY <1>1, <1>3, QueueKept DEF IInv
<1>7. SetTypes'
  BY <1>1 DEF IInv, SetTypes, WorkerTypes, DeliveryAssumption
<1>8. NoResultLost' /\ DeadIsJustified'
  BY <1>1, <1>3 DEF IInv, NoResultLost, DeadIsJustified, SetTypes
<1>9. SettlesLatestAttempt'
  BY <1>3, <1>5 DEF IInv, SettlesLatestAttempt, Owns, IdleWorker, WorkerTypes, DeliveryAssumption
<1>10. VerdictSound'
  BY <1>1, <1>5 DEF IInv, VerdictSound, IdleWorker
<1> QED
  BY <1>4, <1>5, <1>6, <1>7, <1>8, <1>9, <1>10 DEF IInv

-----------------------------------------------------------------------------
LEMMA InitSound ==
  ASSUME DeliveryAssumption, Init
  PROVE  IInv
<1>1. RowTypes /\ WorkerTypes
  BY RowsAreRows DEF Init, RowTypes, WorkerTypes, IdleWorker
<1>2. SetTypes
  BY DEF Init, SetTypes, DeliveryAssumption
<1>3. QueueOK
  BY EmptySeq DEF Init, QueueOK, AbsentRow
<1>4. NoResultLost /\ SettlesLatestAttempt /\ DeadIsJustified /\ VerdictSound
  BY DEF Init, NoResultLost, SettlesLatestAttempt, DeadIsJustified, VerdictSound, IdleWorker, AbsentRow
<1> QED
  BY <1>1, <1>2, <1>3, <1>4 DEF IInv

LEMMA StepSound ==
  ASSUME DeliveryAssumption, IInv, [Next]_vars
  PROVE  IInv'
<1>1. CASE \E w \in Workers : Claim(w)
  BY <1>1, ClaimKeeps
<1>2. CASE \E w \in Workers : FailBeforePost(w) \/ Post(w) \/ Answer(w) \/ AnswerTerminal(w)
                              \/ Timeout(w) \/ StoreError(w)
  BY <1>2, WorkerSteps
<1>3. CASE \E w \in Workers : MarkDelivered(w) \/ MarkDead(w) \/ MarkRetry(w)
  BY <1>3, SettlingKeeps
<1>4. CASE \E w \in Workers : Crash(w)
  BY <1>4, CrashKeeps
<1>5. CASE \E r \in Runs : Enqueue(r) \/ LateArrival(r) \/ RequeueDead(r)
  BY <1>5, EnqueueKeeps, LateArrivalKeeps, RequeueKeeps
<1>6. CASE Tick
  BY <1>6, TickKeeps
<1>7. CASE UNCHANGED vars
  BY <1>7 DEF vars, IInv, RowTypes, WorkerTypes, SetTypes, QueueOK, NoResultLost, SettlesLatestAttempt,
              DeadIsJustified, VerdictSound, Owns
<1> QED
  BY <1>1, <1>2, <1>3, <1>4, <1>5, <1>6, <1>7 DEF Next, Step, Deliver

\* For any number of workers that crash, are slow or are answered late: no accepted result leaves
\* the outbox before meeting-service has it, a row is settled by its latest attempt only, and given
\* up only for a terminal outcome or at the attempt limit (durable_outbox.py, analysis_delivery.py).
THEOREM DeliveryIsSound ==
  ASSUME DeliveryAssumption
  PROVE  Spec => []DeliverySound
<1>1. Init => IInv
  BY InitSound
<1>2. IInv /\ [Next]_vars => IInv'
  BY StepSound
<1>3. IInv => DeliverySound
  BY DEF IInv, DeliverySound, TypeOK, RowTypes, WorkerTypes, SetTypes, QueueOK
<1> QED
  BY <1>1, <1>2, <1>3, PTL DEF Spec

=============================================================================
