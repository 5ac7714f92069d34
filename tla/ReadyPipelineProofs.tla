------------------------- MODULE ReadyPipelineProofs -------------------------
(* The pipeline, machine-checked for any number of events, processes and      *)
(* delivery workers.                                                          *)
(*                                                                            *)
(* The proof is compositional.  A step of the pipeline is a step of the       *)
(* consumer or leaves its variables alone, and the same of the delivery; so   *)
(* what is proved of each half alone holds of it here, where they share a     *)
(* file.  One fact relates the halves: what the consumer committed, the       *)
(* delivery accepted (Handed).                                                *)
EXTENDS ReadyPipeline, TLAPS

Consumer == INSTANCE ReadyEventConsumerProofs WITH outbox <- Retained, worker <- consumer

Delivery == INSTANCE AnalysisDeliveryProofs WITH
  Runs <- Events, Workers <- Couriers, worker <- courier, MaxRows <- OutboxMaxRows,
  LeaseTicks <- DeliveryLeaseTicks, BackoffTicks <- DeliveryBackoffTicks

Handed == committed \subseteq accepted

IInv == Consumer!IInv /\ Consumer!CommittedIsClosed /\ Delivery!IInv /\ Handed

-----------------------------------------------------------------------------
(* The halves are the modules the component proofs are about.                 *)

LEMMA Counting == \A S : C!Cardinality(S) = Consumer!Cardinality(S)
BY DEF C!Cardinality, Consumer!Cardinality

LEMMA Assumed == Consumer!ConstantsAssumption /\ Delivery!DeliveryAssumption
BY PipelineAssumption
   DEF C!ConstantsAssumption, Consumer!ConstantsAssumption, C!Kinds, Consumer!Kinds,
       C!ErrorCodes, Consumer!ErrorCodes, C!PoisonCodes, Consumer!PoisonCodes,
       D!DeliveryAssumption, Delivery!DeliveryAssumption

LEMMA SameProcess ==
  ASSUME NEW c \in Consumers, C!Process(c)
  PROVE  Consumer!Process(c)
BY Counting, ZenonT(60)
   DEF C!Process, Consumer!Process, C!RecordPoison, Consumer!RecordPoison, C!InboxHasRoom,
       Consumer!InboxHasRoom, C!RowCount, Consumer!RowCount, C!Keys, Consumer!Keys, C!DeadRow,
       Consumer!DeadRow, C!PoisonHash, Consumer!PoisonHash, C!DeadLetter, Consumer!DeadLetter,
       C!WorkerAt, Consumer!WorkerAt, C!Leave, Consumer!Leave, C!IdleWorker,
       Consumer!IdleWorker, C!history, Consumer!history, C!BusyCheck, Consumer!BusyCheck,
       C!KeyOf, Consumer!KeyOf, C!PoisonCodes, Consumer!PoisonCodes, C!Unavailable,
       Consumer!Unavailable, C!Open, Consumer!Open, C!KeepPending, Consumer!KeepPending,
       C!GoTo, Consumer!GoTo, C!ClaimConflict, Consumer!ClaimConflict, C!ClaimRefused,
       Consumer!ClaimRefused, C!ClaimExhausted, Consumer!ClaimExhausted, C!Due, Consumer!Due,
       C!Exhausted, Consumer!Exhausted, C!Claim, Consumer!Claim, C!LiveTokens,
       Consumer!LiveTokens, C!LeasedRow, Consumer!LeasedRow, C!FinishWork,
       Consumer!FinishWork, C!LeaseLost, Consumer!LeaseLost, C!Settling, Consumer!Settling,
       C!Fenced, Consumer!Fenced, C!CommitOutboxed, Consumer!CommitOutboxed, C!OutboxedRow,
       Consumer!OutboxedRow, C!OutboxAfterCommit, Consumer!OutboxAfterCommit, C!MarkFailure,
       Consumer!MarkFailure, C!WaitingRow, Consumer!WaitingRow, C!MarkDead, Consumer!MarkDead,
       C!Defer, Consumer!Defer, C!PublishDeadLetter, Consumer!PublishDeadLetter,
       C!PublishedCode, Consumer!PublishedCode, C!MarkDlqPublished, Consumer!MarkDlqPublished,
       C!Ack, Consumer!Ack

LEMMA SameConsumer == C!Next => Consumer!Next
<1>1. ASSUME NEW m \in Messages
      PROVE  (C!Produce(m) => Consumer!Produce(m)) /\ (C!TrimSource(m) => Consumer!TrimSource(m))
  BY DEF C!Produce, Consumer!Produce, C!TrimSource, Consumer!TrimSource, C!history, Consumer!history
<1>2. ASSUME NEW c \in Consumers, NEW m \in Messages
      PROVE  /\ C!Take(c, m) => Consumer!Take(c, m)
             /\ C!TakeDeleted(c, m) => Consumer!TakeDeleted(c, m)
             /\ C!TakeEmptied(c, m) => Consumer!TakeEmptied(c, m)
  BY DEF C!Take, Consumer!Take, C!TakeDeleted, Consumer!TakeDeleted, C!TakeEmptied,
       Consumer!TakeEmptied, C!PickUp, Consumer!PickUp, C!WorkerAt, Consumer!WorkerAt,
       C!history, Consumer!history
<1>3. ASSUME NEW c \in Consumers, C!Abandon(c)
      PROVE  Consumer!Abandon(c)
  BY <1>3 DEF C!Abandon, Consumer!Abandon, C!Leave, Consumer!Leave, C!IdleWorker,
       Consumer!IdleWorker, C!WorkerAt, Consumer!WorkerAt, C!history, Consumer!history
<1>4. ASSUME NEW e \in Events
      PROVE  /\ C!Rearm(e) => Consumer!Rearm(e)
             /\ C!DeliverResult(e) => Consumer!DeliverResult(e)
  BY DEF C!Rearm, Consumer!Rearm, C!Rearmable, Consumer!Rearmable, C!WaitingRow,
       Consumer!WaitingRow, C!DeliverResult, Consumer!DeliverResult
<1>5. ASSUME NEW k \in C!Keys
      PROVE  k \in Consumer!Keys /\ (C!Prune(k) => Consumer!Prune(k))
  BY DEF C!Prune, Consumer!Prune, C!Prunable, Consumer!Prunable, C!Terminal, Consumer!Terminal,
       C!AbsentRow, Consumer!AbsentRow, C!Keys, Consumer!Keys
<1>6. C!Tick => Consumer!Tick
  BY DEF C!Tick, Consumer!Tick, C!Stamped, Consumer!Stamped, C!Settling, Consumer!Settling,
       C!Keys, Consumer!Keys, C!Open, Consumer!Open, C!Earlier, Consumer!Earlier, C!history,
       Consumer!history
<1> QED
  BY <1>1, <1>2, <1>3, <1>4, <1>5, <1>6, SameProcess DEF C!Next, Consumer!Next

LEMMA SameDelivery == D!Next => Delivery!Next
BY DEF D!Next, Delivery!Next, D!Step, Delivery!Step,
       D!Enqueue, Delivery!Enqueue, D!AbsentRow, Delivery!AbsentRow, D!LateArrival,
       Delivery!LateArrival, D!RequeueDead, Delivery!RequeueDead, D!Deliver, Delivery!Deliver,
       D!Claim, Delivery!Claim, D!Counted, Delivery!Counted, D!Claimable, Delivery!Claimable,
       D!Active, Delivery!Active, D!FailBeforePost, Delivery!FailBeforePost, D!Conclude,
       Delivery!Conclude, D!Post, Delivery!Post, D!Answer, Delivery!Answer,
       D!ConclusionOfAnswer, Delivery!ConclusionOfAnswer, D!AnswerTerminal,
       Delivery!AnswerTerminal, D!Timeout, Delivery!Timeout, D!MarkDelivered,
       Delivery!MarkDelivered, D!Owns, Delivery!Owns, D!QueueWithout, Delivery!QueueWithout,
       D!Position, Delivery!Position, D!Leave, Delivery!Leave, D!IdleWorker,
       Delivery!IdleWorker, D!MarkDead, Delivery!MarkDead, D!Spent, Delivery!Spent,
       D!MarkRetry, Delivery!MarkRetry, D!Crash, Delivery!Crash, D!Disowned,
       Delivery!Disowned, D!StoreError, Delivery!StoreError, D!Tick, Delivery!Tick, D!Earlier,
       Delivery!Earlier

LEMMA SameInit == Init => Consumer!Init /\ Delivery!Init
BY DEF Init, C!Init, Consumer!Init, C!Keys, Consumer!Keys, C!AbsentRow, Consumer!AbsentRow,
       C!IdleWorker, Consumer!IdleWorker, C!WorkerAt, Consumer!WorkerAt,
       D!Init, Delivery!Init, D!AbsentRow, Delivery!AbsentRow, D!IdleWorker,
       Delivery!IdleWorker

-----------------------------------------------------------------------------
(* A step of the pipeline seen from each half.                                *)

\* Time, a late answer, a crash, a store error and a requeue keep every row.
LEMMA RetainedKept ==
  ASSUME Delivery!IInv,
         \/ D!Tick
         \/ \E e \in Events : D!LateArrival(e) \/ D!RequeueDead(e)
         \/ \E w \in Couriers : D!Crash(w) \/ D!StoreError(w)
  PROVE  Retained' = Retained
<1>1. rows \in [Events -> Delivery!Row]
  BY DEF Delivery!IInv, Delivery!RowTypes
<1>2. CASE UNCHANGED rows
  BY <1>2 DEF Retained
<1>3. ASSUME NEW row \in Delivery!Row, NEW at, NEW owner
      PROVE  /\ [row EXCEPT !.dueAt = at].state = row.state
             /\ [row EXCEPT !.owner = owner].state = row.state
  BY DEF Delivery!Row
<1>4. CASE D!Tick
  BY <1>1, <1>3, <1>4 DEF D!Tick, Retained
<1>5. ASSUME NEW w \in Couriers, D!Crash(w) PROVE Retained' = Retained
  BY <1>1, <1>3, <1>5 DEF D!Crash, D!Disowned, Retained
<1>6. ASSUME NEW e \in Events, D!RequeueDead(e) PROVE Retained' = Retained
  BY <1>1, <1>6 DEF D!RequeueDead, D!AbsentRow, Retained
<1> QED
  BY <1>2, <1>4, <1>5, <1>6 DEF D!LateArrival, D!StoreError

\* Only an event's own result is committed under its run id.
LEMMA CommitsAnEvent ==
  ASSUME Consumer!IInv, NEW c \in Consumers, consumer[c].pc = "commit"
  PROVE  C!KeyOf(c) \in Events
<1>1. /\ consumer[c].msg \in Messages /\ Body[consumer[c].msg].kind = "ready"
      /\ consumer[c].code = None
  BY DEF Consumer!IInv, Consumer!WorkersOK, Consumer!Equipped, Consumer!Handling, Consumer!Settling
<1>2. Body[consumer[c].msg].event \in Events /\ None \notin C!PoisonCodes
  BY <1>1, PipelineAssumption DEF C!ConstantsAssumption, C!ErrorCodes
<1> QED
  BY <1>1, <1>2 DEF C!KeyOf

LEMMA ConsumerStep == IInv /\ [Next]_vars => [C!Next]_(C!vars)
<1> SUFFICES ASSUME IInv, [Next]_vars PROVE C!Next \/ UNCHANGED C!vars
  OBVIOUS
<1>1. CASE UNCHANGED consumerVars /\ Retained' = Retained
  BY <1>1 DEF consumerVars, C!vars
<1>2. CASE \E c \in Consumers : CommitResult(c) \/ ProcessAlone(c)
  BY <1>2 DEF CommitResult, ProcessAlone, C!Next, C!Process
<1>3. CASE \E w \in Couriers : HandOver(w) \/ DeliverAlone(w)
  BY <1>1, <1>3 DEF HandOver, DeliverAlone, C!Next
<1>4. CASE UNCHANGED deliveryVars /\ (Redis \/ C!Tick
             \/ (\E c \in Consumers : C!Abandon(c)) \/ (\E k \in C!Keys : C!Prune(k)))
  BY <1>4 DEF Redis, C!Next
<1>5. CASE UNCHANGED consumerVars /\ (D!Tick
             \/ (\E e \in Events : D!LateArrival(e))
             \/ (\E w \in Couriers : D!Crash(w) \/ D!StoreError(w)))
  BY <1>1, <1>5, RetainedKept DEF IInv
<1>6. CASE Operator
  BY <1>1, <1>6, RetainedKept DEF Operator, IInv, C!Next
<1>7. CASE UNCHANGED vars
  BY <1>1, <1>7 DEF vars, consumerVars, deliveryVars, Retained
<1> QED
  BY <1>2, <1>3, <1>4, <1>5, <1>6, <1>7 DEF Next

LEMMA DeliveryStep == IInv /\ [Next]_vars => [D!Next]_(D!vars)
<1> SUFFICES ASSUME IInv, [Next]_vars PROVE D!Next \/ UNCHANGED D!vars
  OBVIOUS
<1>1. CASE UNCHANGED deliveryVars
  BY <1>1 DEF deliveryVars, D!vars
<1>2. CASE \E c \in Consumers : CommitResult(c)
  BY <1>2, CommitsAnEvent DEF IInv, CommitResult, D!Next, D!Step
<1>3. CASE \E w \in Couriers : HandOver(w) \/ DeliverAlone(w)
  BY <1>3 DEF HandOver, DeliverAlone, D!Next, D!Step, D!Deliver
<1>4. CASE UNCHANGED consumerVars /\ (D!Tick
             \/ (\E e \in Events : D!LateArrival(e))
             \/ (\E w \in Couriers : D!Crash(w) \/ D!StoreError(w)))
  BY <1>4 DEF D!Next, D!Step
<1>5. CASE Operator
  BY <1>1, <1>5 DEF Operator, D!Next, D!Step
<1> QED
  BY <1>1, <1>2, <1>3, <1>4, <1>5 DEF Next, ProcessAlone, vars, deliveryVars

-----------------------------------------------------------------------------
(* What the consumer commits, the delivery accepts in the same transaction.   *)

LEMMA AcceptedStays == IInv /\ [Next]_vars => accepted \subseteq accepted'
<1> SUFFICES ASSUME IInv, [Next]_vars PROVE accepted \subseteq accepted'
  OBVIOUS
<1>1. CASE UNCHANGED D!vars
  BY <1>1 DEF D!vars
<1>2. CASE D!Next
  BY <1>2 DEF D!Next, D!Step, D!Enqueue, D!LateArrival, D!RequeueDead, D!Deliver, D!Claim,
       D!FailBeforePost, D!Post, D!Answer, D!AnswerTerminal, D!Timeout, D!MarkDelivered,
       D!MarkDead, D!MarkRetry, D!Crash, D!StoreError, D!Tick
<1> QED
  BY <1>1, <1>2, DeliveryStep

LEMMA HandedStep == IInv /\ [Next]_vars => Handed'
<1> SUFFICES ASSUME IInv, [Next]_vars, NEW e \in committed' \ committed PROVE e \in accepted'
  BY AcceptedStays DEF IInv, Handed
<1>1. e \notin Retained /\ e \in Retained'
  <2>1. C!Next
    BY ConsumerStep DEF C!vars
  <2>2. PICK c \in Consumers : C!CommitOutboxed(c)
    BY <2>1 DEF C!Next, C!Produce, C!TrimSource, C!Take, C!TakeDeleted, C!TakeEmptied, C!Process,
         C!RecordPoison, C!BusyCheck, C!ClaimConflict, C!ClaimRefused, C!ClaimExhausted, C!Claim,
         C!FinishWork, C!LeaseLost, C!MarkFailure, C!MarkDead, C!Defer, C!PublishDeadLetter,
         C!MarkDlqPublished, C!Ack, C!Abandon, C!Rearm, C!DeliverResult, C!Prune, C!Tick, C!history
  <2> QED
    BY <2>2 DEF C!CommitOutboxed, C!OutboxAfterCommit
<1>2. rows' # rows /\ committed' # committed
  BY <1>1 DEF Retained
<1>3. PICK c \in Consumers : CommitResult(c)
  BY <1>2 DEF Next, vars, consumerVars, deliveryVars, ProcessAlone, HandOver, C!DeliverResult,
       DeliverAlone, Operator
<1>4. /\ rows' = [rows EXCEPT ![C!KeyOf(c)] = [D!AbsentRow EXCEPT !.state = "PENDING"]]
      /\ accepted' = accepted \cup {C!KeyOf(c)}
  BY <1>3 DEF CommitResult, D!Enqueue
<1>5. rows \in [Events -> Delivery!Row] /\ e \in Events
  BY <1>1 DEF IInv, Delivery!IInv, Delivery!RowTypes, Retained
<1>6. e = C!KeyOf(c)
  BY <1>1, <1>4, <1>5 DEF Retained
<1> QED
  BY <1>4, <1>6

-----------------------------------------------------------------------------
LEMMA InitIInv == Init => IInv
<1> SUFFICES ASSUME Init PROVE IInv
  OBVIOUS
<1>1. Consumer!Init /\ Delivery!Init
  BY SameInit
<1>2. Consumer!IInv /\ Delivery!IInv
  BY <1>1, Assumed, Consumer!InitIInv, Delivery!InitSound
<1>3. Consumer!CommittedIsClosed
  BY <1>1 DEF Consumer!Init, Consumer!CommittedIsClosed
<1>4. Handed
  BY <1>1 DEF Consumer!Init, Handed
<1> QED
  BY <1>2, <1>3, <1>4 DEF IInv

\* Each half keeps its own invariant by the proof about it alone.
LEMMA NextIInv == IInv /\ [Next]_vars => IInv'
<1> SUFFICES ASSUME IInv, [Next]_vars PROVE IInv'
  OBVIOUS
<1>1. [Consumer!Next]_(Consumer!vars)
  BY ConsumerStep, SameConsumer DEF C!vars, Consumer!vars
<1>2. [Delivery!Next]_(Delivery!vars)
  BY DeliveryStep, SameDelivery DEF D!vars, Delivery!vars
<1>3. Consumer!IInv' /\ Consumer!CommittedIsClosed'
  BY <1>1, Assumed, Consumer!NextIInv, Consumer!CommittedIsClosedStep DEF IInv
<1>4. Delivery!IInv'
  BY <1>2, Assumed, Delivery!StepSound DEF IInv
<1> QED
  BY <1>3, <1>4, HandedStep DEF IInv

LEMMA AlwaysIInv == Spec => []IInv
BY InitIInv, NextIInv, PTL DEF Spec

\* Sharing one file, the consumer and the delivery each behave as they do alone: whatever is
\* proved of ReadyEventConsumer or of AnalysisDelivery holds in the pipeline.
THEOREM HalvesBehave == Spec => C!Spec /\ D!Spec
<1>1. Init => C!Init /\ D!Init
  BY DEF Init
<1> QED
  BY <1>1, AlwaysIInv, ConsumerStep, DeliveryStep, PTL DEF Spec, C!Spec, D!Spec

\* A committed result is never lost between analysis and meeting-service: until it is stored
\* there its row is in the outbox, whatever crashes, is replayed, rearmed or pruned.
THEOREM CommittedIsNotLost == Spec => []CommittedIsKept
<1>1. IInv => CommittedIsKept
  <2> SUFFICES ASSUME IInv, NEW e \in committed PROVE e \in Retained \cup stored
    BY DEF CommittedIsKept
  <2>1. e \in accepted /\ e \in Events
    BY DEF IInv, Handed, Delivery!IInv, Delivery!SetTypes
  <2> QED
    BY <2>1 DEF IInv, Delivery!IInv, Delivery!NoResultLost, Retained
<1> QED
  BY <1>1, AlwaysIInv, PTL

\* No event can be analysed again while a courier delivers its result, so two payloads of one
\* run never race.
THEOREM NoRivals == Spec => []NoRivalDelivery
<1>1. IInv => NoRivalDelivery
  <2> SUFFICES ASSUME IInv, NEW w \in Couriers, courier[w].pc \in {"claimed", "posted", "settle"},
                      D!Owns(w)
               PROVE  inbox[courier[w].run].state \in {"OUTBOXED", "DEAD"}
    BY DEF NoRivalDelivery
  <2>1. courier[w].run \in Retained
    BY DEF IInv, Delivery!IInv, Delivery!WorkerTypes, D!Owns, Retained
  <2> QED
    BY <2>1 DEF IInv, Consumer!CommittedIsClosed, Consumer!Closed, Retained
<1> QED
  BY <1>1, AlwaysIInv, PTL

=============================================================================
