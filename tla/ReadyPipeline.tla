---------------------------- MODULE ReadyPipeline ----------------------------
(***************************************************************************)
(* The way of an event through meeting-ai-service: the ready consumer and  *)
(* the delivery runtime share one SQLite file.  commit_outboxed inserts the*)
(* result row in the transaction that closes the inbox row, and the row    *)
(* mark_delivered deletes is the one rearming and pruning look for.  The   *)
(* `outbox' of the consumer is the set of runs the delivery retains.       *)
(* The deadlines of the two sides are never compared with each other, so   *)
(* each side has its own Tick.                                             *)
(***************************************************************************)
EXTENDS Integers, Sequences, FiniteSets

CONSTANTS
  Messages, Events, Hashes, Body, Consumers, Tokens, None,
  MaxFailures, InboxMaxRows, OutboxMaxRows, LeaseTicks, BackoffTicks,
  MaxStampAge, MaxFaults,
  Couriers,                 \* delivery workers
  MaxAttempts, DeliveryLeaseTicks, DeliveryBackoffTicks, MaxCrashes, MaxStoreErrors

VARIABLES
  inbox, msgs, dlq, consumer, faults, committed, delivered, released,
  rows, queue, courier, late, stored, accepted, refused, crashes, errors

consumerVars == <<inbox, msgs, dlq, consumer, faults, committed, delivered, released>>
deliveryVars == <<rows, queue, courier, late, stored, accepted, refused, crashes, errors>>
vars == <<consumerVars, deliveryVars>>

\* The events with a row in analysis_delivery_outbox.
Retained == {e \in Events : rows[e].state # "ABSENT"}

C == INSTANCE ReadyEventConsumer WITH outbox <- Retained, worker <- consumer

D == INSTANCE AnalysisDelivery WITH
       Runs <- Events, Workers <- Couriers, worker <- courier, MaxRows <- OutboxMaxRows,
       LeaseTicks <- DeliveryLeaseTicks, BackoffTicks <- DeliveryBackoffTicks

ASSUME PipelineAssumption ==
  C!ConstantsAssumption /\ C!TokensAssumption /\ D!DeliveryAssumption

\* One transaction: the result row appears and the inbox row is closed.
CommitResult(c) ==
  /\ consumer[c].pc = "commit"
  /\ D!Enqueue(C!KeyOf(c))
  /\ C!CommitOutboxed(c)

\* A step of a consumer process that leaves the outbox alone.
ProcessAlone(c) ==
  /\ UNCHANGED deliveryVars
  /\ C!Process(c)

\* The row of a stored result is deleted.
HandOver(w) ==
  /\ D!MarkDelivered(w)
  /\ \E e \in Events : C!DeliverResult(e)

\* A step of a delivery worker that keeps every row.
DeliverAlone(w) ==
  /\ D!Deliver(w)
  /\ Retained' = Retained
  /\ UNCHANGED consumerVars

Redis ==
  \/ \E m \in Messages : C!Produce(m) \/ C!TrimSource(m)
  \/ \E c \in Consumers, m \in Messages : 
       C!Take(c, m) \/ C!TakeDeleted(c, m) \/ C!TakeEmptied(c, m)

Operator ==
  \/ UNCHANGED deliveryVars /\ \E e \in Events : C!Rearm(e)
  \/ UNCHANGED consumerVars /\ \E e \in Events : D!RequeueDead(e)

Init == D!Init /\ C!Init

Next ==
  \/ \E c \in Consumers : CommitResult(c) \/ ProcessAlone(c)
  \/ \E w \in Couriers : HandOver(w) \/ DeliverAlone(w)
  \/ UNCHANGED deliveryVars /\ (Redis \/ C!Tick
       \/ (\E c \in Consumers : C!Abandon(c)) \/ (\E k \in C!Keys : C!Prune(k)))
  \/ UNCHANGED consumerVars /\ (D!Tick
       \/ (\E e \in Events : D!LateArrival(e))
       \/ (\E w \in Couriers : D!Crash(w) \/ D!StoreError(w)))
  \/ Operator

Spec == Init /\ [][Next]_vars

-----------------------------------------------------------------------------
(* Safety. *)

\* Across both halves: a result committed for an event is retained in the
\* outbox or stored by meeting-service, whatever crashes, is replayed, rearmed
\* or pruned on either side.
CommittedIsKept == committed \subseteq Retained \cup stored

\* No payload of an event that can still be analysed is in delivery: a second,
\* different payload never meets the first one under the same run id.
NoRivalDelivery ==
  \A w \in Couriers :
    courier[w].pc \in {"claimed", "posted", "settle"} /\ D!Owns(w) =>
      inbox[courier[w].run].state \in {"OUTBOXED", "DEAD"}

(* Liveness. *)

\* The fairness of the two parts: loops run on, every scan reaches every pending
\* entry, maintenance goes on pruning, time is not held up.
Fairness ==
  /\ \A c \in Consumers : WF_vars(CommitResult(c) \/ ProcessAlone(c))
  /\ \A m \in Messages :
       SF_vars(UNCHANGED deliveryVars /\ \E c \in Consumers : C!Take(c, m) \/ C!TakeDeleted(c, m))
  /\ WF_vars(UNCHANGED deliveryVars /\ \E k \in C!Keys : C!Prune(k))
  /\ \A w \in Couriers : WF_vars(HandOver(w) \/ DeliverAlone(w))
  /\ SF_vars(UNCHANGED deliveryVars /\ C!Tick)
  /\ SF_vars(UNCHANGED consumerVars /\ D!Tick)

FairSpec == Spec /\ Fairness

\* An outbox full of dead results.  They keep their places until an operator
\* requeues them, and no other result can be committed.
OutboxBlocked ==
  Cardinality(Retained) >= OutboxMaxRows /\ \A e \in Retained : rows[e].state = "DEAD"

\* No row for an entry in an inbox full of rows that cannot be pruned: rows no
\* entry is left for, and rows of dead results.
InboxBlocked(m) ==
  /\ ~C!InboxHasRoom /\ inbox[C!OwnKey(m)].state = "ABSENT"
  /\ \A k \in C!Keys :
       inbox[k].state # "ABSENT" =>
         C!Forsaken(k) \/ (k \in Retained /\ rows[k].state = "DEAD")

\* Every ready event the group has read ends as a result stored by
\* meeting-service or as a dead letter of one of the two stages, unless its
\* source was trimmed, or one of the two tables stays full of rows that only an
\* operator can move: dead results count toward the limit of the outbox, and
\* what finds it full is deferred again and again at no cost to its budget.
EventReachesMeeting ==
  \A m \in Messages :
    LET e == Body[m].event
    IN  Body[m].kind = "ready" /\ msgs[m] = "pending" ~>
          \/ e \in stored \/ rows[e].state = "DEAD"
          \/ \E d \in dlq : d.key = e \/ d.msg = m
          \/ msgs[m] = "purged"
          \/ []OutboxBlocked
          \/ []InboxBlocked(m)

=============================================================================
