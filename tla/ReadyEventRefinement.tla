------------------------ MODULE ReadyEventRefinement ------------------------
(* The detailed consumer implements ReadyEventEffect. *)
EXTENDS ReadyEventConsumer

ReadyMessages == {m \in Messages : Body[m].kind = "ready"}
BodyEvent(m) == Body[m].event

\* What the row of an event means to the abstract specification.
EffectOf(e) ==
  CASE inbox[e].state = "OUTBOXED" -> "analysed"
    [] inbox[e].state = "DEAD" /\ inbox[e].reason = "RETRY_EXHAUSTED" -> "exhausted"
    [] inbox[e].state = "DEAD" /\ inbox[e].reason # "RETRY_EXHAUSTED" -> "refused"
    [] OTHER -> "undecided"

Effect == INSTANCE ReadyEventEffect WITH
  Messages <- ReadyMessages,
  EventOf <- BodyEvent,
  effect <- [e \in Events |-> EffectOf(e)],
  held <- outbox,
  given <- delivered,
  acked <- {m \in ReadyMessages : msgs[m] = "acked"},
  unread <- {m \in ReadyMessages : RecordedPoison(m)},
  reopened <- released \cap Events

\* Every step of the consumer is a step of the abstract specification or
\* leaves it unchanged: leases, retries, crashes and late processes never show.
ImplementsEffect == Effect!Spec

=============================================================================
