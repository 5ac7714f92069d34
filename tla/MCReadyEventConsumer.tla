------------------------ MODULE MCReadyEventConsumer ------------------------
(* Bounded instances of ReadyEventConsumer. *)
EXTENDS ReadyEventRefinement, TLC

CONSTANTS m1, m2, m3, m4, m5, e1, e2, h1, h2, c1, c2, t1, t2, t3

ASSUME ConsumerAssumption == ConstantsAssumption /\ TokensAssumption

Ready(e, h) == [kind |-> "ready", event |-> e, hash |-> h]
Other(kind) == [kind |-> kind, event |-> e1, hash |-> h1]

\* An event and its exact replay.
Replay == m1 :> Ready(e1, h1) @@ m2 :> Ready(e1, h1)

\* An event, a replay with another payload, another event, a record of another type and a
\* malformed record.
Mixed ==
  m1 :> Ready(e1, h1) @@ m2 :> Ready(e1, h2) @@ m3 :> Ready(e2, h1) @@ m4 :> Other("foreign") @@ m5 :> Other("malformed")

\* What is sent: an event and the conflicting replay, with faults; or, without,
\* the three with keys of their own, one more than the inbox has rows; or the
\* record of another type.
Affordable ==
  LET sent == {m \in Messages : msgs'[m] # "unsent"}
  IN  sent \subseteq {m1, m2} \/ (faults' = 0 /\ (sent \subseteq {m1, m3, m5} \/ sent = {m4}))

\* Tokens are interchangeable: of the free ones, Claim always draws the same.
DrawnToken(c) ==
  worker'[c].token \in {None, worker[c].token, CHOOSE t \in Tokens : t \notin LiveTokens}

BoundedNext ==
  \/ \E m \in Messages : (Produce(m) \/ TrimSource(m)) /\ Affordable
  \/ \E c \in Consumers : Abandon(c) /\ Affordable
  \/ \E c \in Consumers, m \in Messages : Take(c, m) \/ TakeDeleted(c, m) \/ TakeEmptied(c, m)
  \/ \E c \in Consumers :
       \/ Claim(c) /\ DrawnToken(c)
       \/ RecordPoison(c) \/ BusyCheck(c) \/ ClaimConflict(c) \/ ClaimRefused(c) \/ ClaimExhausted(c)
       \/ FinishWork(c) \/ LeaseLost(c) \/ CommitOutboxed(c) \/ MarkFailure(c) \/ MarkDead(c)
       \/ Defer(c) \/ PublishDeadLetter(c) \/ MarkDlqPublished(c) \/ Ack(c)
  \/ \E e \in Events : Rearm(e) \/ DeliverResult(e)
  \/ \E k \in Keys : Prune(k)
  \/ Tick

BoundedSpec == Init /\ [][BoundedNext]_vars /\ Fairness

\* Processes, tokens and the two entries of a replay are interchangeable.
SymReplay == Permutations(Tokens) \cup Permutations(Consumers) \cup Permutations(Messages)

=============================================================================
