-------------------------- MODULE MCReadyPipeline --------------------------
(* Bounded instances of ReadyPipeline. *)
EXTENDS ReadyPipeline, TLC

CONSTANTS m1, m2, m3, e1, e2, h1, c1, c2, t1, t2, t3, w1, w2

Ready(e) == [kind |-> "ready", event |-> e, hash |-> h1]

\* An event, its exact replay, and another event, which shares with the first
\* the one place of the outbox.
Sent == m1 :> Ready(e1) @@ m2 :> Ready(e1) @@ m3 :> Ready(e2)

\* What goes wrong: a process of either side stops, or an entry is trimmed, once.
\* Two events are sent together only where nothing does.  The first to be sent is
\* m1, for events are interchangeable; the replay comes after a result (earlier
\* ones are in the runs of the consumer).
Affordable ==
  LET sent == {m \in Messages : msgs'[m] # "unsent"}
  IN  \/ sent \subseteq {m1} /\ faults' + crashes' <= 1
      \/ sent = {m1, m2} /\ faults' + crashes' <= 1 /\ committed' # {}
      \/ sent = {m1, m3} /\ faults' + crashes' = 0

\* Tokens are interchangeable: of the free ones, always the same is drawn.
DrawnToken ==
  \A c \in Consumers :
    consumer'[c].token \in {None, consumer[c].token, CHOOSE t \in Tokens : t \notin C!LiveTokens}

BoundedNext == Next /\ Affordable /\ DrawnToken

BoundedSpec == Init /\ [][BoundedNext]_vars /\ Fairness

=============================================================================
