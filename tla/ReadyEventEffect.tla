-------------------------- MODULE ReadyEventEffect --------------------------
(***************************************************************************)
(* What the transcript-ready consumer promises about one event, with no    *)
(* leases, no retries, no processes and no dead-letter stream: an event is *)
(* decided by one step, its result appears in that very step, a stream     *)
(* entry is acknowledged only when its event is decided or the entry is on *)
(* record as unreadable, and a decision is undone only by an operator or by*)
(* the end of its retention, never while the result is held.               *)
(***************************************************************************)
CONSTANTS Events, Messages,
          EventOf(_)   \* the event a ready entry carries

VARIABLES
  effect,    \* what was decided about each event
  held,      \* events whose result waits to be handed over
  given,     \* events whose result was handed over
  acked,     \* acknowledged ready entries
  unread,    \* entries recorded as unreadable
  reopened   \* events an operator rearmed or the retention forgot

vars == <<effect, held, given, acked, unread, reopened>>

Init ==
  /\ effect = [e \in Events |-> "undecided"]
  /\ held = {} /\ given = {} /\ acked = {} /\ unread = {} /\ reopened = {}

\* The analysis succeeds: decided and held in one step.
Analyse(e) ==
  /\ effect[e] = "undecided" /\ e \notin held
  /\ effect' = [effect EXCEPT ![e] = "analysed"]
  /\ held' = held \cup {e}
  /\ UNCHANGED <<given, acked, unread, reopened>>

\* The attempts run out, the contract refuses the event, or a second payload
\* contradicts the first, even after the event was decided.
GiveUp(e) ==
  /\ \/ effect[e] = "undecided" /\ effect' = [effect EXCEPT ![e] = "exhausted"]
     \/ effect[e] # "refused" /\ effect' = [effect EXCEPT ![e] = "refused"]
  /\ UNCHANGED <<held, given, acked, unread, reopened>>

\* An operator rearms an exhausted event, or a decided one is forgotten; never
\* while its result is held.
Reopen(e) ==
  /\ effect[e] # "undecided" /\ e \notin held
  /\ effect' = [effect EXCEPT ![e] = "undecided"]
  /\ reopened' = reopened \cup {e}
  /\ UNCHANGED <<held, given, acked, unread>>

HandOver(e) ==
  /\ e \in held
  /\ held' = held \ {e}
  /\ given' = given \cup {e}
  /\ UNCHANGED <<effect, acked, unread, reopened>>

\* The source of an entry is gone before its event was decided.
LoseSource(m) ==
  /\ m \notin unread
  /\ unread' = unread \cup {m}
  /\ UNCHANGED <<effect, held, given, acked, reopened>>

Acknowledge(m) ==
  /\ m \notin acked
  /\ effect[EventOf(m)] # "undecided" \/ EventOf(m) \in reopened \/ m \in unread
  /\ acked' = acked \cup {m}
  /\ UNCHANGED <<effect, held, given, unread, reopened>>

Next ==
  \/ \E e \in Events : Analyse(e) \/ GiveUp(e) \/ Reopen(e) \/ HandOver(e)
  \/ \E m \in Messages : Acknowledge(m) \/ LoseSource(m)

Spec == Init /\ [][Next]_vars

=============================================================================
