-------------------------- MODULE MCSupervisedModel --------------------------
(* A bounded instance of SupervisedModel. *)
EXTENDS SupervisedModel

CONSTANTS s1, s2

\* Two streams at once, or two faults and one stream: both together are too much.
BoundedNext ==
  /\ Next
  /\ faults' > 1 => pinned'[s2] = None /\ caller'[s2].pc = "idle"

BoundedSpec == Init /\ [][BoundedNext]_vars /\ Fairness

=============================================================================
