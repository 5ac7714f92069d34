------------------------------- MODULE JobPool -------------------------------
(***************************************************************************)
(* What a pool of transcription workers promises its callers: a bounded    *)
(* number of jobs is in it at a time, and a job is answered with what was  *)
(* decoded from its own audio, or fails.  There are no processes, queues,  *)
(* timeouts or restarts.                                                   *)
(***************************************************************************)
EXTENDS Naturals, FiniteSets

CONSTANTS
  Jobs,
  Width         \* how many jobs the pool takes at once

VARIABLES
  state,        \* where each job is
  decoded       \* the jobs whose audio has been decoded

jobVars == <<state, decoded>>

JobStates == {"new", "active", "answered", "failed"}

ActiveJobs == {j \in Jobs : state[j] = "active"}

JobInit == state = [j \in Jobs |-> "new"] /\ decoded = {}

Enter(j) ==
  /\ state[j] = "new" /\ Cardinality(ActiveJobs) < Width
  /\ state' = [state EXCEPT ![j] = "active"]
  /\ UNCHANGED decoded

Decode(j) ==
  /\ state[j] # "new"
  /\ decoded' = decoded \cup {j}
  /\ UNCHANGED state

Answer(j) ==
  /\ state[j] = "active" /\ j \in decoded
  /\ state' = [state EXCEPT ![j] = "answered"]
  /\ UNCHANGED decoded

\* A job may also be refused before it is in.
Fail(j) ==
  /\ state[j] \in {"new", "active"}
  /\ state' = [state EXCEPT ![j] = "failed"]
  /\ UNCHANGED decoded

JobNext == \E j \in Jobs : Enter(j) \/ Decode(j) \/ Answer(j) \/ Fail(j)

JobSpec == JobInit /\ [][JobNext]_jobVars

=============================================================================
