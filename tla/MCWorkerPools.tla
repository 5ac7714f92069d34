---------------------------- MODULE MCWorkerPools ----------------------------
(* Bounded instances of WorkerPools. *)
EXTENDS WorkerPools, TLC

CONSTANTS r1, r2, r3, w1, w2

\* transcribe_endpoint gives the process pool a deadline and the shared pool
\* none; the shared pool is meant to be called with one, too.
Callers == [process |-> {TRUE}, shared |-> BOOLEAN]

=============================================================================
