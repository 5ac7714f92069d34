-------------------------- MODULE AnalysisApplication --------------------------
(***************************************************************************)
(* How meeting-ai runs an analysis: the endpoints /analyze and              *)
(* /analyze/live and the ready-event worker share AnalysisApplicationService,*)
(* which admits a few analyses at a time, runs each in a thread that nobody *)
(* can stop, and gives up on it at a deadline.  A live result goes to the   *)
(* hub, from whose bounded queues the SSE streams of the meeting read.      *)
(*                                                                          *)
(* Coroutines share one event loop: a step is what one does between two     *)
(* awaits that may suspend.  The hub's lock is never held across one, so    *)
(* subscribe, unsubscribe and publish are single steps.                     *)
(***************************************************************************)
EXTENDS Integers, SequencesExt

CONSTANTS
  Requests, Live,  \* calls of execute; those that come from /analyze/live
  Subscribers,     \* SSE connections of the meeting
  Slots,           \* analysis_max_concurrency
  QueueSize,       \* live_stream_queue_size
  None

VARIABLES
  durable,         \* AnalysisDeliveryRuntime.enabled
  slots,           \* _analysis_slots
  pc,              \* where a request is
  running,         \* the requests whose analysis runs in a thread
  future,          \* what the thread came back with
  released,        \* the requests whose done callback has run
  connected, queue, \* a subscriber: it is in the hub; its queue
  received,        \* the last result its client was sent
  latest           \* the last result published since it subscribed

calls == <<durable, slots, pc, running, future, released>>
streams == <<connected, queue, received, latest>>
vars == <<calls, streams>>

-----------------------------------------------------------------------------
\* What is taken for granted of the constants, by the runs and by the proofs.
AnalysisAssumption == Slots \in Nat /\ QueueSize \in Nat \ {0} /\ None \notin {"ok", "error"}

GoTo(r, where) == pc' = [pc EXCEPT ![r] = where]

Active(r) == pc[r] \in {"queue", "wait", "persist"}

\* A transcript may be too large; and with durable delivery a final analysis is
\* refused unless the worker asks for it.
Arrive(r) ==
  /\ pc[r] = "new"
  /\ pc' \in {[pc EXCEPT ![r] = next] : next \in {"queue", "answered"}}
  /\ UNCHANGED <<durable, slots, running, future, released, streams>>

\* The slot was free too late, or the thread is started; its result may come too late.
Acquire(r) ==
  /\ pc[r] = "queue" /\ slots > 0
  /\ \/ GoTo(r, "answered") /\ UNCHANGED <<slots, running>>
     \/ /\ slots' = slots - 1 /\ running' = running \cup {r}
        /\ GoTo(r, "wait")
  /\ UNCHANGED <<durable, future, released, streams>>

\* _run_analyzer returns or raises: the thread is free ...
Finish(r) ==
  /\ r \in running
  /\ running' = running \ {r}
  /\ \E outcome \in {"ok", "error"} : future' = [future EXCEPT ![r] = outcome]
  /\ UNCHANGED <<durable, slots, pc, released, streams>>

\* ... and the event loop hears of it: future.add_done_callback.
Release(r) ==
  /\ future[r] # None /\ r \notin released
  /\ released' = released \cup {r} /\ slots' = slots + 1
  /\ UNCHANGED <<durable, pc, running, future, streams>>

\* Mutant: without asyncio.shield the deadline cancels the future, whose
\* callback gives the slot back under the running thread.
Cancelled(r) == future' = [future EXCEPT ![r] = IF r \in running THEN "error" ELSE @]

Shielded(r) == UNCHANGED future

\* The deadline while the request waits for a slot, or for its thread.
MissDeadline(r) ==
  /\ pc[r] \in {"queue", "wait"}
  /\ GoTo(r, "answered")
  /\ Shielded(r)
  /\ UNCHANGED <<durable, slots, running, released, streams>>

\* The worker is stopped, or a client goes.
Cancel(r) ==
  /\ Active(r) /\ GoTo(r, "answered")
  /\ UNCHANGED <<durable, slots, running, future, released, streams>>

-----------------------------------------------------------------------------
\* Mutant: a full queue refuses the new result.
DropNewest(s, r) == IF Len(queue[s]) < QueueSize THEN Append(queue[s], r) ELSE queue[s]

\* put_nowait, after the oldest is dropped if there is no place.
DropOldest(s, r) ==
  Append(IF Len(queue[s]) < QueueSize THEN queue[s] ELSE Tail(queue[s]), r)

Queued(s, r) == DropOldest(s, r)

\* LiveStreamHub.publish
Publish(r) ==
  /\ queue' = [s \in Subscribers |-> IF s \in connected THEN Queued(s, r) ELSE queue[s]]
  /\ latest' = [s \in Subscribers |-> IF s \in connected THEN r ELSE latest[s]]
  /\ UNCHANGED <<connected, received>>

\* The result is in time: what is live is published, what is durable enqueued.
Take(r) ==
  /\ pc[r] = "wait" /\ future[r] # None
  /\ \/ /\ future[r] # "ok" /\ GoTo(r, "answered") /\ UNCHANGED streams
     \/ /\ future[r] = "ok" /\ r \in Live /\ GoTo(r, "answered") /\ Publish(r)
     \/ /\ future[r] = "ok" /\ r \notin Live /\ durable /\ GoTo(r, "persist") /\ UNCHANGED streams
     \/ /\ future[r] = "ok" /\ r \notin Live /\ ~durable /\ GoTo(r, "answered") /\ UNCHANGED streams
  /\ UNCHANGED <<durable, slots, running, future, released>>

\* AnalysisDeliveryRuntime.enqueue_analysis
Persist(r) ==
  /\ pc[r] = "persist"
  /\ GoTo(r, "answered")
  /\ UNCHANGED <<durable, slots, running, future, released, streams>>

-----------------------------------------------------------------------------
Subscribe(s) ==
  /\ s \notin connected
  /\ connected' = connected \cup {s}
  /\ queue' = [queue EXCEPT ![s] = <<>>]
  /\ received' = [received EXCEPT ![s] = None] /\ latest' = [latest EXCEPT ![s] = None]
  /\ UNCHANGED calls

\* event_stream; a heartbeat changes nothing.
Read(s) ==
  /\ s \in connected /\ queue[s] # <<>>
  /\ received' = [received EXCEPT ![s] = Head(queue[s])]
  /\ queue' = [queue EXCEPT ![s] = Tail(@)]
  /\ UNCHANGED <<calls, connected, latest>>

Unsubscribe(s) ==
  /\ s \in connected /\ connected' = connected \ {s}
  /\ UNCHANGED <<calls, queue, received, latest>>

Init ==
  /\ durable \in BOOLEAN
  /\ slots = Slots /\ running = {} /\ released = {}
  /\ pc = [r \in Requests |-> "new"] /\ future = [r \in Requests |-> None]
  /\ connected = {} /\ queue = [s \in Subscribers |-> <<>>]
  /\ received = [s \in Subscribers |-> None] /\ latest = [s \in Subscribers |-> None]

Proceed(r) == Acquire(r) \/ MissDeadline(r) \/ Take(r) \/ Persist(r)

Next ==
  \/ \E r \in Requests : Arrive(r) \/ Proceed(r) \/ Finish(r) \/ Release(r) \/ Cancel(r)
  \/ \E s \in Subscribers : Subscribe(s) \/ Read(s) \/ Unsubscribe(s)

Spec == Init /\ [][Next]_vars

-----------------------------------------------------------------------------
TypeOK ==
  /\ slots \in 0..Slots /\ running \subseteq Requests /\ released \subseteq Requests
  /\ connected \subseteq Subscribers /\ \A s \in Subscribers : Len(queue[s]) <= QueueSize

\* No more analyses run than there are slots, however many requests gave up on
\* theirs; and no slot is lost (execute).
SlotsSound ==
  /\ Cardinality(running) <= Slots
  /\ slots + Cardinality(running) + Cardinality({r \in Requests : future[r] # None} \ released) = Slots

\* A client that reads slowly misses old results, never the last one published
\* (live_stream_hub.py, "Backpressure").
LatestIsKept ==
  \A s \in connected :
    \/ latest[s] \in {None, received[s]}
    \/ queue[s] # <<>> /\ Last(queue[s]) = latest[s]

\* Slots and queues are what execute and the hub promise.
AnalysisSound == TypeOK /\ SlotsSound /\ LatestIsKept

=============================================================================
