----------------------------- MODULE WorkerPools -----------------------------
(***************************************************************************)
(* The transcription workers of live-stt-service behind POST /transcribe.  *)
(* The settings choose one of two pools.  The process pool has one child   *)
(* per slot, which does one job at a time and is killed when a job is      *)
(* late.  The shared pool has a single supervisor process that decodes for *)
(* all; a thread hands its results to the callers by job id, and a late    *)
(* job has the whole supervisor killed, its other jobs failing with it.    *)
(*                                                                         *)
(* The children, the callers and the restart are interleaved step by step; *)
(* a new supervisor is installed without the lock under which callers      *)
(* register.                                                               *)
(***************************************************************************)
EXTENDS Naturals, FiniteSets, Functions

CONSTANTS
  Requests,      \* requests, each with the job id it is given
  Slots,         \* worker slots, as many as the shared pool has streams
  None,          \* Python None
  Backends,      \* the values of worker_backend considered
  Deadlines,     \* whether callers may set a deadline (TRUE) or not, by backend
  MaxFaults      \* bound: crashes, errors, missed deadlines, failed spawns

ASSUME PoolAssumption ==
  /\ Backends \subseteq {"process", "shared"} /\ Deadlines \in [Backends -> SUBSET BOOLEAN]
  /\ IsFiniteSet(Slots) /\ Slots # {} /\ None \notin Requests \cup Slots
  /\ MaxFaults \in Nat

VARIABLES
  backend,       \* which pool was built
  timed,         \* whether its callers set a deadline
  pc,            \* where each request is
  outcome,       \* how it ended
  decoded,       \* history: the jobs whose audio was decoded
  faults

\* The process pool.
VARIABLES
  busy,          \* _busy: the slots handed out
  slot,          \* the slot a request holds
  child          \* the child of each slot and what is in its two queues

\* The shared pool.
VARIABLES
  generation,    \* _generation, which also names the current pair of queues
  alive,         \* the supervisor of this generation lives
  pending,       \* _pending: the registered jobs
  mail,          \* the job's own queue: None or an answer
  queue,         \* the task queue (by generation) a request has read
  seen,          \* the generation it has read
  tasks,         \* jobs in the supervisor or its task queue, by generation
  results,       \* answers in the current result queue
  restarter      \* who holds _restart_lock

processVars == <<busy, slot, child>>
sharedVars == <<generation, alive, pending, mail, queue, seen, tasks, results, restarter>>
poolVars == <<backend, timed>>

vars == <<poolVars, pc, outcome, decoded, faults, processVars, sharedVars>>

-----------------------------------------------------------------------------
Answers == [job : Requests, kind : {"ok", "error", "recycled"}]

\* A child: "dead", or how far its task is.
Child == [stage : {"dead", "idle", "busy", "answered"}, job : Requests \cup {None}, ok : BOOLEAN]

NewChild == [stage |-> "idle", job |-> None, ok |-> FALSE]

DeadChild == [NewChild EXCEPT !.stage = "dead"]

\* The classes transcribe_endpoint tells apart, by HTTP status.
Outcomes == {"ok", "error", "crashed", "timeout", "unspawned", "rejected"}

Fault == faults < MaxFaults /\ faults' = faults + 1

NoFault == UNCHANGED faults

GoTo(r, next) == pc' = [pc EXCEPT ![r] = next]

End(r, how) ==
  /\ pc' = [pc EXCEPT ![r] = "done"]
  /\ outcome' = [outcome EXCEPT ![r] = how]

\* The requests that hold a permit of the semaphore.
Holding == {r \in Requests : pc[r] \notin {"new", "queue", "done"}}

-----------------------------------------------------------------------------
(* The process pool. *)

FreeSlots == Slots \ busy

\* _acquire_slot: a dead child is replaced on the way.
AcquireSlot(r) ==
  /\ backend = "process" /\ pc[r] = "queue"
  /\ \E s \in FreeSlots :
       /\ busy' = busy \cup {s}
       /\ IF child[s].stage # "dead"
          THEN slot' = [slot EXCEPT ![r] = s] /\ GoTo(r, "put") /\ NoFault
               /\ UNCHANGED <<outcome, child>>
          ELSE \/ /\ slot' = [slot EXCEPT ![r] = s] /\ GoTo(r, "put") /\ NoFault
                  /\ child' = [child EXCEPT ![s] = NewChild]
                  /\ UNCHANGED outcome
               \/ \* The spawn raises before the caller's try: nobody returns the slot.
                  /\ Fault /\ End(r, "unspawned")
                  /\ UNCHANGED <<slot, child>>
  /\ UNCHANGED <<poolVars, decoded, sharedVars>>

\* Mutant: the slot stays marked as handed out.
KeptBusy(r) == busy

Released(r) == busy \ {slot[r]}

\* The `finally' of transcribe.
ReleaseSlot(r, how) ==
  /\ busy' = Released(r)
  /\ slot' = [slot EXCEPT ![r] = None]
  /\ End(r, how)

PutTask(r) ==
  /\ backend = "process" /\ pc[r] = "put"
  /\ child' = IF child[slot[r]].stage = "dead" THEN child
              ELSE [child EXCEPT ![slot[r]] = [stage |-> "busy", job |-> r, ok |-> FALSE]]
  /\ GoTo(r, "wait")
  /\ UNCHANGED <<poolVars, outcome, decoded, faults, busy, slot, sharedVars>>

\* _worker_main: the child decodes, or answers with the class of its error.
ChildWorks(s) ==
  /\ child[s].stage = "busy"
  /\ \/ /\ child' = [child EXCEPT ![s].stage = "answered", ![s].ok = TRUE]
        /\ decoded' = decoded \cup {child[s].job} /\ NoFault
     \/ /\ child' = [child EXCEPT ![s].stage = "answered"]
        /\ Fault /\ UNCHANGED decoded
  /\ UNCHANGED <<poolVars, pc, outcome, busy, slot, sharedVars>>

ChildCrashes(s) ==
  /\ backend = "process" /\ child[s].stage # "dead"
  /\ Fault
  /\ child' = [child EXCEPT ![s] = DeadChild]
  /\ UNCHANGED <<poolVars, pc, outcome, decoded, busy, slot, sharedVars>>

\* The answer in the queue is of this job.
TakeAnswer(r) ==
  LET mine == child[slot[r]]
  IN  /\ backend = "process" /\ pc[r] = "wait" /\ mine.stage = "answered" /\ mine.job = r
      /\ child' = [child EXCEPT ![slot[r]] = NewChild]
      /\ ReleaseSlot(r, IF mine.ok THEN "ok" ELSE "error")
      /\ UNCHANGED <<poolVars, decoded, faults, sharedVars>>

\* A dead child is replaced and its job fails, whatever is in the queues; the
\* replacement may fail to start, which the next caller finds.
SeeCrash(r) ==
  /\ backend = "process" /\ pc[r] = "wait" /\ child[slot[r]].stage = "dead"
  /\ \/ child' = [child EXCEPT ![slot[r]] = NewChild] /\ NoFault
     \/ UNCHANGED child /\ Fault
  /\ ReleaseSlot(r, "crashed")
  /\ UNCHANGED <<poolVars, decoded, sharedVars>>

\* Mutant: the child of a late job is kept.
LeftRunning(r) == child[slot[r]]

\* kill_for_timeout: new queues and a new child, so that no late answer stays.
Replacement(r) == NewChild

MissDeadline(r) ==
  /\ backend = "process" /\ pc[r] = "wait" /\ timed /\ child[slot[r]].stage # "dead"
  /\ Fault
  /\ child' = [child EXCEPT ![slot[r]] = Replacement(r)]
  /\ ReleaseSlot(r, "timeout")
  /\ UNCHANGED <<poolVars, decoded, sharedVars>>

-----------------------------------------------------------------------------
(* The shared pool. *)

PermitLeft == Cardinality(Holding) < Cardinality(Slots)

AcquirePermit(r) ==
  /\ backend = "shared" /\ pc[r] = "queue" /\ PermitLeft
  /\ GoTo(r, "register")
  /\ UNCHANGED <<poolVars, outcome, decoded, faults, processVars, sharedVars>>

\* Under the lock: the job is entered and the task queue read ...
Register(r) ==
  /\ pc[r] = "register"
  /\ pending' = pending \cup {r}
  /\ queue' = [queue EXCEPT ![r] = generation]
  /\ GoTo(r, "submit")
  /\ UNCHANGED <<poolVars, outcome, decoded, faults, processVars, generation, alive, mail, seen,
                 tasks, results, restarter>>

\* The `finally' of transcribe.
Unregister(r, how) ==
  /\ pending' = pending \ {r}
  /\ End(r, how)

\* ... then the process and the generation, which a restart may have replaced
\* since, as it does not take that lock.  The process may be found dead.
Submit(r) ==
  /\ pc[r] = "submit"
  /\ \/ /\ alive
        /\ seen' = [seen EXCEPT ![r] = generation]
        /\ tasks' = IF queue[r] = generation THEN tasks \cup {r} ELSE tasks
        /\ GoTo(r, "await") /\ UNCHANGED <<pending, outcome>>
     \/ /\ ~alive \/ queue[r] # generation
        /\ Unregister(r, "crashed") /\ UNCHANGED <<seen, tasks>>
  /\ UNCHANGED <<poolVars, decoded, faults, processVars, generation, alive, mail, queue, results,
                 restarter>>

\* _run_job in the supervisor.
SupervisorWorks(r) ==
  /\ alive /\ r \in tasks
  /\ tasks' = tasks \ {r}
  /\ \/ /\ results' = results \cup {[job |-> r, kind |-> "ok"]}
        /\ decoded' = decoded \cup {r} /\ NoFault
     \/ /\ results' = results \cup {[job |-> r, kind |-> "error"]}
        /\ Fault /\ UNCHANGED decoded
  /\ UNCHANGED <<poolVars, pc, outcome, processVars, generation, alive, pending, mail, queue, seen,
                 restarter>>

\* It dies, or exits because the model cannot be loaded.
SupervisorCrashes ==
  /\ backend = "shared" /\ alive
  /\ Fault
  /\ alive' = FALSE
  /\ UNCHANGED <<poolVars, pc, outcome, decoded, processVars, generation, pending, mail, queue, seen,
                 tasks, results, restarter>>

\* Mutant: a result goes to whoever waits.
AnyReceiver(result) == pending

Receiver(result) == pending \cap {result.job}

\* _demux_loop: a result without a waiting job is dropped, a full queue keeps
\* what it has.
Demux ==
  \E result \in results :
    /\ results' = results \ {result}
    /\ mail' = [r \in Requests |->
                  IF r \in Receiver(result) /\ mail[r] = None THEN result.kind ELSE mail[r]]
    /\ UNCHANGED <<poolVars, pc, outcome, decoded, faults, processVars, generation, alive, pending,
                   queue, seen, tasks, restarter>>

ReadMail(r) ==
  /\ pc[r] = "await" /\ mail[r] # None
  /\ Unregister(r, IF mail[r] = "recycled" THEN "crashed" ELSE mail[r])
  /\ UNCHANGED <<poolVars, decoded, faults, processVars, generation, alive, mail, queue, seen, tasks,
                 results, restarter>>

\* jq.get runs into the deadline; a job the supervisor cannot have has no other end.
MailTimeout(r) ==
  /\ pc[r] = "await" /\ mail[r] = None /\ timed
  /\ IF alive /\ \/ r \in tasks
                 \/ \E result \in results : result.job = r
     THEN Fault ELSE NoFault
  /\ GoTo(r, "recycle")
  /\ UNCHANGED <<poolVars, outcome, decoded, processVars, sharedVars>>

\* _restart_after_timeout: whoever is first with this generation kills ...
Recycle(r) ==
  /\ pc[r] = "recycle" /\ restarter = None
  /\ IF seen[r] = generation
     THEN /\ restarter' = r /\ alive' = FALSE
          /\ GoTo(r, "notify") /\ UNCHANGED <<outcome, pending>>
     ELSE Unregister(r, "timeout") /\ UNCHANGED <<restarter, alive>>
  /\ UNCHANGED <<poolVars, decoded, faults, processVars, generation, mail, queue, seen, tasks,
                 results>>

\* ... tells the other jobs, and starts the next supervisor.
Notify(r) ==
  /\ pc[r] = "notify"
  /\ mail' = [j \in Requests |-> IF j \in pending /\ mail[j] = None THEN "recycled" ELSE mail[j]]
  /\ GoTo(r, "restart")
  /\ UNCHANGED <<poolVars, outcome, decoded, faults, processVars, generation, alive, pending, queue,
                 seen, tasks, results, restarter>>

Restart(r) ==
  /\ pc[r] = "restart"
  /\ generation' = generation + 1 /\ alive' = TRUE
  /\ tasks' = {} /\ results' = {}
  /\ restarter' = None
  /\ Unregister(r, "timeout")
  /\ UNCHANGED <<poolVars, decoded, faults, processVars, mail, queue, seen>>

-----------------------------------------------------------------------------
\* transcribe_endpoint has read the audio and enters the pool.
Call(r) ==
  /\ pc[r] = "new"
  /\ GoTo(r, "queue")
  /\ UNCHANGED <<poolVars, outcome, decoded, faults, processVars, sharedVars>>

\* A wrong type, no audio, too much of it, or an unknown language.
Reject(r) ==
  /\ pc[r] = "new"
  /\ End(r, "rejected")
  /\ UNCHANGED <<poolVars, decoded, faults, processVars, sharedVars>>

\* build_worker_pool.
Init ==
  /\ backend \in Backends /\ timed \in Deadlines[backend]
  /\ pc = [r \in Requests |-> "new"]
  /\ outcome = [r \in Requests |-> None]
  /\ decoded = {} /\ faults = 0
  /\ busy = {} /\ slot = [r \in Requests |-> None]
  /\ child = [s \in Slots |-> IF backend = "process" THEN NewChild ELSE DeadChild]
  /\ generation = 1 /\ alive = (backend = "shared")
  /\ pending = {} /\ mail = [r \in Requests |-> None]
  /\ queue = [r \in Requests |-> 0] /\ seen = [r \in Requests |-> 0]
  /\ tasks = {} /\ results = {} /\ restarter = None

\* The steps of a request that nothing has to force on it.
Serve(r) ==
  \/ AcquireSlot(r) \/ PutTask(r) \/ TakeAnswer(r) \/ SeeCrash(r)
  \/ AcquirePermit(r) \/ Register(r) \/ Submit(r) \/ ReadMail(r)
  \/ Recycle(r) \/ Notify(r) \/ Restart(r)

Next ==
  \/ \E r \in Requests : Call(r) \/ Reject(r) \/ Serve(r) \/ MissDeadline(r) \/ MailTimeout(r)
                         \/ SupervisorWorks(r)
  \/ \E s \in Slots : ChildWorks(s) \/ ChildCrashes(s)
  \/ SupervisorCrashes \/ Demux

Spec == Init /\ [][Next]_vars

\* A caller goes on, its wait for a slot, a permit or the restart lock ends when
\* one is free often enough, and a deadline ends jq.get; the children, the
\* supervisor and the demultiplexing thread work.
Fairness ==
  /\ \A r \in Requests : SF_vars(Serve(r) \/ MailTimeout(r))
  /\ WF_vars(\E s \in Slots : ChildWorks(s))
  /\ WF_vars(Demux \/ \E r \in Requests : SupervisorWorks(r))

FairSpec == Spec /\ Fairness

-----------------------------------------------------------------------------
TypeOK ==
  /\ backend \in Backends /\ timed \in BOOLEAN
  /\ pc \in [Requests -> {"new", "queue", "put", "wait", "register", "submit", "await", "recycle",
                          "notify", "restart", "done"}]
  /\ outcome \in [Requests -> Outcomes \cup {None}]
  /\ decoded \subseteq Requests /\ faults \in 0..MaxFaults
  /\ busy \subseteq Slots /\ slot \in [Requests -> Slots \cup {None}]
  /\ child \in [Slots -> Child]
  /\ generation \in Nat /\ alive \in BOOLEAN /\ pending \subseteq Requests
  /\ mail \in [Requests -> {"ok", "error", "recycled", None}]
  /\ queue \in [Requests -> 0..generation] /\ seen \in [Requests -> 0..generation]
  /\ tasks \subseteq Requests /\ results \subseteq Answers
  /\ restarter \in Requests \cup {None}

\* A child works for the request that holds its slot and for nobody who has
\* gone: late work never meets the next caller (_WorkerSlot).
ChildServesHolder ==
  \A s \in Slots : child[s].job # None => \E r \in Requests : slot[r] = s /\ child[s].job = r

\* Slots, children and jobs go together, in both pools (PersistentWorkerPool).
PoolSound == TypeOK /\ ChildServesHolder

\* Whichever pool was built, callers see a bounded pool that answers a job with
\* its own transcription or fails it.
JobState(r) ==
  CASE pc[r] \in {"new", "queue"} -> "new"
    [] pc[r] = "done" -> IF outcome[r] = "ok" THEN "answered" ELSE "failed"
    [] OTHER -> "active"

Abstract == INSTANCE JobPool WITH
  Jobs <- Requests, Width <- Cardinality(Slots), state <- [r \in Requests |-> JobState(r)]

ImplementsPool == Abstract!JobSpec

\* Slots lost to failed spawns, which nobody returns.
Lost == Cardinality({r \in Requests : outcome[r] = "unspawned"})

\* Every request that entered the pool comes out, whatever crashes or is late,
\* unless every slot was lost to a failed spawn, or nothing bounds the wait for
\* a supervisor that died (transcribe of both pools).
RequestEnds ==
  \A r \in Requests :
    pc[r] = "queue" ~> \/ pc[r] = "done"
                       \/ Lost = Cardinality(Slots)
                       \/ backend = "shared" /\ ~timed /\ ~alive

=============================================================================
