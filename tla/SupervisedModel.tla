--------------------------- MODULE SupervisedModel ---------------------------
(***************************************************************************)
(* A streaming Whisper model of live-stt-service in a supervised child     *)
(* process.  Callers take turns under one lock; whoever holds it sends one *)
(* task to the child and waits for the answer.  A child that is late, gone *)
(* or answers an error is killed and may be replaced by a new one, which   *)
(* dials in by address and loads the model from scratch.  A generation     *)
(* number tells accepted streams whether the model they were promised is   *)
(* still the one that would answer.                                        *)
(*                                                                         *)
(* The flags and the channel are also touched without the lock: by the     *)
(* thread that accepts the child's connection, by shutdown, and by readers *)
(* of the readiness.  One model (role) with the thread that preloads and   *)
(* recovers it is modelled; there are two of them, which share nothing but *)
(* that thread.                                                            *)
(***************************************************************************)
EXTENDS Naturals, FiniteSets, Functions

CONSTANTS
  Streams,      \* WebSocket sessions
  Keeper,       \* the preload and recovery thread
  Closer,       \* the shutdown of the service
  None,         \* Python None
  MaxAttempts,  \* stream_preload_max_attempts
  MaxFaults     \* bound: crashes, errors, missed deadlines, refused kills

Callers == Streams \cup {Keeper, Closer}

ASSUME SupervisedAssumption ==
  /\ Keeper \notin Streams /\ Closer \notin Streams \cup {Keeper}
  /\ None \notin Callers \cup Nat
  /\ MaxAttempts \in Nat \ {0} /\ MaxFaults \in Nat

VARIABLES
  generation,     \* _generation
  process,        \* _process: the generation of the child last started, or None
  children,       \* the child processes that live, by the generation they started in
  conn,           \* _conn: the generation of the child it leads to, or None
  connReady,      \* _conn_ready.is_set()
  acceptors,      \* accept threads that have not finished, by generation
  modelLoaded,    \* _model_loaded
  restartBlocked, \* _restart_blocked
  closing,        \* _closing.is_set()
  lock,           \* who holds _call_lock
  caller,         \* where each caller is
  pinned,         \* the generation each accepted stream relies on
  keeper,         \* the preload thread: its phase and attempt
  status,         \* what StreamingPreloadState says of the role
  stopping,       \* stop_event.is_set()
  faults          \* faults spent so far

service == <<generation, process, children, conn, connReady, acceptors, modelLoaded,
             restartBlocked>>
lifecycle == <<keeper, status, stopping>>
vars == <<service, closing, lock, caller, pinned, lifecycle, faults>>

-----------------------------------------------------------------------------
Stages == {"importing", "idle", "busy", "answered"}

\* A child: how far it is, whether it holds the model, whose task it has and
\* whether the answer it has sent is good.
Child == [stage : Stages, loaded : BOOLEAN, job : Callers \cup {None}, ok : BOOLEAN]

NewChild == [stage |-> "importing", loaded |-> FALSE, job |-> None, ok |-> FALSE]

Pcs == {"idle", "queue", "pin", "enter", "await", "send", "poll", "invalidate", "stop",
        "spawn", "closed", "unclosed"}

\* resume: the call goes on after the child was replaced.
Caller == [pc : Pcs, resume : BOOLEAN]

Statuses == {"pending", "loading", "ready", "failed", "stopping"}

Alive == process \in DOMAIN children

\* Mutant: shutdown is never seen.
NeverClosing == FALSE

\* _is_closing: every place that would start or use a child asks it.
Closing == closing

Loaded == modelLoaded /\ Alive

Healthy == ~restartBlocked /\ ~Closing /\ Alive

\* Only a load may start a replacement; a stream and a shutdown never do.
Restarts(c) == c = Keeper

\* A fault is spent.
Fault == faults < MaxFaults /\ faults' = faults + 1

NoFault == UNCHANGED faults

GoTo(c, pc) == caller' = [caller EXCEPT ![c].pc = pc]

Update(g, child) == children' = [children EXCEPT ![g] = child]

WithoutChild(g) == Restrict(children, DOMAIN children \ {g})

-----------------------------------------------------------------------------
(* How a call ends. *)

\* set_status of the role unless the service is stopping.
Marked(s) == status' = IF stopping THEN "stopping" ELSE s

\* Mutant: one attempt too many.
MayRetryAgain == keeper.attempt <= MaxAttempts

\* Attempts are left.
MayRetry == keeper.attempt < MaxAttempts

\* The preload thread after an attempt: a loaded model is watched from then on;
\* a failure is retried up to the limit while the time left allows it; a startup
\* that gave up is not recovered later.
KeeperAfter(success) ==
  IF success
  THEN keeper' = [phase |-> "watch", attempt |-> 0] /\ Marked("ready")
  ELSE /\ Marked("failed")
       /\ \/ MayRetry /\ keeper' = [keeper EXCEPT !.attempt = @ + 1]
          \/ keeper' = [phase |-> IF keeper.phase = "startup" THEN "ended" ELSE keeper.phase,
                        attempt |-> 0]

\* Mutant: the lock is not released on the way out.
LeaveLocked(c, success) ==
  /\ UNCHANGED lock
  /\ GoTo(c, IF c # Closer THEN "idle" ELSE IF success THEN "closed" ELSE "unclosed")
  /\ IF c = Keeper THEN KeeperAfter(success) /\ UNCHANGED stopping ELSE UNCHANGED lifecycle

\* The call returns or raises; `finally' releases the lock.
Leave(c, success) ==
  /\ lock' = None
  /\ GoTo(c, IF c # Closer THEN "idle" ELSE IF success THEN "closed" ELSE "unclosed")
  /\ IF c = Keeper THEN KeeperAfter(success) /\ UNCHANGED stopping ELSE UNCHANGED lifecycle

\* The child is to be stopped, and replaced where the call allows it.
Recycle(c, resume) ==
  /\ caller' = [caller EXCEPT ![c] = [pc |-> "invalidate", resume |-> resume]]
  /\ UNCHANGED <<lock, lifecycle>>

\* Mutant: a late child is left to itself.
AbandonLate(c) == Leave(c, FALSE)

\* A late child is recycled; its answer may still come otherwise.
DropLate(c) == Recycle(c, FALSE)

-----------------------------------------------------------------------------
(* The children and the threads that accept them. *)

\* _accept looks whether it is superseded before it hands over the channel.
Accepts(g) == generation = g /\ ~Closing

\* The child has imported everything and dials in; refused, it meets the end of
\* the channel and exits.
Dial(g) ==
  /\ children[g].stage = "importing" /\ acceptors[g] = "listening"
  /\ IF Accepts(g)
     THEN /\ Update(g, [children[g] EXCEPT !.stage = "idle"])
          /\ acceptors' = [acceptors EXCEPT ![g] = "checked"]
     ELSE /\ children' = WithoutChild(g)
          /\ acceptors' = Restrict(acceptors, DOMAIN acceptors \ {g})
  /\ UNCHANGED <<generation, process, conn, connReady, modelLoaded, restartBlocked, closing, lock,
                 caller, pinned, lifecycle, faults>>

\* _accept stores the channel and sets the event of its own generation; the
\* generation may have changed since it looked.
Publish(g) ==
  /\ acceptors[g] = "checked"
  /\ conn' = g
  /\ connReady' = (connReady \/ process = g)
  /\ acceptors' = Restrict(acceptors, DOMAIN acceptors \ {g})
  /\ UNCHANGED <<generation, process, children, modelLoaded, restartBlocked, closing, lock, caller,
                 pinned, lifecycle, faults>>

\* The child does its task: a load, or a decoding that would load a missing model.
Work(g) ==
  LET child == children[g]
  IN  /\ child.stage = "busy"
      /\ \/ /\ Update(g, [child EXCEPT !.stage = "answered", !.ok = TRUE, !.loaded = TRUE])
            /\ NoFault
         \/ /\ Update(g, [child EXCEPT !.stage = "answered", !.ok = FALSE])
            /\ Fault
      /\ UNCHANGED <<generation, process, conn, connReady, acceptors, modelLoaded, restartBlocked,
                     closing, lock, caller, pinned, lifecycle>>

\* The child exits by itself, at any time.
Crash(g) ==
  /\ Fault
  /\ children' = WithoutChild(g)
  /\ UNCHANGED <<generation, process, conn, connReady, acceptors, modelLoaded, restartBlocked,
                 closing, lock, caller, pinned, lifecycle>>

-----------------------------------------------------------------------------
(* A call under the lock. *)

Acquire(c) ==
  /\ caller[c].pc = "queue" /\ lock = None
  /\ lock' = c
  /\ GoTo(c, IF c = Closer THEN "invalidate"
             ELSE IF c \in Streams /\ pinned[c] = None THEN "pin" ELSE "enter")
  /\ UNCHANGED <<service, closing, pinned, lifecycle, faults>>

\* The deadline passes before the lock is free; the lock stays where it is.
LockTimeout(c) ==
  /\ caller[c].pc = "queue" /\ lock # None
  /\ Fault
  /\ UNCHANGED lock
  /\ GoTo(c, IF c = Closer THEN "unclosed" ELSE "idle")
  /\ IF c = Keeper THEN KeeperAfter(FALSE) /\ UNCHANGED stopping ELSE UNCHANGED lifecycle
  /\ UNCHANGED <<service, closing, pinned>>

\* ready_generation: the generation an accepted stream will rely on.
Pin(s) ==
  /\ caller[s].pc = "pin"
  /\ pinned' = [pinned EXCEPT ![s] = IF Loaded THEN generation ELSE None]
  /\ Leave(s, Loaded)
  /\ UNCHANGED <<service, closing, faults>>

\* Mutant: the generation is not compared.
StillLoaded(s) == Loaded

\* The promise made to the stream still holds.
StillReady(s) == generation = pinned[s] /\ Loaded

\* No call is served after shutdown began or an unkillable child was left.
Refused == Closing \/ restartBlocked

\* _ensure_model_locked and the head of _invoke_locked.
Enter(c) ==
  /\ caller[c].pc = "enter"
  /\ \/ c = Keeper /\ Loaded /\ Leave(c, TRUE)
     \/ /\ IF c = Keeper THEN ~Loaded /\ Refused ELSE Refused \/ ~StillReady(c)
        /\ Leave(c, FALSE)
     \/ /\ IF c = Keeper THEN ~Loaded /\ Alive ELSE StillReady(c)
        /\ ~Refused
        /\ GoTo(c, "await") /\ UNCHANGED <<lock, lifecycle>>
     \/ c = Keeper /\ ~Alive /\ ~Refused /\ Recycle(c, TRUE)
  /\ UNCHANGED <<service, closing, pinned, faults>>

\* The child has dialled in.
Await(c) ==
  /\ caller[c].pc = "await" /\ connReady
  /\ GoTo(c, "send")
  /\ UNCHANGED <<service, closing, lock, pinned, lifecycle, faults>>

\* The deadline has passed already, or passes before the child dials in.
AwaitTimeout(c) ==
  /\ caller[c].pc = "await"
  /\ Fault
  /\ Leave(c, FALSE) \/ (~connReady /\ Recycle(c, FALSE))
  /\ UNCHANGED <<service, closing, pinned>>

\* No child is left to dial in: the call waits out its deadline.
Expire(c) ==
  /\ caller[c].pc = "await" /\ ~connReady /\ ~Alive
  /\ \A g \in DOMAIN acceptors : acceptors[g] = "checked" => g # process
  /\ Recycle(c, FALSE)
  /\ UNCHANGED <<service, closing, pinned, faults>>

\* The task is sent, or the channel leads to a child that is gone.
Send(c) ==
  /\ caller[c].pc = "send"
  /\ IF conn \in DOMAIN children
     THEN /\ Update(conn, [children[conn] EXCEPT !.stage = "busy", !.job = c])
          /\ GoTo(c, "poll") /\ UNCHANGED <<lock, lifecycle>>
     ELSE Recycle(c, FALSE) /\ UNCHANGED children
  /\ UNCHANGED <<generation, process, conn, connReady, acceptors, modelLoaded, restartBlocked,
                 closing, pinned, faults>>

\* Mutant: a load that failed counts.
LoadedByAnyAnswer(c, ok) == modelLoaded \/ c = Keeper

\* Only a load that went well makes the model loaded.
LoadedAfter(c, ok) == modelLoaded \/ (c = Keeper /\ ok)

\* The answer to this task: a good one ends the call, an error discredits the
\* child.
Receive(c) ==
  LET child == children[process]
  IN  /\ caller[c].pc = "poll" /\ ~Closing /\ Alive
      /\ child.stage = "answered"
      /\ Update(process, [child EXCEPT !.stage = "idle", !.job = None])
      /\ IF child.job # c
         THEN UNCHANGED <<modelLoaded, caller, lock, lifecycle>>
         ELSE /\ modelLoaded' = LoadedAfter(c, child.ok)
              /\ IF child.ok THEN Leave(c, TRUE) ELSE Recycle(c, FALSE)
      /\ UNCHANGED <<generation, process, conn, connReady, acceptors, restartBlocked, closing,
                     pinned, faults>>

\* No answer: the service is closing, the child is gone, or the deadline passed.
NoAnswer(c) ==
  /\ caller[c].pc = "poll"
  /\ \/ Closing /\ Leave(c, FALSE) /\ NoFault
     \/ ~Closing /\ ~Alive /\ Recycle(c, FALSE) /\ NoFault
     \/ ~Closing /\ Alive /\ DropLate(c) /\ Fault
  /\ UNCHANGED <<service, closing, pinned>>

-----------------------------------------------------------------------------
(* _terminate_and_restart. *)

\* Readiness is withdrawn before the child is touched.
Invalidate(c) ==
  /\ caller[c].pc = "invalidate"
  /\ modelLoaded' = FALSE
  /\ generation' = generation + 1
  /\ GoTo(c, "stop")
  /\ UNCHANGED <<process, children, conn, connReady, acceptors, restartBlocked, closing, lock,
                 pinned, lifecycle, faults>>

\* The channel and the listener are closed; the thread listening on it ends.
Detach ==
  /\ conn' = None /\ connReady' = FALSE /\ process' = None
  /\ acceptors' = Restrict(acceptors, {g \in DOMAIN acceptors : acceptors[g] = "checked"})

\* Mutant: the child is given up while it still runs.
Stopped == children

\* terminate, join, kill, join.
Killed == WithoutChild(process)

\* The child is stopped; a replacement follows where the call allows it and
\* time is left.  A call that was to go on with the replacement does not look
\* whether there is one: it waits for a child nobody started.
Stop(c) ==
  /\ caller[c].pc = "stop"
  /\ children' = Killed
  /\ Detach
  /\ IF Restarts(c) /\ ~Closing
     THEN \/ NoFault /\ GoTo(c, "spawn") /\ UNCHANGED <<lock, lifecycle>>
          \/ Fault /\ Leave(c, FALSE)
     ELSE /\ NoFault
          /\ IF caller[c].resume
             THEN GoTo(c, "await") /\ UNCHANGED <<lock, lifecycle>>
             ELSE Leave(c, c = Closer)
  /\ UNCHANGED <<generation, modelLoaded, restartBlocked, closing, pinned>>

\* The child survives even kill: nothing is started any more.
CannotStop(c) ==
  /\ caller[c].pc = "stop" /\ Alive
  /\ Fault
  /\ restartBlocked' = TRUE
  /\ Leave(c, FALSE)
  /\ UNCHANGED <<generation, process, children, conn, connReady, acceptors, modelLoaded, closing,
                 pinned>>

\* _start.
Spawn(c) ==
  LET g == generation + 1
  IN  /\ caller[c].pc = "spawn"
      /\ IF Closing
         THEN Leave(c, FALSE) /\ UNCHANGED service
         ELSE /\ generation' = g /\ process' = g
              /\ children' = [h \in DOMAIN children \cup {g} |->
                                IF h = g THEN NewChild ELSE children[h]]
              /\ acceptors' = [h \in DOMAIN acceptors \cup {g} |->
                                 IF h = g THEN "listening" ELSE acceptors[h]]
              /\ conn' = None /\ connReady' = FALSE
              /\ modelLoaded' = FALSE /\ restartBlocked' = FALSE
              /\ IF caller[c].resume
                 THEN GoTo(c, "await") /\ UNCHANGED <<lock, lifecycle>>
                 ELSE Leave(c, FALSE)
      /\ UNCHANGED <<closing, pinned, faults>>

-----------------------------------------------------------------------------
(* The preload thread, the streams, shutdown. *)

\* begin_attempt of a startup or of a recovery round under way.
BeginAttempt ==
  /\ caller[Keeper].pc = "idle" /\ keeper.attempt > 0
  /\ IF stopping
     THEN keeper' = [phase |-> "ended", attempt |-> 0] /\ UNCHANGED <<caller, status>>
     ELSE GoTo(Keeper, "queue") /\ status' = "loading" /\ UNCHANGED keeper
  /\ UNCHANGED <<service, closing, lock, pinned, stopping, faults>>

\* Mutant: only the flag is looked at.
SeemsReady == ~restartBlocked /\ ~Closing /\ modelLoaded

\* healthy and model_loaded.
ServesModel == Healthy /\ Loaded

\* The recovery loop looks at the service without the lock.
Watch ==
  /\ caller[Keeper].pc = "idle" /\ keeper.phase = "watch" /\ keeper.attempt = 0
  /\ IF stopping
     THEN keeper' = [keeper EXCEPT !.phase = "ended"] /\ UNCHANGED status
     ELSE IF ServesModel
     THEN status' = "ready" /\ UNCHANGED keeper
     ELSE keeper' = [keeper EXCEPT !.attempt = 1] /\ UNCHANGED status
  /\ UNCHANGED <<service, closing, lock, caller, pinned, stopping, faults>>

\* A WebSocket is accepted when preload and service are ready.
Connect(s) ==
  /\ caller[s].pc = "idle" /\ pinned[s] = None
  /\ status = "ready" /\ ~stopping /\ ServesModel
  /\ GoTo(s, "queue")
  /\ UNCHANGED <<service, closing, lock, pinned, lifecycle, faults>>

\* A decoding of an accepted stream.
Decode(s) ==
  /\ caller[s].pc = "idle" /\ pinned[s] # None
  /\ GoTo(s, "queue")
  /\ UNCHANGED <<service, closing, lock, pinned, lifecycle, faults>>

Disconnect(s) ==
  /\ caller[s].pc = "idle" /\ pinned[s] # None
  /\ pinned' = [pinned EXCEPT ![s] = None]
  /\ UNCHANGED <<service, closing, lock, caller, lifecycle, faults>>

\* request_stop.
RequestStop ==
  /\ ~stopping
  /\ stopping' = TRUE
  /\ status' = IF status = "ready" THEN status ELSE "stopping"
  /\ UNCHANGED <<service, closing, lock, caller, pinned, keeper, faults>>

\* close: the flag is set before the lock is taken.
Close ==
  /\ stopping /\ caller[Closer].pc = "idle"
  /\ closing' = TRUE
  /\ GoTo(Closer, "queue")
  /\ UNCHANGED <<service, lock, pinned, lifecycle, faults>>

-----------------------------------------------------------------------------
Init ==
  /\ generation = 1 /\ process = 1
  /\ children = [g \in {1} |-> NewChild]
  /\ acceptors = [g \in {1} |-> "listening"]
  /\ conn = None /\ connReady = FALSE
  /\ modelLoaded = FALSE /\ restartBlocked = FALSE /\ closing = FALSE
  /\ lock = None
  /\ caller = [c \in Callers |-> [pc |-> "idle", resume |-> FALSE]]
  /\ pinned = [s \in Streams |-> None]
  /\ keeper = [phase |-> "startup", attempt |-> 1]
  /\ status = "pending" /\ stopping = FALSE
  /\ faults = 0

\* The steps of a call once it holds the lock, those a deadline or a stubborn
\* child forces on it set apart.
Proceed(c) ==
  \/ c \in Streams /\ Pin(c)
  \/ Enter(c) \/ Await(c) \/ Expire(c) \/ Send(c) \/ Receive(c) \/ NoAnswer(c)
  \/ Invalidate(c) \/ Stop(c) \/ Spawn(c)

Next ==
  \/ \E g \in DOMAIN children : Work(g) \/ Crash(g)
  \/ \E g \in DOMAIN children \cap DOMAIN acceptors : Dial(g)
  \/ \E g \in DOMAIN acceptors : Publish(g)
  \/ \E c \in Callers : Acquire(c) \/ LockTimeout(c) \/ Proceed(c) \/ AwaitTimeout(c)
                        \/ CannotStop(c)
  \/ BeginAttempt \/ Watch
  \/ \E s \in Streams : Connect(s) \/ Decode(s) \/ Disconnect(s)
  \/ RequestStop \/ Close

Spec == Init /\ [][Next]_vars

\* Threads and children run; a call waiting for the lock gets it in the end, as
\* whoever holds it gives it back by its deadline.
Fairness ==
  /\ \A c \in Callers : WF_vars(Proceed(c)) /\ SF_vars(Acquire(c))
  /\ WF_vars(BeginAttempt) /\ WF_vars(Watch)
  /\ WF_vars(\E g \in DOMAIN children : Work(g))
  /\ WF_vars(\E g \in DOMAIN children \cap DOMAIN acceptors : Dial(g))
  /\ WF_vars(\E g \in DOMAIN acceptors : Publish(g))

FairSpec == Spec /\ Fairness

-----------------------------------------------------------------------------
(* The type of the variables. *)
TypeOK ==
  /\ generation \in Nat \ {0}
  /\ process \in 1..generation \cup {None}
  /\ DOMAIN children \subseteq 1..generation
  /\ \A g \in DOMAIN children : children[g] \in Child
  /\ conn \in 1..generation \cup {None}
  /\ {connReady, modelLoaded, restartBlocked, closing, stopping} \subseteq BOOLEAN
  /\ DOMAIN acceptors \subseteq 1..generation
  /\ \A g \in DOMAIN acceptors : acceptors[g] \in {"listening", "checked"}
  /\ lock \in Callers \cup {None}
  /\ caller \in [Callers -> Caller]
  /\ pinned \in [Streams -> 1..generation \cup {None}]
  /\ keeper \in [phase : {"startup", "watch", "ended"}, attempt : 0..MaxAttempts]
  /\ status \in Statuses
  /\ faults \in 0..MaxFaults

\* The supervisor never has two children at once, so that two models never
\* share the GPU, whatever the order of deaths, kills and replacements
\* (_terminate_and_restart raises before _start when the old child survives).
OneChild == Cardinality(DOMAIN children) <= 1

\* Whoever is about to send finds the child without a task: no call leaves one
\* behind (the comment in _invoke_locked that send cannot block rests on it).
SingleFlight ==
  \A c \in Callers :
    caller[c].pc = "send" /\ conn \in DOMAIN children =>
      children[conn].stage = "idle" /\ children[conn].job = None

\* A stream that waits for a decoding has it done by the child it was accepted
\* for, which holds the model already: no reload hides in an open connection,
\* although the child may have been replaced while the stream waited for the
\* lock (transcribe_loaded_array).
NoColdReload ==
  \A g \in DOMAIN children : \A s \in Streams :
    children[g].job = s /\ caller[s].pc = "poll" => children[g].loaded /\ g = pinned[s]

\* What the service reports as loaded is held by the child that would answer:
\* the flag never outlives the process it is about (model_loaded).
ReadyIsReal == Loaded => children[process].loaded

\* Once shutdown has stopped the child, none is ever started again, although
\* the preload thread may still be retrying (close).
ShutdownIsFinal == caller[Closer].pc = "closed" => DOMAIN children = {}

\* One child at a time, no task left behind, no false readiness, no start after the end.
SupervisedSound == TypeOK /\ OneChild /\ SingleFlight /\ ReadyIsReal /\ ShutdownIsFinal

\* Every call that waits for the lock gets out of the service again.
CallsReturn ==
  \A c \in Callers : caller[c].pc = "queue" ~> caller[c].pc \in {"idle", "closed", "unclosed"}

\* When the faults are over the model is loaded for good, unless the service
\* stops, the startup gave up or a child could not be killed (_preload_models).
Recovers == <>[]Loaded \/ <>(stopping \/ restartBlocked \/ keeper.phase = "ended")

=============================================================================
