------------------------ MODULE SupervisedModelProofs ------------------------
(* The supervised model is sound for every number of streams, faults and      *)
(* retries: one child at a time, one task at a time, no promise of a model     *)
(* that is not there, no child after shutdown.  The argument is one inductive  *)
(* invariant about who holds the lock and what he may rely on until he gives   *)
(* it back, whatever dies, is late or is replaced meanwhile.                   *)
EXTENDS SupervisedModel, FiniteSetTheorems, TLAPS

\* The steps of a call that holds the lock.
InCall == {"pin", "enter", "await", "send", "poll", "invalidate", "stop", "spawn"}

\* Steps that rely on the child, steps with a task in it or with a child to stop.
Relying == {"await", "send", "poll"}
Undoing == {"poll", "invalidate", "stop"}

ClosingPcs == {"idle", "queue", "invalidate", "stop", "closed", "unclosed"}

-----------------------------------------------------------------------------
(* The inductive invariant. *)

LockOK == \A c \in Callers : caller[c].pc \in InCall <=> lock = c

\* Only the preload thread goes on with a replacement; shutdown starts with the
\* flag and takes no other way than to the child's end.
CallersOK ==
  /\ \A c \in Callers : caller[c].resume => c = Keeper
  /\ caller[Closer].pc \in ClosingPcs
  /\ caller[Closer].pc # "idle" => closing
  /\ caller[Closer].pc = "closed" => DOMAIN children = {}

\* The only child is the one last started; nothing of it is left when another
\* is to be started.
LastStarted ==
  /\ DOMAIN children \subseteq {process}
  /\ \A c \in Callers : caller[c].pc = "spawn" => process = None

\* A child has a task or not, an answer is good only with the model loaded, and
\* a channel leads to a child that has dialled in.
ChildOK(g) ==
  /\ children[g].stage \in {"busy", "answered"} <=> children[g].job # None
  /\ children[g].ok => children[g].loaded
  /\ conn = g \/ (g \in DOMAIN acceptors /\ acceptors[g] = "checked")
       => children[g].stage # "importing"

ChildrenOK == \A g \in DOMAIN children : ChildOK(g)

\* A task is left in a child only by a call that is about to end it, or when no
\* call will ever be served again.
TasksOK ==
  \A g \in DOMAIN children :
    children[g].job # None =>
      /\ closing \/ restartBlocked \/ \E c \in Callers : caller[c].pc \in Undoing
      /\ \A c \in Callers : caller[c].pc \notin {"await", "send"}

\* The generation is that of the child, unless the child is being stopped or
\* could not be.
Current ==
  Alive => process = generation \/ restartBlocked \/ \E c \in Callers : caller[c].pc = "stop"

\* What a call relies on until it ends.
Relied(c) ==
  /\ caller[c].pc \in Relying /\ Alive =>
       process = generation /\ (c \in Streams => children[process].loaded /\ process = pinned[c])
  /\ caller[c].pc = "stop" => ~modelLoaded

\* The flag is about the model of this very child.
FlagOK == Loaded => children[process].loaded /\ process = generation

Promises == Current /\ FlagOK /\ \A c \in Callers : Relied(c)

IInv == TypeOK /\ LockOK /\ CallersOK /\ LastStarted /\ ChildrenOK /\ TasksOK /\ Promises

-----------------------------------------------------------------------------
(* Who holds the lock is alone under it. *)

LEMMA Alone ==
  ASSUME LockOK, NEW c \in Callers, NEW d \in Callers, caller[c].pc \in InCall,
         caller[d].pc \in InCall
  PROVE  c = d
BY DEF LockOK

LEMMA FreshChild ==
  /\ NewChild \in Child /\ NewChild.stage = "importing" /\ NewChild.job = None
  /\ ~NewChild.ok /\ ~NewChild.loaded
BY DEF NewChild, Child, Stages

LEMMA InitIInv == Init => IInv
<1> SUFFICES ASSUME Init PROVE IInv
  OBVIOUS
<1>0. /\ DOMAIN children = {1} /\ children[1] = NewChild /\ DOMAIN acceptors = {1}
      /\ acceptors[1] = "listening"
  BY DEF Init
<1>1. \A c \in Callers : caller[c].pc = "idle" /\ ~caller[c].resume
  BY DEF Init
<1>2. TypeOK
  <2>1. caller \in [Callers -> Caller]
    BY DEF Init, Caller, Pcs
  <2>2. /\ keeper \in [phase : {"startup", "watch", "ended"}, attempt : 0..MaxAttempts]
        /\ status \in Statuses
    BY SupervisedAssumption DEF Init, Statuses
  <2>3. \A g \in DOMAIN children : children[g] \in Child
    BY <1>0, FreshChild
  <2>4. /\ lock \in Callers \cup {None} /\ pinned \in [Streams -> 1..generation \cup {None}]
        /\ {connReady, modelLoaded, restartBlocked, closing, stopping} \subseteq BOOLEAN
    BY DEF Init
  <2>5. /\ generation \in Nat \ {0} /\ process \in 1..generation \cup {None}
        /\ conn \in 1..generation \cup {None} /\ faults \in 0..MaxFaults
        /\ DOMAIN children \subseteq 1..generation /\ DOMAIN acceptors \subseteq 1..generation
    BY <1>0, SupervisedAssumption DEF Init
  <2> QED
    BY <1>0, <2>1, <2>2, <2>3, <2>4, <2>5 DEF TypeOK
<1>3. LockOK
  <2>1. None \notin Callers
    BY SupervisedAssumption
  <2> QED
    BY <1>1, <2>1 DEF Init, LockOK, InCall
<1>4. CallersOK /\ LastStarted
  BY <1>0, <1>1 DEF Init, CallersOK, LastStarted, ClosingPcs, Callers
<1>5. ChildrenOK /\ TasksOK
  BY <1>0, FreshChild, SupervisedAssumption DEF Init, ChildrenOK, ChildOK, TasksOK
<1>6. Promises
  BY <1>1 DEF Init, Promises, Current, FlagOK, Loaded, Relied, Relying
<1> QED
  BY <1>2, <1>3, <1>4, <1>5, <1>6 DEF IInv

-----------------------------------------------------------------------------
(* A call moves. *)

\* One call goes to x, taking the lock on the way in and giving it back on the
\* way out.
Moves(c, x) ==
  /\ x \in Pcs
  /\ caller' \in [Callers -> Caller]
  /\ caller'[c].pc = x
  /\ caller'[c].resume => c = Keeper
  /\ \A d \in Callers \ {c} : caller'[d] = caller[d]
  /\ lock' = IF x \in InCall THEN c ELSE IF caller[c].pc \in InCall THEN None ELSE lock
  /\ x \in InCall => lock \in {c, None}

LifecycleTyped ==
  /\ keeper' \in [phase : {"startup", "watch", "ended"}, attempt : 0..MaxAttempts]
  /\ status' \in Statuses
  /\ stopping' \in BOOLEAN

LEMMA MovesKeepLock ==
  ASSUME TypeOK, LockOK, NEW c \in Callers, NEW x, Moves(c, x)
  PROVE  LockOK' /\ lock' \in Callers \cup {None}
<1>1. None \notin Callers
  BY SupervisedAssumption
<1> QED
  BY <1>1 DEF TypeOK, LockOK, Moves

LEMMA GoToMoves ==
  ASSUME TypeOK, CallersOK, LockOK, NEW c \in Callers, NEW x \in Pcs, GoTo(c, x),
         \/ lock' = lock /\ (x \in InCall <=> caller[c].pc \in InCall)
         \/ lock' = c /\ lock = None /\ x \in InCall
         \/ lock' = None /\ x \notin InCall /\ caller[c].pc \in InCall
  PROVE  Moves(c, x)
<1>1. /\ caller[c] \in Caller /\ [caller[c] EXCEPT !.pc = x] \in Caller
      /\ [caller[c] EXCEPT !.pc = x].pc = x
      /\ [caller[c] EXCEPT !.pc = x].resume = caller[c].resume
  BY DEF TypeOK, Caller
<1>2. caller' = [caller EXCEPT ![c] = [caller[c] EXCEPT !.pc = x]]
  BY DEF GoTo
<1>3. /\ caller' \in [Callers -> Caller] /\ caller'[c] = [caller[c] EXCEPT !.pc = x]
      /\ \A d \in Callers \ {c} : caller'[d] = caller[d]
  BY <1>1, <1>2 DEF TypeOK
<1> QED
  BY <1>1, <1>3 DEF Moves, CallersOK, LockOK

LEMMA RecycleMoves ==
  ASSUME TypeOK, LockOK, NEW c \in Callers, NEW resume \in BOOLEAN, resume => c = Keeper,
         caller[c].pc \in InCall, Recycle(c, resume)
  PROVE  Moves(c, "invalidate") /\ LifecycleTyped
<1>1. [pc |-> "invalidate", resume |-> resume] \in Caller
  BY DEF Caller, Pcs
<1> QED
  BY <1>1 DEF TypeOK, LockOK, Recycle, Moves, LifecycleTyped, lifecycle, InCall, Pcs

LEMMA KeeperTyped ==
  ASSUME TypeOK, NEW success \in BOOLEAN, KeeperAfter(success), UNCHANGED stopping
  PROVE  LifecycleTyped
<1>1. status' \in Statuses /\ stopping' \in BOOLEAN
  BY DEF TypeOK, KeeperAfter, Marked, Statuses
<1>2. keeper' \in [phase : {"startup", "watch", "ended"}, attempt : 0..MaxAttempts]
  <2>1. CASE keeper' = [phase |-> "watch", attempt |-> 0]
    BY <2>1, SupervisedAssumption
  <2>2. CASE MayRetry /\ keeper' = [keeper EXCEPT !.attempt = @ + 1]
    BY <2>2, SupervisedAssumption DEF TypeOK, MayRetry
  <2>3. CASE keeper' = [phase |-> IF keeper.phase = "startup" THEN "ended" ELSE keeper.phase,
                        attempt |-> 0]
    BY <2>3, SupervisedAssumption DEF TypeOK
  <2> QED
    BY <2>1, <2>2, <2>3 DEF KeeperAfter
<1> QED
  BY <1>1, <1>2 DEF LifecycleTyped

Left(c, success) == IF c # Closer THEN "idle" ELSE IF success THEN "closed" ELSE "unclosed"

LEMMA LeaveMoves ==
  ASSUME TypeOK, CallersOK, LockOK, NEW c \in Callers, NEW success \in BOOLEAN,
         caller[c].pc \in InCall, Leave(c, success)
  PROVE  Moves(c, Left(c, success)) /\ LifecycleTyped
<1>1. Left(c, success) \in Pcs \ InCall
  BY DEF Left, Pcs, InCall
<1>2. lock' = None /\ GoTo(c, Left(c, success))
  BY DEF Leave, Left
<1>3. Moves(c, Left(c, success))
  BY <1>1, <1>2, GoToMoves
<1>4. LifecycleTyped
  <2>1. CASE c = Keeper
    BY <2>1, KeeperTyped DEF Leave
  <2>2. CASE c # Keeper
    BY <2>2 DEF Leave, lifecycle, TypeOK, LifecycleTyped
  <2> QED
    BY <2>1, <2>2
<1> QED
  BY <1>3, <1>4

\* What the service keeps while only calls move.
ServiceKept ==
  /\ UNCHANGED service
  /\ closing' \in BOOLEAN /\ (closing => closing')
  /\ faults' \in 0..MaxFaults
  /\ pinned' \in [Streams -> 1..generation \cup {None}]

\* No child has a task.
NoTask == \A g \in DOMAIN children : children[g].job = None

\* A call moves to a step that asks for no more than it leaves true.
LEMMA CallStep ==
  ASSUME IInv, NEW c \in Callers, NEW x, Moves(c, x), LifecycleTyped, ServiceKept,
         \A s \in Streams \ {c} : pinned'[s] = pinned[s],
         x \notin {"stop", "spawn"}, caller[c].pc # "stop",
         c = Closer => x \in ClosingPcs \ {"closed"} /\ (x # "idle" => closing'),
         x \in {"await", "send"} => NoTask,
         caller[c].pc \in Undoing => x \in Undoing \/ closing',
         x \in Relying /\ Alive =>
           process = generation /\ (c \in Streams => children[process].loaded
                                                      /\ process = pinned'[c])
  PROVE  IInv'
<1>0. /\ TypeOK /\ LockOK /\ CallersOK /\ LastStarted /\ ChildrenOK /\ TasksOK
      /\ Current /\ FlagOK /\ \A d \in Callers : Relied(d)
  BY DEF IInv, Promises
<1> USE <1>0
<1>1. /\ generation' = generation /\ process' = process /\ children' = children /\ conn' = conn
      /\ connReady' = connReady /\ acceptors' = acceptors /\ modelLoaded' = modelLoaded
      /\ restartBlocked' = restartBlocked
  BY DEF ServiceKept, service
<1>2. /\ caller'[c].pc = x
      /\ caller'[c].resume => c = Keeper
      /\ \A d \in Callers \ {c} : caller'[d] = caller[d]
  BY DEF Moves
<1>3. LockOK' /\ lock' \in Callers \cup {None}
  BY MovesKeepLock
<1>4. TypeOK'
  BY <1>1, <1>3 DEF TypeOK, Moves, LifecycleTyped, ServiceKept
<1>5. CallersOK'
  <2>1. \A d \in Callers : caller'[d].resume => d = Keeper
    BY <1>2 DEF CallersOK, Moves
  <2>2. CASE c = Closer
    BY <2>1, <2>2, <1>2 DEF CallersOK
  <2>3. CASE c # Closer
    <3>1. caller'[Closer] = caller[Closer]
      BY <2>3, <1>2 DEF Callers
    <3> QED
      BY <2>1, <3>1, <1>1 DEF CallersOK, ServiceKept
  <2> QED
    BY <2>2, <2>3
<1>6. LastStarted' /\ ChildrenOK'
  <2>1. LastStarted'
    BY <1>1, <1>2 DEF LastStarted
  <2> QED
    BY <2>1, <1>1 DEF ChildrenOK, ChildOK
<1>7. TasksOK'
  <2> SUFFICES ASSUME NEW g \in DOMAIN children, children[g].job # None
               PROVE  /\ closing' \/ restartBlocked \/ \E d \in Callers : caller'[d].pc \in Undoing
                      /\ \A d \in Callers : caller'[d].pc \notin {"await", "send"}
    BY <1>1 DEF TasksOK
  <2>1. /\ closing \/ restartBlocked \/ \E d \in Callers : caller[d].pc \in Undoing
        /\ \A d \in Callers : caller[d].pc \notin {"await", "send"}
    BY DEF TasksOK
  <2>2. \A d \in Callers : caller'[d].pc \notin {"await", "send"}
    BY <2>1, <1>2 DEF NoTask
  <2>3. ASSUME NEW d \in Callers, caller[d].pc \in Undoing
        PROVE  closing' \/ \E e \in Callers : caller'[e].pc \in Undoing
    BY <2>3, <1>2
  <2> QED
    BY <2>1, <2>2, <2>3 DEF ServiceKept
<1>8. Current'
  <2>1. ASSUME NEW d \in Callers, caller[d].pc = "stop" PROVE caller'[d].pc = "stop"
    BY <2>1, <1>2
  <2> QED
    BY <2>1, <1>1 DEF Current, Alive
<1>9. FlagOK'
  BY <1>1 DEF FlagOK, Loaded, Alive
<1>10. ASSUME NEW d \in Callers PROVE Relied(d)'
  <2>1. CASE d = c
    BY <2>1, <1>1, <1>2 DEF Relied, Alive
  <2>2. CASE d # c
    BY <2>2, <1>1, <1>2 DEF Relied, Alive
  <2> QED
    BY <2>1, <2>2
<1> QED
  BY <1>3, <1>4, <1>5, <1>6, <1>7, <1>8, <1>9, <1>10 DEF IInv, Promises

\* The calls stand still while a child gets on with its task or is lost.
LEMMA ChildStep ==
  ASSUME IInv, UNCHANGED <<generation, process, modelLoaded, restartBlocked, closing, lock,
                           caller, pinned, lifecycle>>,
         faults' \in 0..MaxFaults, conn' \in 1..generation \cup {None}, connReady' \in BOOLEAN,
         DOMAIN acceptors' \subseteq DOMAIN acceptors,
         \A g \in DOMAIN acceptors' : acceptors'[g] \in {"listening", "checked"},
         DOMAIN children' \subseteq DOMAIN children,
         \A g \in DOMAIN children' : /\ children'[g] \in Child /\ ChildOK(g)'
                                     /\ children'[g].job = children[g].job
                                     /\ children[g].loaded => children'[g].loaded
  PROVE  IInv'
<1>0. /\ TypeOK /\ LockOK /\ CallersOK /\ LastStarted /\ ChildrenOK /\ TasksOK
      /\ Current /\ FlagOK /\ \A d \in Callers : Relied(d)
  BY DEF IInv, Promises
<1>1. TypeOK'
  BY <1>0 DEF TypeOK, lifecycle
<1>2. LockOK' /\ CallersOK' /\ LastStarted' /\ ChildrenOK'
  BY <1>0 DEF LockOK, CallersOK, LastStarted, ChildrenOK
<1>3. TasksOK'
  BY <1>0 DEF TasksOK
<1>4. Current' /\ FlagOK'
  BY <1>0 DEF Current, FlagOK, Loaded, Alive
<1>5. \A d \in Callers : Relied(d)'
  BY <1>0 DEF Relied, Alive
<1> QED
  BY <1>1, <1>2, <1>3, <1>4, <1>5 DEF IInv, Promises

-----------------------------------------------------------------------------
(* The children. *)

LEMMA WorkIInv ==
  ASSUME IInv, NEW g \in DOMAIN children, Work(g)
  PROVE  IInv'
<1>0. TypeOK /\ ChildrenOK
  BY DEF IInv
<1>1. children[g] \in Child /\ ChildOK(g) /\ children[g].stage = "busy"
  BY <1>0 DEF TypeOK, ChildrenOK, Work
<1>2. PICK child \in Child :
        /\ children' = [children EXCEPT ![g] = child]
        /\ child.stage = "answered" /\ child.job = children[g].job
        /\ (child.ok => child.loaded) /\ (children[g].loaded => child.loaded)
  <2>1. CASE Update(g, [children[g] EXCEPT !.stage = "answered", !.ok = TRUE, !.loaded = TRUE])
    <3>1. [children[g] EXCEPT !.stage = "answered", !.ok = TRUE, !.loaded = TRUE] \in Child
      BY <1>1 DEF Child, Stages
    <3> QED
      BY <1>1, <2>1, <3>1 DEF Update, Child
  <2>2. CASE Update(g, [children[g] EXCEPT !.stage = "answered", !.ok = FALSE])
    <3>1. [children[g] EXCEPT !.stage = "answered", !.ok = FALSE] \in Child
      BY <1>1 DEF Child, Stages
    <3> QED
      BY <1>1, <2>2, <3>1 DEF Update, Child
  <2> QED
    BY <2>1, <2>2 DEF Work
<1>3. /\ UNCHANGED <<generation, process, modelLoaded, restartBlocked, closing, lock, caller,
                     pinned, lifecycle>>
      /\ conn' = conn /\ connReady' = connReady /\ acceptors' = acceptors
      /\ faults' \in 0..MaxFaults
  BY <1>0, SupervisedAssumption DEF Work, Fault, NoFault, TypeOK
<1>4. DOMAIN children' = DOMAIN children
  BY <1>2
<1>5. ASSUME NEW h \in DOMAIN children'
      PROVE  /\ children'[h] \in Child /\ ChildOK(h)'
             /\ children'[h].job = children[h].job
             /\ children[h].loaded => children'[h].loaded
  <2>1. CASE h = g
    BY <1>1, <1>2, <1>3, <2>1 DEF ChildOK
  <2>2. CASE h # g
    BY <1>0, <1>2, <1>3, <1>4, <2>2 DEF TypeOK, ChildrenOK, ChildOK
  <2> QED
    BY <2>1, <2>2
<1> QED
  BY <1>0, <1>3, <1>4, <1>5, ChildStep DEF TypeOK

LEMMA CrashIInv ==
  ASSUME IInv, NEW g \in DOMAIN children, Crash(g)
  PROVE  IInv'
<1>0. TypeOK /\ ChildrenOK
  BY DEF IInv
<1>1. /\ DOMAIN children' = DOMAIN children \ {g}
      /\ \A h \in DOMAIN children' : children'[h] = children[h]
  BY DEF Crash, WithoutChild, Restrict
<1>2. /\ UNCHANGED <<generation, process, modelLoaded, restartBlocked, closing, lock, caller,
                     pinned, lifecycle>>
      /\ conn' = conn /\ connReady' = connReady /\ acceptors' = acceptors
      /\ faults' \in 0..MaxFaults
  BY <1>0, SupervisedAssumption DEF Crash, Fault, TypeOK
<1>3. \A h \in DOMAIN children' : /\ children'[h] \in Child /\ ChildOK(h)'
                                  /\ children'[h].job = children[h].job
                                  /\ children[h].loaded => children'[h].loaded
  BY <1>0, <1>1, <1>2 DEF TypeOK, ChildrenOK, ChildOK
<1> QED
  BY <1>0, <1>1, <1>2, <1>3, ChildStep DEF TypeOK

LEMMA DialIInv ==
  ASSUME IInv, NEW g \in DOMAIN children \cap DOMAIN acceptors, Dial(g)
  PROVE  IInv'
<1>0. TypeOK /\ ChildrenOK
  BY DEF IInv
<1>1. /\ UNCHANGED <<generation, process, modelLoaded, restartBlocked, closing, lock, caller,
                     pinned, lifecycle>>
      /\ conn' = conn /\ connReady' = connReady /\ faults' \in 0..MaxFaults
  BY <1>0 DEF Dial, TypeOK
<1>2. CASE Accepts(g)
  <2>1. children[g] \in Child /\ ChildOK(g) /\ children[g].stage = "importing"
    BY <1>0 DEF TypeOK, ChildrenOK, Dial
  <2>2. PICK child \in Child : /\ children' = [children EXCEPT ![g] = child]
                               /\ child.stage = "idle" /\ child.job = children[g].job
                               /\ child.ok = children[g].ok /\ child.loaded = children[g].loaded
    <3>1. [children[g] EXCEPT !.stage = "idle"] \in Child
      BY <2>1 DEF Child, Stages
    <3> QED
      BY <1>2, <2>1, <3>1 DEF Dial, Update, Child
  <2>3. acceptors' = [acceptors EXCEPT ![g] = "checked"] /\ DOMAIN acceptors' = DOMAIN acceptors
    BY <1>2 DEF Dial
  <2>4. DOMAIN children' = DOMAIN children
    BY <2>2
  <2>5. ASSUME NEW h \in DOMAIN children'
        PROVE  /\ children'[h] \in Child /\ ChildOK(h)'
               /\ children'[h].job = children[h].job
               /\ children[h].loaded => children'[h].loaded
    <3>1. CASE h = g
      BY <2>1, <2>2, <3>1 DEF ChildOK
    <3>2. CASE h # g
      BY <1>0, <1>1, <2>2, <2>3, <2>4, <3>2 DEF TypeOK, ChildrenOK, ChildOK
    <3> QED
      BY <3>1, <3>2
  <2>6. \A h \in DOMAIN acceptors' : acceptors'[h] \in {"listening", "checked"}
    BY <1>0, <2>3 DEF TypeOK
  <2> QED
    BY <1>0, <1>1, <2>3, <2>4, <2>5, <2>6, ChildStep DEF TypeOK
<1>3. CASE ~Accepts(g)
  <2>1. /\ DOMAIN children' = DOMAIN children \ {g}
        /\ \A h \in DOMAIN children' : children'[h] = children[h]
    BY <1>3 DEF Dial, WithoutChild, Restrict
  <2>2. /\ DOMAIN acceptors' = DOMAIN acceptors \ {g}
        /\ \A h \in DOMAIN acceptors' : acceptors'[h] = acceptors[h]
    BY <1>3 DEF Dial, Restrict
  <2>3. \A h \in DOMAIN children' : /\ children'[h] \in Child /\ ChildOK(h)'
                                    /\ children'[h].job = children[h].job
                                    /\ children[h].loaded => children'[h].loaded
    BY <1>0, <1>1, <2>1, <2>2 DEF TypeOK, ChildrenOK, ChildOK
  <2>4. \A h \in DOMAIN acceptors' : acceptors'[h] \in {"listening", "checked"}
    BY <1>0, <2>2 DEF TypeOK
  <2> QED
    BY <1>0, <1>1, <2>1, <2>2, <2>3, <2>4, ChildStep DEF TypeOK
<1> QED
  BY <1>2, <1>3

LEMMA PublishIInv ==
  ASSUME IInv, NEW g \in DOMAIN acceptors, Publish(g)
  PROVE  IInv'
<1>0. TypeOK /\ ChildrenOK
  BY DEF IInv
<1>1. /\ UNCHANGED <<generation, process, modelLoaded, restartBlocked, closing, lock, caller,
                     pinned, lifecycle>>
      /\ children' = children /\ faults' \in 0..MaxFaults
      /\ conn' = g /\ conn' \in 1..generation \cup {None} /\ connReady' \in BOOLEAN
      /\ acceptors[g] = "checked"
  BY <1>0 DEF Publish, TypeOK
<1>2. /\ DOMAIN acceptors' = DOMAIN acceptors \ {g}
      /\ \A h \in DOMAIN acceptors' : acceptors'[h] = acceptors[h]
  BY DEF Publish, Restrict
<1>3. \A h \in DOMAIN children' : /\ children'[h] \in Child /\ ChildOK(h)'
                                  /\ children'[h].job = children[h].job
                                  /\ children[h].loaded => children'[h].loaded
  BY <1>0, <1>1, <1>2 DEF TypeOK, ChildrenOK, ChildOK
<1>4. \A h \in DOMAIN acceptors' : acceptors'[h] \in {"listening", "checked"}
  BY <1>0, <1>2 DEF TypeOK
<1> QED
  BY <1>0, <1>1, <1>2, <1>3, <1>4, ChildStep DEF TypeOK

-----------------------------------------------------------------------------
(* Calls under the lock, as long as the child is left alone. *)

\* What every call proof starts from.
LEMMA Parts ==
  ASSUME IInv
  PROVE  /\ TypeOK /\ LockOK /\ CallersOK /\ LastStarted /\ ChildrenOK /\ TasksOK
         /\ Current /\ FlagOK /\ \A d \in Callers : Relied(d)
         /\ None \notin Callers /\ Keeper # Closer /\ Keeper \notin Streams
         /\ Closer \notin Streams /\ \A g \in Nat : g # None
BY SupervisedAssumption DEF IInv, Promises

LEMMA Kept ==
  ASSUME TypeOK, UNCHANGED <<service, closing, pinned>>, faults' \in 0..MaxFaults
  PROVE  ServiceKept /\ \A s \in Streams : pinned'[s] = pinned[s]
BY DEF TypeOK, ServiceKept

LEMMA Faults ==
  ASSUME TypeOK
  PROVE  /\ Fault => faults' \in 0..MaxFaults
         /\ UNCHANGED faults => faults' \in 0..MaxFaults
BY SupervisedAssumption DEF TypeOK, Fault

LEMMA SameLifecycle ==
  ASSUME TypeOK, UNCHANGED lifecycle
  PROVE  LifecycleTyped
BY DEF TypeOK, lifecycle, LifecycleTyped

\* A call that raises or returns.
LEMMA LeaveIInv ==
  ASSUME IInv, NEW c \in Callers, NEW success \in BOOLEAN, caller[c].pc \in InCall \ {"stop"},
         Leave(c, success), UNCHANGED <<service, closing, pinned>>, faults' \in 0..MaxFaults,
         c = Closer => ~success, caller[c].pc \in Undoing => closing
  PROVE  IInv'
<1>1. Moves(c, Left(c, success)) /\ LifecycleTyped
  BY LeaveMoves, Parts
<1>2. ServiceKept /\ \A s \in Streams : pinned'[s] = pinned[s]
  BY Kept, Parts
<1>3. /\ Left(c, success) \in {"idle", "unclosed"}
      /\ c = Closer => closing'
  BY Parts DEF Left, CallersOK, InCall
<1> QED
  BY <1>1, <1>2, <1>3, CallStep DEF ClosingPcs, Relying

\* A call that gives its child up.
LEMMA RecycleIInv ==
  ASSUME IInv, NEW c \in Callers, NEW resume \in BOOLEAN, resume => c = Keeper,
         caller[c].pc \in InCall \ {"stop"}, c # Closer,
         Recycle(c, resume), UNCHANGED <<service, closing, pinned>>, faults' \in 0..MaxFaults
  PROVE  IInv'
<1>1. Moves(c, "invalidate") /\ LifecycleTyped
  BY RecycleMoves, Parts
<1>2. ServiceKept /\ \A s \in Streams : pinned'[s] = pinned[s]
  BY Kept, Parts
<1> QED
  BY <1>1, <1>2, CallStep DEF Relying, Undoing

LEMMA AcquireIInv ==
  ASSUME IInv, NEW c \in Callers, Acquire(c)
  PROVE  IInv'
<1>1. PICK x \in {"invalidate", "pin", "enter"} : GoTo(c, x) /\ (c = Closer => x = "invalidate")
  BY DEF Acquire
<1>2. lock = None /\ lock' = c /\ caller[c].pc = "queue"
  BY DEF Acquire
<1>3. Moves(c, x)
  BY <1>1, <1>2, GoToMoves, Parts DEF InCall, Pcs
<1>4. LifecycleTyped
  BY SameLifecycle, Parts DEF Acquire
<1>5. ServiceKept /\ (\A s \in Streams : pinned'[s] = pinned[s]) /\ closing' = closing
  BY Kept, Faults, Parts DEF Acquire
<1>6. c = Closer => closing
  BY <1>2, Parts DEF CallersOK
<1> QED
  BY <1>1, <1>2, <1>3, <1>4, <1>5, <1>6, CallStep DEF ClosingPcs, Relying, Undoing

LEMMA LockTimeoutIInv ==
  ASSUME IInv, NEW c \in Callers, LockTimeout(c)
  PROVE  IInv'
<1>1. PICK x \in {"idle", "unclosed"} : GoTo(c, x) /\ (c = Closer => x = "unclosed")
  BY DEF LockTimeout
<1>2. lock' = lock /\ caller[c].pc = "queue" /\ UNCHANGED <<service, closing, pinned>>
      /\ faults' \in 0..MaxFaults
  BY Faults, Parts DEF LockTimeout
<1>3. Moves(c, x)
  BY <1>1, <1>2, GoToMoves, Parts DEF InCall, Pcs
<1>4. LifecycleTyped
  <2>1. CASE c = Keeper
    BY <2>1, KeeperTyped, Parts DEF LockTimeout
  <2>2. CASE c # Keeper
    BY <2>2, SameLifecycle, Parts DEF LockTimeout
  <2> QED
    BY <2>1, <2>2
<1>5. ServiceKept /\ \A s \in Streams : pinned'[s] = pinned[s]
  BY <1>2, Kept, Parts
<1>6. c = Closer => closing'
  BY <1>2, Parts DEF CallersOK
<1> QED
  BY <1>1, <1>2, <1>3, <1>4, <1>5, <1>6, CallStep DEF ClosingPcs, Relying, Undoing

LEMMA PinIInv ==
  ASSUME IInv, NEW c \in Streams, Pin(c)
  PROVE  IInv'
<1>0. c \in Callers /\ c # Closer /\ caller[c].pc = "pin"
  BY Parts DEF Callers, Pin
<1>1. PICK success \in BOOLEAN : Leave(c, success)
  BY DEF Pin, Loaded, Alive
<1>2. Moves(c, Left(c, success)) /\ LifecycleTyped
  BY <1>0, <1>1, LeaveMoves, Parts DEF InCall
<1>3. ServiceKept /\ \A s \in Streams \ {c} : pinned'[s] = pinned[s]
  BY <1>0, Faults, Parts DEF ServiceKept, Pin, TypeOK
<1>4. Left(c, success) = "idle"
  BY <1>0 DEF Left
<1> QED
  BY <1>0, <1>2, <1>3, <1>4, CallStep DEF Relying, Undoing

LEMMA EnterIInv ==
  ASSUME IInv, NEW c \in Callers, Enter(c)
  PROVE  IInv'
<1>0. /\ caller[c].pc = "enter" /\ UNCHANGED <<service, closing, pinned>>
      /\ faults' \in 0..MaxFaults
      /\ c # Closer
  BY Faults, Parts DEF Enter, CallersOK, ClosingPcs
<1>1. CASE \E success \in BOOLEAN : Leave(c, success)
  BY <1>0, <1>1, LeaveIInv DEF InCall, Undoing
<1>2. CASE /\ IF c = Keeper THEN ~Loaded /\ Alive ELSE StillReady(c)
           /\ ~Refused
           /\ GoTo(c, "await") /\ UNCHANGED <<lock, lifecycle>>
  <2>1. Moves(c, "await") /\ LifecycleTyped
    BY <1>0, <1>2, GoToMoves, SameLifecycle, Parts DEF InCall, Pcs
  <2>2. ServiceKept /\ \A s \in Streams : pinned'[s] = pinned[s]
    BY <1>0, Kept, Parts
  <2>3. ~closing /\ ~restartBlocked
    BY <1>2 DEF Refused, Closing
  <2>4. \A d \in Callers : caller[d].pc \notin Undoing
    BY <1>0, Alone, Parts DEF Undoing, InCall
  <2>5. NoTask
    BY <2>3, <2>4, Parts DEF TasksOK, NoTask
  <2>6. Alive => process = generation
    BY <2>3, <2>4, Parts DEF Current, Undoing
  <2>7. c \in Streams /\ Alive => children[process].loaded /\ process = pinned'[c]
    BY <1>2, <2>2, <2>6, Parts DEF StillReady, FlagOK
  <2> QED
    BY <1>0, <2>1, <2>2, <2>5, <2>6, <2>7, CallStep DEF Undoing
<1>3. CASE c = Keeper /\ Recycle(c, TRUE)
  BY <1>0, <1>3, RecycleIInv DEF InCall
<1> QED
  BY <1>1, <1>2, <1>3 DEF Enter

LEMMA AwaitIInv ==
  ASSUME IInv, NEW c \in Callers, Await(c)
  PROVE  IInv'
<1>0. /\ caller[c].pc = "await" /\ UNCHANGED <<service, closing, pinned, lock>>
      /\ faults' \in 0..MaxFaults /\ c # Closer /\ GoTo(c, "send")
  BY Faults, Parts DEF Await, CallersOK, ClosingPcs
<1>1. Moves(c, "send") /\ LifecycleTyped
  BY <1>0, GoToMoves, SameLifecycle, Parts DEF InCall, Pcs, Await
<1>2. ServiceKept /\ \A s \in Streams : pinned'[s] = pinned[s]
  BY <1>0, Kept, Parts
<1>3. NoTask
  BY <1>0, Parts DEF TasksOK, NoTask
<1>4. Alive => process = generation /\ (c \in Streams => children[process].loaded
                                                        /\ process = pinned'[c])
  BY <1>0, <1>2, Parts DEF Relied, Relying
<1> QED
  BY <1>0, <1>1, <1>2, <1>3, <1>4, CallStep DEF Undoing

LEMMA AwaitTimeoutIInv ==
  ASSUME IInv, NEW c \in Callers, AwaitTimeout(c)
  PROVE  IInv'
<1>0. /\ caller[c].pc = "await" /\ UNCHANGED <<service, closing, pinned>>
      /\ faults' \in 0..MaxFaults /\ c # Closer
  BY Faults, Parts DEF AwaitTimeout, CallersOK, ClosingPcs
<1>1. CASE Leave(c, FALSE)
  BY <1>0, <1>1, LeaveIInv DEF InCall, Undoing
<1>2. CASE Recycle(c, FALSE)
  BY <1>0, <1>2, RecycleIInv DEF InCall
<1> QED
  BY <1>1, <1>2 DEF AwaitTimeout

LEMMA ExpireIInv ==
  ASSUME IInv, NEW c \in Callers, Expire(c)
  PROVE  IInv'
<1>0. /\ caller[c].pc = "await" /\ UNCHANGED <<service, closing, pinned>>
      /\ faults' \in 0..MaxFaults /\ c # Closer /\ Recycle(c, FALSE)
  BY Faults, Parts DEF Expire, CallersOK, ClosingPcs
<1> QED
  BY <1>0, RecycleIInv DEF InCall

LEMMA NoAnswerIInv ==
  ASSUME IInv, NEW c \in Callers, NoAnswer(c)
  PROVE  IInv'
<1>0. /\ caller[c].pc = "poll" /\ UNCHANGED <<service, closing, pinned>>
      /\ faults' \in 0..MaxFaults /\ c # Closer
  BY Faults, Parts DEF NoAnswer, NoFault, CallersOK, ClosingPcs
<1>1. CASE closing /\ Leave(c, FALSE)
  BY <1>0, <1>1, LeaveIInv DEF InCall, Undoing
<1>2. CASE Recycle(c, FALSE)
  BY <1>0, <1>2, RecycleIInv DEF InCall
<1> QED
  BY <1>1, <1>2 DEF NoAnswer, Closing, DropLate

-----------------------------------------------------------------------------
(* The preload thread, the streams, shutdown. *)

LEMMA BeginAttemptIInv ==
  ASSUME IInv, BeginAttempt
  PROVE  IInv'
<1>0. /\ Keeper \in Callers /\ caller[Keeper].pc = "idle"
      /\ UNCHANGED <<service, closing, pinned, lock, stopping>> /\ faults' \in 0..MaxFaults
  BY Faults, Parts DEF BeginAttempt, Callers
<1>1. ServiceKept /\ \A s \in Streams : pinned'[s] = pinned[s]
  BY <1>0, Kept, Parts
<1>2. PICK x \in {"idle", "queue"} : Moves(Keeper, x) /\ LifecycleTyped
  <2>1. CASE stopping
    <3>1. LifecycleTyped
      BY <1>0, <2>1, SupervisedAssumption, Parts DEF BeginAttempt, LifecycleTyped, TypeOK
    <3>2. Moves(Keeper, "idle")
      BY <1>0, <2>1, Parts DEF BeginAttempt, Moves, TypeOK, CallersOK, InCall, Pcs
    <3> QED
      BY <3>1, <3>2
  <2>2. CASE ~stopping
    <3>1. LifecycleTyped
      BY <1>0, <2>2, Parts DEF BeginAttempt, LifecycleTyped, TypeOK, Statuses
    <3>2. Moves(Keeper, "queue")
      BY <1>0, <2>2, GoToMoves, Parts DEF BeginAttempt, InCall, Pcs
    <3> QED
      BY <3>1, <3>2
  <2> QED
    BY <2>1, <2>2
<1> QED
  BY <1>0, <1>1, <1>2, CallStep, Parts DEF Relying, Undoing

\* Only the lifecycle of the preload thread moves.
LEMMA LifecycleStep ==
  ASSUME IInv, LifecycleTyped, UNCHANGED <<service, closing, lock, caller, pinned, faults>>
  PROVE  IInv'
<1>1. TypeOK'
  BY Parts DEF TypeOK, LifecycleTyped, service
<1>2. LockOK' /\ CallersOK' /\ LastStarted' /\ ChildrenOK' /\ TasksOK'
  BY Parts DEF LockOK, CallersOK, LastStarted, ChildrenOK, ChildOK, TasksOK, service
<1>3. Current' /\ FlagOK'
  BY Parts DEF Current, FlagOK, Loaded, Alive, service
<1>4. \A d \in Callers : Relied(d)'
  BY Parts DEF Relied, Alive, service
<1> QED
  BY <1>1, <1>2, <1>3, <1>4 DEF IInv, Promises

LEMMA WatchIInv ==
  ASSUME IInv, Watch
  PROVE  IInv'
<1>1. LifecycleTyped
  BY SupervisedAssumption, Parts DEF Watch, LifecycleTyped, TypeOK, Statuses
<1> QED
  BY <1>1, LifecycleStep DEF Watch

LEMMA RequestStopIInv ==
  ASSUME IInv, RequestStop
  PROVE  IInv'
<1>1. LifecycleTyped
  BY Parts DEF RequestStop, LifecycleTyped, TypeOK, Statuses
<1> QED
  BY <1>1, LifecycleStep DEF RequestStop

\* A call is queued.
LEMMA QueueIInv ==
  ASSUME IInv, NEW c \in Callers, caller[c].pc = "idle", GoTo(c, "queue"),
         UNCHANGED <<service, lock, pinned, lifecycle, faults>>,
         closing' \in BOOLEAN, closing => closing', c = Closer => closing'
  PROVE  IInv'
<1>1. Moves(c, "queue") /\ LifecycleTyped
  BY GoToMoves, SameLifecycle, Parts DEF InCall, Pcs
<1>2. ServiceKept /\ \A s \in Streams : pinned'[s] = pinned[s]
  BY Faults, Parts DEF ServiceKept, TypeOK
<1> QED
  BY <1>1, <1>2, CallStep DEF ClosingPcs, Relying, Undoing

LEMMA ConnectIInv ==
  ASSUME IInv, NEW s \in Streams, Connect(s) \/ Decode(s)
  PROVE  IInv'
<1>1. /\ s \in Callers /\ s # Closer /\ caller[s].pc = "idle" /\ GoTo(s, "queue")
      /\ UNCHANGED <<service, closing, lock, pinned, lifecycle, faults>>
      /\ closing \in BOOLEAN
  BY Parts DEF Connect, Decode, Callers, TypeOK
<1> QED
  BY <1>1, QueueIInv

LEMMA CloseIInv ==
  ASSUME IInv, Close
  PROVE  IInv'
BY QueueIInv DEF Close, Callers

LEMMA DisconnectIInv ==
  ASSUME IInv, NEW s \in Streams, Disconnect(s)
  PROVE  IInv'
<1>0. /\ s \in Callers /\ s # Closer /\ caller[s].pc = "idle"
      /\ UNCHANGED <<service, closing, lock, caller, lifecycle>> /\ faults' \in 0..MaxFaults
  BY Faults, Parts DEF Disconnect, Callers
<1>1. Moves(s, "idle") /\ LifecycleTyped
  BY <1>0, SameLifecycle, Parts DEF Moves, TypeOK, CallersOK, InCall, Pcs
<1>2. ServiceKept /\ \A r \in Streams \ {s} : pinned'[r] = pinned[r]
  BY <1>0, Parts DEF ServiceKept, Disconnect, TypeOK
<1> QED
  BY <1>0, <1>1, <1>2, CallStep DEF Relying, Undoing

-----------------------------------------------------------------------------
(* Calls that give the child a task, take its answer or replace it. *)

LEMMA SendIInv ==
  ASSUME IInv, NEW c \in Callers, Send(c)
  PROVE  IInv'
<1>0. /\ caller[c].pc = "send" /\ c # Closer /\ faults' \in 0..MaxFaults
      /\ UNCHANGED <<generation, process, conn, connReady, acceptors, modelLoaded,
                     restartBlocked, closing, pinned>>
  BY Faults, Parts DEF Send, CallersOK, ClosingPcs
<1>1. CASE conn \notin DOMAIN children
  BY <1>0, <1>1, RecycleIInv, Parts DEF Send, InCall, service
<1>2. CASE conn \in DOMAIN children
  <2>1. /\ GoTo(c, "poll") /\ UNCHANGED <<lock, lifecycle>>
        /\ Update(conn, [children[conn] EXCEPT !.stage = "busy", !.job = c])
    BY <1>2 DEF Send
  <2>2. Moves(c, "poll") /\ LifecycleTyped
    BY <1>0, <2>1, GoToMoves, SameLifecycle, Parts DEF InCall, Pcs
  <2>3. /\ caller'[c].pc = "poll"
        /\ caller'[c].resume => c = Keeper
        /\ \A d \in Callers \ {c} : caller'[d] = caller[d]
    BY <2>2 DEF Moves
  <2>4. children[conn] \in Child /\ ChildOK(conn)
    BY <1>2, Parts DEF TypeOK, ChildrenOK
  <2>5. PICK child \in Child : /\ children' = [children EXCEPT ![conn] = child]
                               /\ child.stage = "busy" /\ child.job = c
                               /\ child.ok = children[conn].ok
                               /\ child.loaded = children[conn].loaded
    <3>1. [children[conn] EXCEPT !.stage = "busy", !.job = c] \in Child
      BY <2>4 DEF Child, Stages
    <3> QED
      BY <2>1, <2>4, <3>1 DEF Update, Child
  <2>6. DOMAIN children' = DOMAIN children
    BY <2>5
  <2>7. LockOK' /\ lock' \in Callers \cup {None}
    BY <2>2, MovesKeepLock, Parts
  <2>8. \A h \in DOMAIN children' : children'[h] \in Child
    BY <2>5, <2>6, Parts DEF TypeOK
  <2>9. TypeOK'
    BY <1>0, <2>2, <2>6, <2>7, <2>8, Parts DEF TypeOK, Moves, LifecycleTyped
  <2>10. CallersOK'
    BY <1>0, <2>3, <2>6, Parts DEF CallersOK, Callers
  <2>11. LastStarted'
    BY <1>0, <2>3, <2>6, Parts DEF LastStarted
  <2>12. ASSUME NEW h \in DOMAIN children' PROVE ChildOK(h)'
    <3>1. CASE h = conn
      BY <1>0, <2>4, <2>5, <3>1, Parts DEF ChildOK
    <3>2. CASE h # conn
      BY <1>0, <2>5, <2>6, <3>2, Parts DEF ChildrenOK, ChildOK
    <3> QED
      BY <3>1, <3>2
  <2>13. TasksOK'
    <3>1. \A d \in Callers \ {c} : caller[d].pc \notin InCall
      BY <1>0, Alone, Parts DEF InCall
    <3>2. \A d \in Callers : caller'[d].pc \notin {"await", "send"}
      BY <2>3, <3>1 DEF InCall
    <3>3. \E d \in Callers : caller'[d].pc \in Undoing
      BY <2>3 DEF Undoing
    <3> QED
      BY <3>2, <3>3 DEF TasksOK
  <2>14. \A h \in DOMAIN children : children[h].loaded => children'[h].loaded
    BY <2>5
  <2>15. Current' /\ FlagOK'
    <3>1. ASSUME NEW d \in Callers, caller[d].pc = "stop" PROVE caller'[d].pc = "stop"
      BY <1>0, <2>3, <3>1
    <3>2. Current'
      BY <1>0, <2>6, <3>1, Parts DEF Current, Alive
    <3> QED
      BY <1>0, <2>6, <2>14, <3>2, Parts DEF FlagOK, Loaded, Alive
  <2>16. ASSUME NEW d \in Callers PROVE Relied(d)'
    <3>1. CASE d = c
      BY <1>0, <2>3, <2>6, <2>14, <3>1, Parts DEF Relied, Relying, Alive
    <3>2. CASE d # c
      BY <1>0, <2>3, <2>6, <2>14, <3>2, Parts DEF Relied, Relying, Alive
    <3> QED
      BY <3>1, <3>2
  <2> QED
    BY <2>7, <2>9, <2>10, <2>11, <2>12, <2>13, <2>15, <2>16 DEF IInv, Promises, ChildrenOK
<1> QED
  BY <1>1, <1>2

LEMMA ReceiveIInv ==
  ASSUME IInv, NEW c \in Callers, Receive(c)
  PROVE  IInv'
<1>0. /\ caller[c].pc = "poll" /\ c # Closer /\ faults' \in 0..MaxFaults /\ Alive
      /\ UNCHANGED <<generation, process, conn, connReady, acceptors, restartBlocked, closing,
                     pinned>>
  BY Faults, Parts DEF Receive, CallersOK, ClosingPcs
<1>1. children[process] \in Child /\ ChildOK(process) /\ children[process].stage = "answered"
  BY <1>0, Parts DEF TypeOK, ChildrenOK, Alive, Receive
<1>2. PICK child \in Child : /\ children' = [children EXCEPT ![process] = child]
                             /\ child.stage = "idle" /\ child.job = None
                             /\ child.ok = children[process].ok
                             /\ child.loaded = children[process].loaded
  <2>1. [children[process] EXCEPT !.stage = "idle", !.job = None] \in Child
    BY <1>1 DEF Child, Stages
  <2> QED
    BY <1>1, <2>1 DEF Receive, Update, Child
<1>3. DOMAIN children' = DOMAIN children
  BY <1>2
<1>4. PICK x \in {"poll", "idle", "invalidate"} : Moves(c, x) /\ LifecycleTyped
  <2>1. CASE children[process].job # c
    <3>1. UNCHANGED <<caller, lock, lifecycle>>
      BY <2>1 DEF Receive
    <3>2. LifecycleTyped
      BY <3>1, SameLifecycle, Parts
    <3>3. Moves(c, "poll")
      BY <1>0, <3>1, Parts DEF Moves, TypeOK, LockOK, CallersOK, InCall, Pcs
    <3> QED
      BY <3>2, <3>3
  <2>2. CASE children[process].job = c /\ children[process].ok
    <3>1. Leave(c, TRUE)
      BY <2>2 DEF Receive
    <3> QED
      BY <1>0, <3>1, LeaveMoves, Parts DEF Left, InCall
  <2>3. CASE children[process].job = c /\ ~children[process].ok
    <3>1. Recycle(c, FALSE)
      BY <2>3 DEF Receive
    <3> QED
      BY <1>0, <3>1, RecycleMoves, Parts DEF InCall
  <2> QED
    BY <2>1, <2>2, <2>3
<1>5. modelLoaded' \in BOOLEAN /\ (modelLoaded' => modelLoaded \/ children[process].ok)
  BY <1>1, Parts DEF Receive, LoadedAfter, TypeOK, Child
<1>6. /\ caller'[c].pc = x
      /\ caller'[c].resume => c = Keeper
      /\ \A d \in Callers \ {c} : caller'[d] = caller[d]
  BY <1>4 DEF Moves
<1>7. LockOK' /\ lock' \in Callers \cup {None}
  BY <1>4, MovesKeepLock, Parts
<1>8. \A h \in DOMAIN children' : children'[h] \in Child
  BY <1>2, <1>3, Parts DEF TypeOK
<1>9. TypeOK'
  BY <1>0, <1>3, <1>4, <1>5, <1>7, <1>8, Parts DEF TypeOK, Moves, LifecycleTyped
<1>10. CallersOK'
  BY <1>0, <1>3, <1>6, Parts DEF CallersOK, Callers
<1>11. LastStarted'
  BY <1>0, <1>3, <1>6, Parts DEF LastStarted
<1>12. ASSUME NEW h \in DOMAIN children' PROVE ChildOK(h)' /\ children'[h].job = None
  <2>1. h = process
    BY <1>3, Parts DEF LastStarted
  <2> QED
    BY <1>0, <1>1, <1>2, <2>1, Parts DEF ChildOK, Alive
<1>13. TasksOK'
  BY <1>12 DEF TasksOK
<1>14. \A h \in DOMAIN children : children[h].loaded => children'[h].loaded
  BY <1>2
<1>15. \A d \in Callers \ {c} : caller[d].pc \notin InCall
  BY <1>0, Alone, Parts DEF InCall
<1>16. Current'
  <2>1. ~\E d \in Callers : caller[d].pc = "stop"
    BY <1>0, <1>15 DEF InCall
  <2> QED
    BY <1>0, <1>3, <2>1, Parts DEF Current, Alive
<1>17. FlagOK'
  <2>1. process = generation
    BY <1>0, Parts DEF Relied, Relying
  <2>2. children[process].ok => children[process].loaded
    BY <1>1 DEF ChildOK
  <2> QED
    BY <1>0, <1>3, <1>5, <1>14, <2>1, <2>2, Parts DEF FlagOK, Loaded, Alive
<1>18. ASSUME NEW d \in Callers PROVE Relied(d)'
  <2>1. CASE d = c
    <3>1. /\ process = generation
          /\ c \in Streams => children[process].loaded /\ process = pinned[c]
      BY <1>0, Parts DEF Relied, Relying
    <3> QED
      BY <1>0, <1>6, <1>14, <2>1, <3>1 DEF Relied, Alive
  <2>2. CASE d # c
    BY <1>6, <1>15, <2>2 DEF Relied, Relying, InCall
  <2> QED
    BY <2>1, <2>2
<1> QED
  BY <1>7, <1>9, <1>10, <1>11, <1>12, <1>13, <1>16, <1>17, <1>18 DEF IInv, Promises, ChildrenOK

LEMMA InvalidateIInv ==
  ASSUME IInv, NEW c \in Callers, Invalidate(c)
  PROVE  IInv'
<1>0. /\ caller[c].pc = "invalidate" /\ ~modelLoaded' /\ generation' = generation + 1
      /\ UNCHANGED <<process, children, conn, connReady, acceptors, restartBlocked, closing, lock,
                     pinned, lifecycle, faults>>
  BY DEF Invalidate
<1>1. Moves(c, "stop") /\ LifecycleTyped
  BY <1>0, GoToMoves, SameLifecycle, Parts DEF Invalidate, InCall, Pcs
<1>2. /\ caller'[c].pc = "stop"
      /\ caller'[c].resume => c = Keeper
      /\ \A d \in Callers \ {c} : caller'[d] = caller[d]
  BY <1>1 DEF Moves
<1>3. LockOK' /\ lock' \in Callers \cup {None}
  BY <1>1, MovesKeepLock, Parts
<1>4. TypeOK'
  <2>1. 1..generation \subseteq 1..generation' /\ generation' \in Nat \ {0}
    BY <1>0, Parts DEF TypeOK
  <2>2. /\ process' \in 1..generation' \cup {None} /\ conn' \in 1..generation' \cup {None}
        /\ DOMAIN children' \subseteq 1..generation' /\ DOMAIN acceptors' \subseteq 1..generation'
        /\ pinned' \in [Streams -> 1..generation' \cup {None}]
    BY <1>0, <2>1, Parts DEF TypeOK
  <2>3. {connReady, modelLoaded, restartBlocked, closing, stopping}' \subseteq BOOLEAN
    BY <1>0, Parts DEF TypeOK, Invalidate, lifecycle
  <2> QED
    BY <1>0, <1>1, <1>3, <2>1, <2>2, <2>3, Parts DEF TypeOK, Moves, LifecycleTyped
<1>5. CallersOK'
  <2>1. CASE c = Closer
    BY <1>0, <1>2, <2>1, Parts DEF CallersOK, ClosingPcs
  <2>2. CASE c # Closer
    <3>1. caller'[Closer] = caller[Closer]
      BY <2>2, <1>2 DEF Callers
    <3> QED
      BY <1>0, <1>2, <3>1, Parts DEF CallersOK
  <2> QED
    BY <2>1, <2>2
<1>6. LastStarted' /\ ChildrenOK'
  BY <1>0, <1>2, Parts DEF LastStarted, ChildrenOK, ChildOK
<1>7. TasksOK'
  <2>1. \E d \in Callers : caller'[d].pc \in Undoing
    BY <1>2 DEF Undoing
  <2> QED
    BY <1>0, <1>2, <2>1, Parts DEF TasksOK
<1>8. Current' /\ FlagOK'
  BY <1>0, <1>2 DEF Current, FlagOK, Loaded
<1>9. ASSUME NEW d \in Callers PROVE Relied(d)'
  <2>1. CASE d = c
    BY <1>0, <1>2, <2>1 DEF Relied, Relying
  <2>2. CASE d # c
    <3>1. caller[d].pc \notin InCall
      BY <1>0, <2>2, Alone, Parts DEF InCall
    <3> QED
      BY <1>2, <2>2, <3>1 DEF Relied, Relying, InCall
  <2> QED
    BY <2>1, <2>2
<1> QED
  BY <1>3, <1>4, <1>5, <1>6, <1>7, <1>8, <1>9 DEF IInv, Promises

LEMMA StopIInv ==
  ASSUME IInv, NEW c \in Callers, Stop(c)
  PROVE  IInv'
<1>0. /\ caller[c].pc = "stop" /\ faults' \in 0..MaxFaults
      /\ conn' = None /\ connReady' = FALSE /\ process' = None
      /\ UNCHANGED <<generation, modelLoaded, restartBlocked, closing, pinned>>
  BY Faults, Parts DEF Stop, NoFault, Detach
<1>1. /\ DOMAIN children' = {}
      /\ DOMAIN acceptors' \subseteq DOMAIN acceptors
      /\ \A g \in DOMAIN acceptors' : acceptors'[g] = "checked"
  BY Parts DEF Stop, Killed, WithoutChild, Detach, Restrict, LastStarted
<1>2. PICK x \in {"idle", "closed", "unclosed", "spawn", "await"} :
        Moves(c, x) /\ LifecycleTyped /\ (c = Closer => x \in {"closed", "unclosed"})
  <2>1. CASE GoTo(c, "spawn") /\ UNCHANGED <<lock, lifecycle>> /\ Restarts(c)
    BY <1>0, <2>1, GoToMoves, SameLifecycle, Parts DEF InCall, Pcs, Restarts
  <2>2. CASE GoTo(c, "await") /\ UNCHANGED <<lock, lifecycle>> /\ caller[c].resume
    BY <1>0, <2>2, GoToMoves, SameLifecycle, Parts DEF InCall, Pcs, CallersOK
  <2>3. CASE \E success \in BOOLEAN : Leave(c, success)
    BY <1>0, <2>3, LeaveMoves, Parts DEF InCall, Left
  <2> QED
    BY <2>1, <2>2, <2>3 DEF Stop
<1>3. /\ caller'[c].pc = x
      /\ caller'[c].resume => c = Keeper
      /\ \A d \in Callers \ {c} : caller'[d] = caller[d]
  BY <1>2 DEF Moves
<1>4. LockOK' /\ lock' \in Callers \cup {None}
  BY <1>2, MovesKeepLock, Parts
<1>5. TypeOK'
  <2>1. {connReady, modelLoaded, restartBlocked, closing, stopping}' \subseteq BOOLEAN
    BY <1>0, <1>2, Parts DEF TypeOK, LifecycleTyped
  <2> QED
    BY <1>0, <1>1, <1>2, <1>4, <2>1, Parts DEF TypeOK, Moves, LifecycleTyped
<1>6. CallersOK'
  <2>1. closing => closing'
    BY <1>0
  <2>2. CASE c = Closer
    BY <1>0, <1>1, <1>2, <1>3, <2>2, Parts DEF CallersOK, ClosingPcs
  <2>3. CASE c # Closer
    <3>1. caller'[Closer] = caller[Closer]
      BY <2>3, <1>3 DEF Callers
    <3> QED
      BY <1>0, <1>1, <1>3, <3>1, Parts DEF CallersOK
  <2> QED
    BY <2>2, <2>3
<1>7. LastStarted' /\ ChildrenOK' /\ TasksOK' /\ Current' /\ FlagOK' /\ ~Alive'
  BY <1>0, <1>1 DEF LastStarted, ChildrenOK, TasksOK, Current, FlagOK, Loaded, Alive
<1>8. ASSUME NEW d \in Callers PROVE Relied(d)'
  <2>1. CASE d = c
    BY <1>2, <1>3, <1>7, <2>1 DEF Relied
  <2>2. CASE d # c
    BY <1>0, <1>3, <1>7, <2>2, Alone, Parts DEF Relied, InCall
  <2> QED
    BY <2>1, <2>2
<1> QED
  BY <1>4, <1>5, <1>6, <1>7, <1>8 DEF IInv, Promises

LEMMA CannotStopIInv ==
  ASSUME IInv, NEW c \in Callers, CannotStop(c)
  PROVE  IInv'
<1>0. /\ caller[c].pc = "stop" /\ faults' \in 0..MaxFaults /\ restartBlocked' = TRUE
      /\ UNCHANGED <<generation, process, children, conn, connReady, acceptors, modelLoaded,
                     closing, pinned>>
  BY Faults, Parts DEF CannotStop
<1>1. Moves(c, Left(c, FALSE)) /\ LifecycleTyped
  BY <1>0, LeaveMoves, Parts DEF CannotStop, InCall
<1>2. Left(c, FALSE) = IF c = Closer THEN "unclosed" ELSE "idle"
  BY DEF Left
<1>3. /\ caller'[c].pc = Left(c, FALSE)
      /\ caller'[c].resume => c = Keeper
      /\ \A d \in Callers \ {c} : caller'[d] = caller[d]
  BY <1>1 DEF Moves
<1>4. LockOK' /\ lock' \in Callers \cup {None}
  BY <1>1, MovesKeepLock, Parts
<1>5. TypeOK'
  <2>1. {connReady, modelLoaded, restartBlocked, closing, stopping}' \subseteq BOOLEAN
    BY <1>0, <1>1, Parts DEF TypeOK, LifecycleTyped
  <2> QED
    BY <1>0, <1>1, <1>4, <2>1, Parts DEF TypeOK, Moves, LifecycleTyped
<1>6. CallersOK'
  <2>1. CASE c = Closer
    BY <1>0, <1>2, <1>3, <2>1, Parts DEF CallersOK, ClosingPcs
  <2>2. CASE c # Closer
    <3>1. caller'[Closer] = caller[Closer]
      BY <2>2, <1>3 DEF Callers
    <3> QED
      BY <1>0, <1>3, <3>1, Parts DEF CallersOK
  <2> QED
    BY <2>1, <2>2
<1>7. LastStarted' /\ ChildrenOK'
  BY <1>0, <1>2, <1>3, Parts DEF LastStarted, ChildrenOK, ChildOK
<1>8. TasksOK'
  BY <1>0, <1>2, <1>3, Parts DEF TasksOK
<1>9. Current' /\ FlagOK'
  BY <1>0, Parts DEF Current, FlagOK, Loaded, Alive
<1>10. ASSUME NEW d \in Callers PROVE Relied(d)'
  <2>1. CASE d = c
    BY <1>2, <1>3, <2>1 DEF Relied, Relying
  <2>2. CASE d # c
    BY <1>0, <1>3, <2>2, Parts DEF Relied, Alive
  <2> QED
    BY <2>1, <2>2
<1> QED
  BY <1>4, <1>5, <1>6, <1>7, <1>8, <1>9, <1>10 DEF IInv, Promises

LEMMA SpawnIInv ==
  ASSUME IInv, NEW c \in Callers, Spawn(c)
  PROVE  IInv'
<1>0. /\ caller[c].pc = "spawn" /\ c # Closer /\ faults' \in 0..MaxFaults
      /\ UNCHANGED <<closing, pinned>>
  BY Faults, Parts DEF Spawn, CallersOK, ClosingPcs
<1>1. CASE Closing
  BY <1>0, <1>1, LeaveIInv DEF Spawn, InCall, Undoing
<1>2. CASE ~Closing
  <2> DEFINE g == generation + 1
  <2>0. /\ ~closing /\ generation' = g /\ process' = g /\ conn' = None /\ connReady' = FALSE
        /\ modelLoaded' = FALSE /\ restartBlocked' = FALSE
    BY <1>2 DEF Spawn, Closing
  <2>1. DOMAIN children = {}
    <3>1. DOMAIN children \subseteq {None} /\ DOMAIN children \subseteq 1..generation
      BY <1>0, Parts DEF LastStarted, TypeOK
    <3>2. None \notin 1..generation
      BY Parts DEF TypeOK
    <3> QED
      BY <3>1, <3>2
  <2>2. DOMAIN children' = {g} /\ children'[g] = NewChild
    BY <1>2, <2>1 DEF Spawn
  <2>3. /\ DOMAIN acceptors' = DOMAIN acceptors \cup {g}
        /\ acceptors'[g] = "listening"
        /\ \A h \in DOMAIN acceptors' : acceptors'[h] \in {"listening", "checked"}
    BY <1>2, Parts DEF Spawn, TypeOK
  <2>4. PICK x \in {"idle", "await"} : Moves(c, x) /\ LifecycleTyped /\ (x = "await" => c = Keeper)
    <3>1. CASE GoTo(c, "await") /\ UNCHANGED <<lock, lifecycle>> /\ caller[c].resume
      BY <1>0, <3>1, GoToMoves, SameLifecycle, Parts DEF InCall, Pcs, CallersOK
    <3>2. CASE Leave(c, FALSE)
      BY <1>0, <3>2, LeaveMoves, Parts DEF InCall, Left
    <3> QED
      BY <1>2, <3>1, <3>2 DEF Spawn
  <2>5. /\ caller'[c].pc = x
        /\ caller'[c].resume => c = Keeper
        /\ \A d \in Callers \ {c} : caller'[d] = caller[d] /\ caller[d].pc \notin InCall
    BY <1>0, <2>4, Alone, Parts DEF Moves, InCall
  <2>6. LockOK' /\ lock' \in Callers \cup {None}
    BY <2>4, MovesKeepLock, Parts
  <2>7. TypeOK'
    <3>1. 1..generation \subseteq 1..generation' /\ generation' \in Nat \ {0} /\ g \in 1..generation'
      BY <2>0, Parts DEF TypeOK
    <3>2. /\ process' \in 1..generation' \cup {None} /\ conn' \in 1..generation' \cup {None}
          /\ DOMAIN children' \subseteq 1..generation' /\ DOMAIN acceptors' \subseteq 1..generation'
          /\ pinned' \in [Streams -> 1..generation' \cup {None}]
      BY <1>0, <2>0, <2>2, <2>3, <3>1, Parts DEF TypeOK
    <3>3. {connReady, modelLoaded, restartBlocked, closing, stopping}' \subseteq BOOLEAN
      BY <1>0, <2>0, <2>4, Parts DEF TypeOK, LifecycleTyped
    <3>4. \A h \in DOMAIN children' : children'[h] \in Child
      BY <2>2, FreshChild
    <3> QED
      BY <1>0, <2>3, <2>4, <2>6, <3>1, <3>2, <3>3, <3>4, Parts DEF TypeOK, Moves, LifecycleTyped
  <2>8. CallersOK'
    <3>1. caller'[Closer] = caller[Closer] /\ caller[Closer].pc = "idle"
      BY <1>0, <2>0, <2>5, Parts DEF CallersOK, Callers
    <3> QED
      BY <2>5, <3>1, Parts DEF CallersOK, ClosingPcs
  <2>9. LastStarted'
    BY <2>0, <2>2, <2>5 DEF LastStarted, InCall
  <2>10. ChildrenOK' /\ TasksOK'
    <3>1. NewChild.stage \notin {"busy", "answered"} /\ NewChild.job = None /\ ~NewChild.ok
      BY FreshChild
    <3>2. None # g
      BY Parts DEF TypeOK
    <3> QED
      BY <2>0, <2>2, <2>3, <3>1, <3>2 DEF ChildrenOK, ChildOK, TasksOK
  <2>11. Current' /\ FlagOK'
    BY <2>0 DEF Current, FlagOK, Loaded
  <2>12. ASSUME NEW d \in Callers PROVE Relied(d)'
    <3>1. CASE d = c
      BY <2>0, <2>4, <2>5, <3>1, Parts DEF Relied, Relying
    <3>2. CASE d # c
      BY <2>5, <3>2 DEF Relied, Relying, InCall
    <3> QED
      BY <3>1, <3>2
  <2> QED
    BY <2>6, <2>7, <2>8, <2>9, <2>10, <2>11, <2>12 DEF IInv, Promises
<1> QED
  BY <1>1, <1>2

-----------------------------------------------------------------------------
LEMMA NextIInv == IInv /\ [Next]_vars => IInv'
<1> SUFFICES ASSUME IInv, [Next]_vars PROVE IInv'
  OBVIOUS
<1>1. CASE UNCHANGED vars
  <2>1. LifecycleTyped
    BY <1>1, SameLifecycle, Parts DEF vars
  <2> QED
    BY <1>1, <2>1, LifecycleStep DEF vars
<1>2. ASSUME NEW g \in DOMAIN children, Work(g) \/ Crash(g) PROVE IInv'
  BY <1>2, WorkIInv, CrashIInv
<1>3. ASSUME NEW g \in DOMAIN children \cap DOMAIN acceptors, Dial(g) PROVE IInv'
  BY <1>3, DialIInv
<1>4. ASSUME NEW g \in DOMAIN acceptors, Publish(g) PROVE IInv'
  BY <1>4, PublishIInv
<1>5. ASSUME NEW c \in Callers, Proceed(c) PROVE IInv'
  BY <1>5, PinIInv, EnterIInv, AwaitIInv, ExpireIInv, SendIInv, ReceiveIInv, NoAnswerIInv,
     InvalidateIInv, StopIInv, SpawnIInv DEF Proceed
<1>6. ASSUME NEW c \in Callers, \/ Acquire(c) \/ LockTimeout(c) \/ AwaitTimeout(c) \/ CannotStop(c)
      PROVE  IInv'
  BY <1>6, AcquireIInv, LockTimeoutIInv, AwaitTimeoutIInv, CannotStopIInv
<1>7. CASE BeginAttempt \/ Watch \/ RequestStop \/ Close
  BY <1>7, BeginAttemptIInv, WatchIInv, RequestStopIInv, CloseIInv
<1>8. ASSUME NEW s \in Streams, Connect(s) \/ Decode(s) \/ Disconnect(s) PROVE IInv'
  BY <1>8, ConnectIInv, DisconnectIInv
<1> QED
  BY <1>1, <1>2, <1>3, <1>4, <1>5, <1>6, <1>7, <1>8 DEF Next

\* The invariant holds in every reachable state.
LEMMA AlwaysIInv == Spec => []IInv
BY InitIInv, NextIInv, PTL DEF Spec

-----------------------------------------------------------------------------
(* What the invariant promises. *)

LEMMA IInvSound == IInv => SupervisedSound
<1> SUFFICES ASSUME IInv PROVE SupervisedSound
  OBVIOUS
<1>1. OneChild
  <2>1. /\ IsFiniteSet({process}) /\ Cardinality({process}) = 1
        /\ DOMAIN children \subseteq {process}
    BY FS_Singleton, Parts DEF LastStarted
  <2> QED
    BY <2>1, FS_Subset DEF OneChild
<1>2. SingleFlight
  <2> SUFFICES ASSUME NEW c \in Callers, caller[c].pc = "send", conn \in DOMAIN children
               PROVE  children[conn].stage = "idle" /\ children[conn].job = None
    BY DEF SingleFlight
  <2>1. children[conn].job = None
    BY Parts DEF TasksOK
  <2>2. children[conn] \in Child /\ ChildOK(conn)
    BY Parts DEF TypeOK, ChildrenOK
  <2> QED
    BY <2>1, <2>2 DEF ChildOK, Child, Stages
<1>3. ReadyIsReal /\ ShutdownIsFinal
  BY Parts DEF ReadyIsReal, FlagOK, ShutdownIsFinal, CallersOK
<1> QED
  BY <1>1, <1>2, <1>3, Parts DEF SupervisedSound

\* For any number of streams, retries, deaths, missed deadlines and refused
\* kills: there is one child at most, whoever sends finds it free, a model
\* reported loaded is held by the child that would answer, and none is started
\* once shutdown has stopped the last (StreamingModelSupervisor).
THEOREM ServiceIsSound == Spec => []SupervisedSound
BY AlwaysIInv, IInvSound, PTL

\* A stream is decoded by the child it was accepted for, which holds the model
\* already, although the child may be replaced while the stream waits for the
\* lock (transcribe_loaded_array).
THEOREM NoStreamReloads == Spec => []NoColdReload
<1>1. IInv => NoColdReload
  <2> SUFFICES ASSUME IInv, NEW g \in DOMAIN children, NEW s \in Streams,
                      children[g].job = s, caller[s].pc = "poll"
               PROVE  children[g].loaded /\ g = pinned[s]
    BY DEF NoColdReload
  <2>1. g = process /\ Alive /\ s \in Callers
    BY Parts DEF LastStarted, Alive, Callers
  <2> QED
    BY <2>1, Parts DEF Relied, Relying
<1> QED
  BY <1>1, AlwaysIInv, PTL

=============================================================================
