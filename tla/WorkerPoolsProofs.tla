-------------------------- MODULE WorkerPoolsProofs --------------------------
(* Both transcription pools are sound and implement the abstract JobPool,   *)
(* for every number of requests, slots and faults.  The argument is one      *)
(* inductive invariant: slots and children are paired with the requests that *)
(* hold them, and nothing but a decoding of its own audio can turn into the  *)
(* answer of a job, whatever queue it lies in.                               *)
EXTENDS WorkerPools, FiniteSetTheorems, TLAPS

ProcessSteps == {"put", "wait"}
SharedSteps == {"register", "submit", "await", "recycle", "notify", "restart"}
Steps == {"new", "queue", "done"} \cup ProcessSteps \cup SharedSteps

-----------------------------------------------------------------------------
(* The inductive invariant. *)

\* No request is in a pool that was not built.
PoolsApart ==
  \A r \in Requests : /\ pc[r] \in ProcessSteps => backend = "process"
                      /\ pc[r] \in SharedSteps => backend = "shared"

\* A request holds a slot exactly while it uses its child, and holds it alone.
HoldersOK ==
  /\ \A r \in Requests : slot[r] # None <=> pc[r] \in ProcessSteps
  /\ \A r \in Requests : slot[r] # None => slot[r] \in busy
  /\ \A q, r \in Requests : slot[q] = slot[r] /\ slot[r] # None => q = r

\* A child that has a task has it from the holder of its slot; a good answer is
\* of audio it decoded.
ChildOK(s) ==
  /\ child[s].stage \in {"busy", "answered"} <=> child[s].job # None
  /\ child[s].job # None => slot[child[s].job] = s
  /\ child[s].ok => child[s].job \in decoded

ChildrenOK == \A s \in Slots : ChildOK(s)

\* What is on its way through the shared pool is of a request that entered it,
\* and good only if it was decoded.
MailOK ==
  /\ \A r \in tasks : pc[r] \notin {"new", "queue"}
  /\ \A result \in results : result.kind = "ok" => result.job \in decoded
  /\ \A r \in Requests : mail[r] # None /\ mail[r] = "ok" => r \in decoded

IInv == TypeOK /\ PoolsApart /\ HoldersOK /\ ChildrenOK /\ MailOK

LEMMA FreshChildren ==
  /\ NewChild \in Child /\ NewChild.stage = "idle" /\ NewChild.job = None /\ ~NewChild.ok
  /\ DeadChild \in Child /\ DeadChild.stage = "dead" /\ DeadChild.job = None /\ ~DeadChild.ok
<1>1. /\ NewChild \in Child /\ NewChild.stage = "idle" /\ NewChild.job = None /\ ~NewChild.ok
  BY DEF NewChild, Child
<1>2. /\ DeadChild \in Child /\ DeadChild.stage = "dead"
      /\ DeadChild.job = NewChild.job /\ DeadChild.ok = NewChild.ok
  BY <1>1 DEF DeadChild, Child
<1> QED
  BY <1>1, <1>2

LEMMA InitIInv == Init => IInv
<1> SUFFICES ASSUME Init PROVE IInv
  OBVIOUS
<1>1. TypeOK
  <2>1. backend \in Backends /\ timed \in BOOLEAN /\ alive \in BOOLEAN
    BY PoolAssumption DEF Init
  <2>2. child \in [Slots -> Child]
    BY FreshChildren DEF Init
  <2> QED
    BY <2>1, <2>2, PoolAssumption DEF Init, TypeOK
<1>2. PoolsApart /\ HoldersOK /\ MailOK
  BY DEF Init, PoolsApart, HoldersOK, MailOK, ProcessSteps, SharedSteps
<1>3. ChildrenOK
  BY FreshChildren DEF Init, ChildrenOK, ChildOK
<1> QED
  BY <1>1, <1>2, <1>3 DEF IInv

-----------------------------------------------------------------------------
(* What a step that moves one request leaves true. *)

\* One request moves to a step of the pool that was built.
Moves(r, x) ==
  /\ pc' = [pc EXCEPT ![r] = x]
  /\ x \in Steps
  /\ x \in ProcessSteps => backend = "process"
  /\ x \in SharedSteps => backend = "shared"

LEMMA MoveType ==
  ASSUME TypeOK, NEW r \in Requests, NEW x, Moves(r, x)
  PROVE  pc' \in [Requests -> Steps]
BY DEF TypeOK, Moves, Steps, ProcessSteps, SharedSteps

LEMMA MoveKeepsApart ==
  ASSUME TypeOK, PoolsApart, NEW r \in Requests, NEW x, Moves(r, x), UNCHANGED backend
  PROVE  PoolsApart'
BY DEF TypeOK, PoolsApart, Moves

LEMMA SameHolders ==
  ASSUME TypeOK, HoldersOK, NEW r \in Requests, NEW x, Moves(r, x),
         pc[r] \in ProcessSteps <=> x \in ProcessSteps, UNCHANGED <<busy, slot>>
  PROVE  HoldersOK'
BY DEF TypeOK, HoldersOK, Moves

LEMMA SameChildren ==
  ASSUME ChildrenOK, UNCHANGED <<slot, child>>, decoded \subseteq decoded'
  PROVE  ChildrenOK'
BY DEF ChildrenOK, ChildOK

LEMMA SameMail ==
  ASSUME TypeOK, MailOK, NEW r \in Requests, NEW x, Moves(r, x), x = "queue" => pc[r] = "new",
         x # "new", UNCHANGED <<tasks, results, mail>>, decoded \subseteq decoded'
  PROVE  MailOK'
BY DEF TypeOK, MailOK, Moves

\* The slot goes back to the pool with its child free of tasks.
LEMMA ReleaseKeeps ==
  ASSUME TypeOK, HoldersOK, ChildrenOK, NEW r \in Requests, slot[r] # None, NEW how,
         ReleaseSlot(r, how), NEW c \in Child, c.job = None, c.stage \in {"dead", "idle"}, ~c.ok,
         child' = [child EXCEPT ![slot[r]] = c], UNCHANGED decoded
  PROVE  HoldersOK' /\ ChildrenOK'
<1>1. /\ pc' = [pc EXCEPT ![r] = "done"] /\ slot' = [slot EXCEPT ![r] = None]
      /\ busy' = busy \ {slot[r]} /\ slot[r] \in Slots
  BY DEF ReleaseSlot, Released, End, TypeOK
<1>2. HoldersOK'
  BY <1>1 DEF TypeOK, HoldersOK, ProcessSteps
<1>3. ASSUME NEW s \in Slots PROVE ChildOK(s)'
  <2>1. CASE s = slot[r]
    BY <1>1, <2>1 DEF TypeOK, ChildOK
  <2>2. CASE s # slot[r]
    BY <1>1, <2>2 DEF TypeOK, ChildrenOK, ChildOK
  <2> QED
    BY <2>1, <2>2
<1> QED
  BY <1>2, <1>3 DEF ChildrenOK

-----------------------------------------------------------------------------
(* The process pool. *)

LEMMA AcquireSlotIInv ==
  ASSUME IInv, NEW r \in Requests, AcquireSlot(r)
  PROVE  IInv'
<1>1. TypeOK /\ PoolsApart /\ HoldersOK /\ ChildrenOK /\ MailOK
  BY DEF IInv
<1>2. PICK s \in Slots \ busy :
        /\ busy' = busy \cup {s}
        /\ \/ /\ slot' = [slot EXCEPT ![r] = s] /\ GoTo(r, "put") /\ UNCHANGED outcome
              /\ UNCHANGED faults
              /\ child' = child \/ child' = [child EXCEPT ![s] = NewChild]
           \/ Fault /\ End(r, "unspawned") /\ UNCHANGED <<slot, child>>
  BY DEF AcquireSlot, FreeSlots, NoFault
<1>3. /\ backend = "process" /\ pc[r] = "queue" /\ UNCHANGED <<poolVars, decoded, sharedVars>>
  BY DEF AcquireSlot
<1>4. Moves(r, "put") \/ Moves(r, "done")
  BY <1>2, <1>3 DEF Moves, GoTo, End, Steps, ProcessSteps, SharedSteps
<1>5. slot[r] = None /\ \A q \in Requests : slot[q] # s
  BY <1>1, <1>2, <1>3, PoolAssumption DEF TypeOK, HoldersOK, ProcessSteps
<1>6. child[s].job = None
  BY <1>1, <1>5, PoolAssumption DEF TypeOK, Child, ChildrenOK, ChildOK
<1>7. TypeOK'
  <2>1. /\ child' \in [Slots -> Child] /\ slot' \in [Requests -> Slots \cup {None}]
        /\ busy' \subseteq Slots
    BY <1>1, <1>2, FreshChildren DEF TypeOK
  <2>2. faults' \in 0..MaxFaults
    BY <1>1, <1>2, PoolAssumption DEF TypeOK, Fault
  <2>3. outcome' \in [Requests -> Outcomes \cup {None}]
    BY <1>1, <1>2 DEF TypeOK, End, Outcomes
  <2> QED
    BY <1>1, <1>3, <1>4, <2>1, <2>2, <2>3
       DEF TypeOK, Moves, Steps, ProcessSteps, SharedSteps, poolVars, sharedVars
<1>8. PoolsApart' /\ MailOK'
  BY <1>1, <1>3, <1>4, MoveKeepsApart, SameMail DEF poolVars, sharedVars
<1>9. HoldersOK'
  BY <1>1, <1>2, <1>3, <1>5, PoolAssumption
     DEF TypeOK, HoldersOK, GoTo, End, ProcessSteps
<1>10. ASSUME NEW t \in Slots PROVE ChildOK(t)'
  <2>1. \A q \in Requests : slot[q] = t => slot'[q] = t
    BY <1>1, <1>2, <1>5, PoolAssumption DEF TypeOK
  <2>2. CASE child'[t] = child[t]
    BY <1>1, <1>3, <2>1, <2>2 DEF TypeOK, Child, ChildrenOK, ChildOK
  <2>3. CASE t = s /\ child' = [child EXCEPT ![s] = NewChild]
    BY <1>1, <2>3, FreshChildren DEF TypeOK, ChildOK
  <2> QED
    BY <1>1, <1>2, <2>2, <2>3 DEF TypeOK
<1> QED
  BY <1>7, <1>8, <1>9, <1>10 DEF IInv, ChildrenOK

LEMMA PutTaskIInv ==
  ASSUME IInv, NEW r \in Requests, PutTask(r)
  PROVE  IInv'
<1> DEFINE task == [stage |-> "busy", job |-> r, ok |-> FALSE]
<1>1. TypeOK /\ PoolsApart /\ HoldersOK /\ ChildrenOK /\ MailOK
  BY DEF IInv
<1>2. /\ backend = "process" /\ pc[r] = "put" /\ slot[r] \in Slots
      /\ child' = child \/ child' = [child EXCEPT ![slot[r]] = task]
      /\ pc' = [pc EXCEPT ![r] = "wait"]
      /\ UNCHANGED <<poolVars, outcome, decoded, faults, busy, slot, sharedVars>>
  BY <1>1 DEF PutTask, GoTo, TypeOK, HoldersOK, ProcessSteps
<1>3. Moves(r, "wait")
  BY <1>2 DEF Moves, Steps, ProcessSteps, SharedSteps
<1>4. task \in Child /\ task.stage = "busy" /\ task.job = r /\ ~task.ok
  BY DEF Child
<1>5. TypeOK'
  BY <1>1, <1>2, <1>4 DEF TypeOK, poolVars, sharedVars
<1>6. PoolsApart' /\ MailOK' /\ HoldersOK'
  BY <1>1, <1>2, <1>3, MoveKeepsApart, SameMail, SameHolders DEF poolVars, sharedVars, ProcessSteps
<1>7. ASSUME NEW t \in Slots PROVE ChildOK(t)'
  <2> HIDE DEF task
  <2> QED
    BY <1>1, <1>2, <1>4, PoolAssumption DEF TypeOK, ChildrenOK, ChildOK
<1> QED
  BY <1>5, <1>6, <1>7 DEF IInv, ChildrenOK

\* A child finishes its task, or dies.
LEMMA ChildIInv ==
  ASSUME IInv, NEW s \in Slots, ChildWorks(s) \/ ChildCrashes(s)
  PROVE  IInv'
<1>1. TypeOK /\ PoolsApart /\ HoldersOK /\ ChildrenOK /\ MailOK /\ child[s] \in Child
  BY DEF IInv, TypeOK
<1>2. UNCHANGED <<poolVars, pc, outcome, busy, slot, sharedVars>>
  BY DEF ChildWorks, ChildCrashes
<1>3. faults' \in 0..MaxFaults
  BY <1>1, PoolAssumption DEF ChildWorks, ChildCrashes, Fault, NoFault, TypeOK
<1>4. PICK c \in Child :
        /\ child' = [child EXCEPT ![s] = c]
        /\ \/ c = DeadChild /\ decoded' = decoded
           \/ /\ c.stage = "answered" /\ c.job = child[s].job /\ child[s].stage = "busy"
              /\ \/ decoded' = decoded /\ c.ok = child[s].ok
                 \/ decoded' = decoded \cup {child[s].job}
  <2>1. CASE ChildCrashes(s)
    BY <2>1, FreshChildren DEF ChildCrashes
  <2>2. CASE ChildWorks(s)
    <3>1. [child[s] EXCEPT !.stage = "answered"] \in Child
          /\ [child[s] EXCEPT !.stage = "answered", !.ok = TRUE] \in Child
      BY <1>1 DEF Child
    <3>2. CASE child' = [child EXCEPT ![s].stage = "answered", ![s].ok = TRUE]
               /\ decoded' = decoded \cup {child[s].job}
      <4>1. child' = [child EXCEPT ![s] = [child[s] EXCEPT !.stage = "answered", !.ok = TRUE]]
        BY <3>2, <1>1 DEF TypeOK
      <4> QED
        BY <2>2, <3>1, <3>2, <4>1, <1>1 DEF ChildWorks, Child
    <3>3. CASE child' = [child EXCEPT ![s].stage = "answered"] /\ UNCHANGED decoded
      <4>1. child' = [child EXCEPT ![s] = [child[s] EXCEPT !.stage = "answered"]]
        BY <3>3, <1>1 DEF TypeOK
      <4> QED
        BY <2>2, <3>1, <3>3, <4>1, <1>1 DEF ChildWorks, Child
    <3> QED
      BY <2>2, <3>2, <3>3 DEF ChildWorks
  <2> QED
    BY <2>1, <2>2
<1>5. child[s].stage = "busy" => child[s].job \in Requests
  BY <1>1 DEF ChildrenOK, ChildOK, Child
<1>6. TypeOK'
  BY <1>1, <1>2, <1>3, <1>4, <1>5 DEF TypeOK, poolVars, sharedVars
<1>7. PoolsApart' /\ HoldersOK'
  BY <1>1, <1>2 DEF PoolsApart, HoldersOK, poolVars
<1>8. MailOK'
  BY <1>1, <1>2, <1>4 DEF MailOK, sharedVars
<1>9. ASSUME NEW t \in Slots PROVE ChildOK(t)'
  BY <1>1, <1>2, <1>4, FreshChildren DEF TypeOK, ChildrenOK, ChildOK
<1> QED
  BY <1>6, <1>7, <1>8, <1>9 DEF IInv, ChildrenOK

\* The three ways a request gives its slot back.
LEMMA ReleaseIInv ==
  ASSUME IInv, NEW r \in Requests, TakeAnswer(r) \/ SeeCrash(r) \/ MissDeadline(r)
  PROVE  IInv'
<1>1. TypeOK /\ PoolsApart /\ HoldersOK /\ ChildrenOK /\ MailOK
  BY DEF IInv
<1>2. /\ pc[r] = "wait" /\ slot[r] \in Slots /\ slot[r] # None
      /\ UNCHANGED <<poolVars, decoded, sharedVars>> /\ faults' \in 0..MaxFaults
  BY <1>1, PoolAssumption
     DEF TakeAnswer, SeeCrash, MissDeadline, TypeOK, HoldersOK, ProcessSteps, Fault, NoFault
<1>3. PICK how \in Outcomes : ReleaseSlot(r, how)
  BY DEF TakeAnswer, SeeCrash, MissDeadline, Outcomes
<1>4. PICK c \in Child : /\ child' = [child EXCEPT ![slot[r]] = c]
                         /\ c.job = None /\ c.stage \in {"dead", "idle"} /\ ~c.ok
  <2>1. CASE child' = [child EXCEPT ![slot[r]] = NewChild]
    BY <2>1, FreshChildren
  <2>2. CASE SeeCrash(r) /\ UNCHANGED child
    <3>1. /\ child' = [child EXCEPT ![slot[r]] = child[slot[r]]]
          /\ child[slot[r]] \in Child /\ child[slot[r]].stage = "dead"
      BY <2>2, <1>1, <1>2 DEF SeeCrash, TypeOK
    <3>2. child[slot[r]].job = None
      BY <3>1, <1>1, <1>2 DEF ChildrenOK, ChildOK
    <3>3. ~child[slot[r]].ok
      BY <3>2, <1>1, <1>2, PoolAssumption DEF ChildrenOK, ChildOK, TypeOK
    <3> QED
      BY <3>1, <3>2, <3>3
  <2> QED
    BY <2>1, <2>2 DEF TakeAnswer, SeeCrash, MissDeadline, Replacement
<1>5. HoldersOK' /\ ChildrenOK'
  BY <1>1, <1>2, <1>3, <1>4, ReleaseKeeps
<1>6. Moves(r, "done")
  BY <1>3 DEF ReleaseSlot, End, Moves, Steps, ProcessSteps, SharedSteps
<1>7. TypeOK'
  BY <1>1, <1>2, <1>3, <1>4 DEF TypeOK, ReleaseSlot, Released, End, poolVars, sharedVars
<1>8. PoolsApart' /\ MailOK'
  BY <1>1, <1>2, <1>6, MoveKeepsApart, SameMail DEF poolVars, sharedVars
<1> QED
  BY <1>5, <1>7, <1>8 DEF IInv

-----------------------------------------------------------------------------
(* The shared pool. *)

\* A step of the shared pool leaves slots and children alone; a request it moves
\* stays out of the process pool.
LEMMA SharedMoveKeeps ==
  ASSUME IInv, NEW r \in Requests, NEW x \in SharedSteps \cup {"done"}, Moves(r, x),
         pc[r] \notin ProcessSteps, UNCHANGED <<backend, decoded, busy, slot, child>>
  PROVE  PoolsApart' /\ HoldersOK' /\ ChildrenOK'
<1>1. x \notin ProcessSteps
  BY DEF SharedSteps, ProcessSteps
<1> QED
  BY <1>1, MoveKeepsApart, SameHolders, SameChildren DEF IInv

\* Steps that move one request and leave the queues alone.
LEMMA QuietIInv ==
  ASSUME IInv, NEW r \in Requests,
         \/ AcquirePermit(r) \/ Register(r) \/ ReadMail(r) \/ MailTimeout(r) \/ Recycle(r)
  PROVE  IInv'
<1>1. TypeOK /\ PoolsApart /\ MailOK
  BY DEF IInv
<1>2. /\ backend = "shared" /\ pc[r] \notin ProcessSteps
      /\ UNCHANGED <<poolVars, decoded, processVars, generation, mail, seen, tasks, results>>
  BY <1>1 DEF AcquirePermit, Register, ReadMail, MailTimeout, Recycle, PoolsApart, ProcessSteps,
              SharedSteps, sharedVars
<1>3. PICK x \in SharedSteps \cup {"done"} : Moves(r, x)
  BY <1>2 DEF AcquirePermit, Register, ReadMail, MailTimeout, Recycle, GoTo, Unregister, End, Moves,
              Steps, ProcessSteps, SharedSteps
<1>4. PoolsApart' /\ HoldersOK' /\ ChildrenOK'
  BY <1>2, <1>3, SharedMoveKeeps DEF poolVars, processVars
<1>5. MailOK'
  BY <1>1, <1>2, <1>3, SameMail DEF SharedSteps
<1>6. TypeOK'
  <2>1. pc' \in [Requests -> Steps]
    BY <1>1, <1>3, MoveType
  <2>2. outcome' \in [Requests -> Outcomes \cup {None}]
    <3>1. mail[r] \in {"ok", "error", "recycled", None}
      BY <1>1 DEF TypeOK
    <3> QED
      BY <1>1, <3>1 DEF TypeOK, AcquirePermit, Register, ReadMail, MailTimeout, Recycle, Unregister,
                        End, Outcomes
  <2>3. faults' \in 0..MaxFaults
    BY <1>1, PoolAssumption DEF TypeOK, AcquirePermit, Register, ReadMail, MailTimeout, Recycle, Fault,
                                NoFault
  <2>4. /\ alive' \in {alive, FALSE} /\ restarter' \in {restarter, r}
        /\ pending' \subseteq pending \cup {r}
    BY DEF AcquirePermit, Register, ReadMail, MailTimeout, Recycle, Unregister, sharedVars
  <2>5. queue' \in [Requests -> 0..generation]
    BY <1>1 DEF TypeOK, AcquirePermit, Register, ReadMail, MailTimeout, Recycle, sharedVars
  <2> QED
    BY <1>1, <1>2, <2>1, <2>2, <2>3, <2>4, <2>5
       DEF TypeOK, Steps, ProcessSteps, SharedSteps, poolVars, processVars
<1> QED
  BY <1>4, <1>5, <1>6 DEF IInv

LEMMA SubmitIInv ==
  ASSUME IInv, NEW r \in Requests, Submit(r)
  PROVE  IInv'
<1>1. TypeOK /\ PoolsApart /\ MailOK
  BY DEF IInv
<1>2. /\ backend = "shared" /\ pc[r] = "submit"
      /\ UNCHANGED <<poolVars, decoded, faults, processVars, generation, alive, mail, queue, results,
                     restarter>>
      /\ tasks' \subseteq tasks \cup {r}
  BY <1>1 DEF Submit, PoolsApart, SharedSteps
<1>3. PICK x \in {"await", "done"} : Moves(r, x)
  BY <1>2 DEF Submit, GoTo, Unregister, End, Moves, Steps, ProcessSteps, SharedSteps
<1>4. PoolsApart' /\ HoldersOK' /\ ChildrenOK'
  BY <1>2, <1>3, SharedMoveKeeps DEF poolVars, processVars, SharedSteps, ProcessSteps
<1>5. MailOK'
  BY <1>1, <1>2, <1>3 DEF TypeOK, MailOK, Moves
<1>6. TypeOK'
  <2>1. pc' \in [Requests -> Steps]
    BY <1>1, <1>3, MoveType
  <2>2. outcome' \in [Requests -> Outcomes \cup {None}]
    BY <1>1 DEF TypeOK, Submit, Unregister, End, Outcomes
  <2>3. seen' \in [Requests -> 0..generation] /\ pending' \subseteq Requests
    BY <1>1 DEF TypeOK, Submit, Unregister
  <2> QED
    BY <1>1, <1>2, <2>1, <2>2, <2>3
       DEF TypeOK, Steps, ProcessSteps, SharedSteps, poolVars, processVars
<1> QED
  BY <1>4, <1>5, <1>6 DEF IInv

\* The supervisor finishes a job or dies, the thread distributes a result, the
\* restarting caller tells the others.
LEMMA SupervisorIInv ==
  ASSUME IInv,
         (\E r \in Requests : SupervisorWorks(r)) \/ SupervisorCrashes \/ Demux
  PROVE  IInv'
<1>1. TypeOK /\ PoolsApart /\ HoldersOK /\ ChildrenOK /\ MailOK
  BY DEF IInv
<1>2. UNCHANGED <<poolVars, pc, outcome, processVars, generation, pending, queue, seen, restarter>>
  BY DEF SupervisorWorks, SupervisorCrashes, Demux
<1>3. decoded \subseteq decoded' /\ decoded' \subseteq Requests
  BY <1>1 DEF SupervisorWorks, SupervisorCrashes, Demux, TypeOK
<1>4. PoolsApart' /\ HoldersOK' /\ ChildrenOK'
  BY <1>1, <1>2, <1>3, SameChildren DEF PoolsApart, HoldersOK, poolVars, processVars
<1>5. CASE Demux
  <2>1. PICK result \in results :
          /\ results' = results \ {result}
          /\ mail' = [r \in Requests |->
                        IF r \in Receiver(result) /\ mail[r] = None THEN result.kind ELSE mail[r]]
          /\ UNCHANGED <<decoded, faults, alive, tasks>>
    BY <1>5 DEF Demux
  <2>2. result.kind \in {"ok", "error", "recycled"} /\ (result.kind = "ok" => result.job \in decoded)
    BY <1>1, <2>1 DEF TypeOK, Answers, MailOK
  <2>3. TypeOK'
    BY <1>1, <1>2, <2>1, <2>2 DEF TypeOK, poolVars, processVars
  <2>4. MailOK'
    BY <1>1, <1>2, <2>1, <2>2 DEF MailOK, Receiver
  <2> QED
    BY <1>4, <2>3, <2>4 DEF IInv
<1>6. ASSUME NEW r \in Requests, SupervisorWorks(r) PROVE IInv'
  <2>1. /\ tasks' = tasks \ {r} /\ UNCHANGED <<mail, alive>>
        /\ \/ results' = results \cup {[job |-> r, kind |-> "ok"]} /\ r \in decoded'
           \/ results' = results \cup {[job |-> r, kind |-> "error"]}
    BY <1>6 DEF SupervisorWorks
  <2>2. faults' \in 0..MaxFaults
    BY <1>1, <1>6, PoolAssumption DEF TypeOK, SupervisorWorks, Fault, NoFault
  <2>3. TypeOK'
    BY <1>1, <1>2, <1>3, <2>1, <2>2 DEF TypeOK, Answers, poolVars, processVars
  <2>4. MailOK'
    BY <1>1, <1>2, <1>3, <2>1 DEF MailOK
  <2> QED
    BY <1>4, <2>3, <2>4 DEF IInv
<1>7. CASE SupervisorCrashes
  <2>1. TypeOK'
    <3>1. faults' \in 0..MaxFaults
      BY <1>1, <1>7, PoolAssumption DEF TypeOK, SupervisorCrashes, Fault
    <3> QED
      BY <1>1, <1>2, <1>3, <1>7, <3>1 DEF TypeOK, SupervisorCrashes, poolVars, processVars
  <2>2. MailOK'
    BY <1>1, <1>7 DEF MailOK, SupervisorCrashes
  <2> QED
    BY <1>4, <2>1, <2>2 DEF IInv
<1> QED
  BY <1>5, <1>6, <1>7

\* The steps of the restart after a missed deadline.
LEMMA RestartIInv ==
  ASSUME IInv, NEW r \in Requests, Notify(r) \/ Restart(r)
  PROVE  IInv'
<1>1. TypeOK /\ PoolsApart /\ MailOK
  BY DEF IInv
<1>2. /\ backend = "shared" /\ pc[r] \in {"notify", "restart"}
      /\ UNCHANGED <<poolVars, decoded, faults, processVars, queue, seen>>
  BY <1>1 DEF Notify, Restart, PoolsApart, SharedSteps
<1>3. PICK x \in {"restart", "done"} : Moves(r, x)
  BY <1>2 DEF Notify, Restart, GoTo, Unregister, End, Moves, Steps, ProcessSteps, SharedSteps
<1>4. PoolsApart' /\ HoldersOK' /\ ChildrenOK'
  BY <1>2, <1>3, SharedMoveKeeps DEF poolVars, processVars, SharedSteps, ProcessSteps
<1>5. mail' \in [Requests -> {"ok", "error", "recycled", None}]
      /\ \A q \in Requests : mail'[q] # None /\ mail'[q] = "ok" => q \in decoded
  BY <1>1 DEF TypeOK, MailOK, Notify, Restart
<1>6. /\ tasks' \subseteq tasks /\ results' \subseteq results /\ pending' \subseteq pending
      /\ restarter' \in {restarter, None} /\ alive' \in {alive, TRUE}
      /\ generation' \in {generation, generation + 1}
  BY DEF Notify, Restart, Unregister
<1>7. MailOK'
  BY <1>1, <1>2, <1>3, <1>5, <1>6 DEF TypeOK, MailOK, Moves
<1>8. TypeOK'
  <2>1. pc' \in [Requests -> Steps]
    BY <1>1, <1>3, MoveType
  <2>2. outcome' \in [Requests -> Outcomes \cup {None}]
    BY <1>1 DEF TypeOK, Notify, Restart, Unregister, End, Outcomes
  <2>3. /\ generation' \in Nat /\ generation <= generation'
        /\ queue' \in [Requests -> 0..generation'] /\ seen' \in [Requests -> 0..generation']
    BY <1>1, <1>2, <1>6 DEF TypeOK
  <2> QED
    BY <1>1, <1>2, <1>5, <1>6, <2>1, <2>2, <2>3
       DEF TypeOK, Steps, ProcessSteps, SharedSteps, poolVars, processVars
<1> QED
  BY <1>4, <1>7, <1>8 DEF IInv

-----------------------------------------------------------------------------
\* A request enters the pool or is turned away.
LEMMA ArrivalIInv ==
  ASSUME IInv, NEW r \in Requests, Call(r) \/ Reject(r)
  PROVE  IInv'
<1>1. TypeOK /\ PoolsApart /\ HoldersOK /\ ChildrenOK /\ MailOK
  BY DEF IInv
<1>2. pc[r] = "new" /\ UNCHANGED <<poolVars, decoded, faults, processVars, sharedVars>>
  BY DEF Call, Reject
<1>3. PICK x \in {"queue", "done"} : Moves(r, x)
  BY DEF Call, Reject, GoTo, End, Moves, Steps, ProcessSteps, SharedSteps
<1>4. PoolsApart' /\ HoldersOK' /\ ChildrenOK' /\ MailOK'
  BY <1>1, <1>2, <1>3, MoveKeepsApart, SameHolders, SameChildren, SameMail
     DEF poolVars, processVars, sharedVars, ProcessSteps
<1>5. outcome' \in [Requests -> Outcomes \cup {None}]
  BY <1>1 DEF TypeOK, Call, Reject, End, Outcomes
<1>6. TypeOK'
  BY <1>1, <1>2, <1>3, <1>5
     DEF TypeOK, Moves, Steps, ProcessSteps, SharedSteps, poolVars, processVars, sharedVars
<1> QED
  BY <1>4, <1>6 DEF IInv

LEMMA NextIInv == IInv /\ [Next]_vars => IInv'
<1> SUFFICES ASSUME IInv, [Next]_vars PROVE IInv'
  OBVIOUS
<1>1. CASE UNCHANGED vars
  BY <1>1 DEF vars, poolVars, processVars, sharedVars, IInv, TypeOK, PoolsApart, HoldersOK,
              ChildrenOK, ChildOK, MailOK
<1>2. CASE Next
  BY <1>2, AcquireSlotIInv, PutTaskIInv, ChildIInv, ReleaseIInv, QuietIInv, SubmitIInv,
     SupervisorIInv, RestartIInv, ArrivalIInv DEF Next, Serve
<1> QED
  BY <1>1, <1>2

LEMMA AlwaysIInv == Spec => []IInv
BY InitIInv, NextIInv, PTL DEF Spec

\* Slots, children and jobs go together in both pools: a child never works for
\* a request that has gone, whatever crashed, was late or was replaced.
THEOREM PoolIsSound == Spec => []PoolSound
<1>1. IInv => PoolSound
  BY DEF IInv, ChildrenOK, ChildOK, PoolSound, ChildServesHolder, TypeOK, Child
<1> QED
  BY <1>1, AlwaysIInv, PTL

-----------------------------------------------------------------------------
(* The refinement: every step is one of JobPool, or leaves it unchanged. *)

StateMap == [r \in Requests |-> JobState(r)]

ActiveSteps == ProcessSteps \cup SharedSteps

LEMMA JobStates ==
  ASSUME TypeOK, NEW r \in Requests
  PROVE  /\ pc[r] \in {"new", "queue"} => JobState(r) = "new"
         /\ pc[r] \in ActiveSteps => JobState(r) = "active"
         /\ pc[r] = "done" /\ outcome[r] = "ok" => JobState(r) = "answered"
         /\ pc[r] = "done" /\ outcome[r] # "ok" => JobState(r) = "failed"
         /\ pc[r] \in {"new", "queue", "done"} \cup ActiveSteps
BY DEF TypeOK, JobState, ActiveSteps, ProcessSteps, SharedSteps

\* A request moves on inside the pool, or before it.
LEMMA MoveInside ==
  ASSUME TypeOK, TypeOK', NEW r \in Requests, NEW x, pc' = [pc EXCEPT ![r] = x], UNCHANGED outcome,
         \/ pc[r] \in ActiveSteps /\ x \in ActiveSteps
         \/ pc[r] = "new" /\ x = "queue"
  PROVE  StateMap' = StateMap
<1> SUFFICES ASSUME NEW q \in Requests PROVE JobState(q)' = JobState(q)
  BY DEF StateMap
<1>1. CASE q # r
  BY <1>1 DEF TypeOK, JobState
<1>2. CASE q = r
  BY <1>2 DEF TypeOK, JobState, ActiveSteps, ProcessSteps, SharedSteps
<1> QED
  BY <1>1, <1>2

LEMMA MoveIn ==
  ASSUME TypeOK, TypeOK', NEW r \in Requests, NEW x \in ActiveSteps, pc' = [pc EXCEPT ![r] = x],
         UNCHANGED outcome
  PROVE  StateMap' = [StateMap EXCEPT ![r] = "active"]
<1> SUFFICES ASSUME NEW q \in Requests
             PROVE  JobState(q)' = IF q = r THEN "active" ELSE JobState(q)
  BY DEF StateMap
<1>1. CASE q # r
  BY <1>1 DEF TypeOK, JobState
<1>2. CASE q = r
  BY <1>2 DEF TypeOK, JobState, ActiveSteps, ProcessSteps, SharedSteps
<1> QED
  BY <1>1, <1>2

LEMMA MoveOut ==
  ASSUME TypeOK, TypeOK', NEW r \in Requests, NEW how, End(r, how)
  PROVE  StateMap' = [StateMap EXCEPT ![r] = IF how = "ok" THEN "answered" ELSE "failed"]
<1> SUFFICES ASSUME NEW q \in Requests
             PROVE  JobState(q)' = IF q = r THEN IF how = "ok" THEN "answered" ELSE "failed"
                                   ELSE JobState(q)
  BY DEF StateMap
<1>1. CASE q # r
  BY <1>1 DEF TypeOK, JobState, End
<1>2. CASE q = r
  BY <1>2 DEF TypeOK, JobState, End
<1> QED
  BY <1>1, <1>2

\* The active jobs of the abstract pool are those that hold a permit ...
LEMMA ActiveAreHolding ==
  ASSUME TypeOK
  PROVE  Abstract!ActiveJobs = {r \in Requests : pc[r] \in ActiveSteps} /\ Abstract!ActiveJobs = Holding
<1>1. ASSUME NEW r \in Requests
      PROVE  /\ StateMap[r] = "active" <=> pc[r] \in ActiveSteps
             /\ pc[r] \in ActiveSteps <=> pc[r] \notin {"new", "queue", "done"}
  <2>1. ActiveSteps \cap {"new", "queue", "done"} = {}
    BY DEF ActiveSteps, ProcessSteps, SharedSteps
  <2> QED
    BY <2>1, JobStates DEF StateMap
<1> QED
  BY <1>1 DEF Abstract!ActiveJobs, StateMap, Holding

\* ... and those of the process pool hold a slot each, so that a free slot means
\* room in the pool.
LEMMA FreeSlotIsRoom ==
  ASSUME IInv, backend = "process", NEW s \in FreeSlots
  PROVE  Cardinality(Abstract!ActiveJobs) < Cardinality(Slots)
<1> DEFINE Active == {r \in Requests : pc[r] \in ActiveSteps}
           held == [r \in Active |-> slot[r]]
<1>1. TypeOK /\ PoolsApart /\ HoldersOK /\ s \in Slots \ busy
  BY DEF IInv, FreeSlots
<1>2. \A r \in Active : slot[r] # None /\ slot[r] \in Slots \ {s}
  BY <1>1 DEF TypeOK, PoolsApart, HoldersOK, ActiveSteps, ProcessSteps, SharedSteps
<1>3. held \in Injection(Active, Slots \ {s})
  BY <1>1, <1>2 DEF HoldersOK, Injection, IsInjective
<1>4. /\ IsFiniteSet(Slots) /\ IsFiniteSet(Slots \ {s})
      /\ Cardinality(Slots \ {s}) = Cardinality(Slots) - 1
  BY <1>1, PoolAssumption, FS_RemoveElement
<1>5. /\ IsFiniteSet(Active) /\ Cardinality(Active) <= Cardinality(Slots \ {s})
  BY <1>3, <1>4, FS_Injection
<1>6. Cardinality(Active) \in Nat /\ Cardinality(Slots) \in Nat
  BY <1>4, <1>5, FS_CardinalityType
<1> HIDE DEF Active
<1>7. Cardinality(Active) < Cardinality(Slots)
  BY <1>4, <1>5, <1>6
<1> QED
  BY <1>1, <1>7, ActiveAreHolding DEF Active

LEMMA InitIsAbstract == Init => Abstract!JobInit
BY DEF Init, Abstract!JobInit, JobState

\* Steps of one request inside the pool, and steps of nobody.
LEMMA StutterSteps ==
  ASSUME IInv, IInv', NEW r \in Requests,
         \/ Call(r) \/ PutTask(r) \/ Register(r) \/ MailTimeout(r) \/ Notify(r)
         \/ Demux \/ SupervisorCrashes \/ (\E s \in Slots : ChildCrashes(s)) \/ UNCHANGED vars
  PROVE  UNCHANGED Abstract!jobVars
<1>1. TypeOK /\ TypeOK' /\ UNCHANGED decoded
  BY DEF IInv, Call, PutTask, Register, MailTimeout, Notify, Demux, SupervisorCrashes, ChildCrashes,
         vars
<1>2. CASE UNCHANGED <<pc, outcome>>
  BY <1>1, <1>2 DEF Abstract!jobVars, JobState
<1>3. CASE Call(r) \/ PutTask(r) \/ Register(r) \/ MailTimeout(r) \/ Notify(r)
  <2>1. PICK x : /\ pc' = [pc EXCEPT ![r] = x] /\ UNCHANGED outcome
                 /\ \/ pc[r] \in ActiveSteps /\ x \in ActiveSteps
                    \/ pc[r] = "new" /\ x = "queue"
    <3>1. CASE Call(r)
      BY <3>1 DEF Call, GoTo
    <3>2. CASE PutTask(r) \/ Register(r) \/ MailTimeout(r) \/ Notify(r)
      BY <3>2 DEF PutTask, Register, MailTimeout, Notify, GoTo, ActiveSteps, ProcessSteps, SharedSteps
    <3> QED
      BY <1>3, <3>1, <3>2
  <2>2. StateMap' = StateMap
    BY <1>1, <2>1, MoveInside
  <2> QED
    BY <1>1, <2>2 DEF Abstract!jobVars, StateMap
<1> QED
  BY <1>2, <1>3 DEF Demux, SupervisorCrashes, ChildCrashes, vars

LEMMA SameCardinality == \A S : Abstract!Cardinality(S) = Cardinality(S)
BY DEF Abstract!Cardinality, Cardinality

\* A slot or a permit lets a job in.
LEMMA EnterStep ==
  ASSUME IInv, IInv', NEW r \in Requests, AcquireSlot(r) \/ AcquirePermit(r), pc'[r] # "done"
  PROVE  Abstract!Enter(r)
<1>1. TypeOK /\ TypeOK' /\ UNCHANGED decoded /\ pc[r] = "queue"
  BY DEF IInv, AcquireSlot, AcquirePermit
<1>2. PICK x \in ActiveSteps : pc' = [pc EXCEPT ![r] = x] /\ UNCHANGED outcome
  BY <1>1 DEF AcquireSlot, AcquirePermit, GoTo, End, TypeOK, ActiveSteps, ProcessSteps, SharedSteps
<1>3. StateMap' = [StateMap EXCEPT ![r] = "active"]
  BY <1>1, <1>2, MoveIn
<1>4. StateMap[r] = "new"
  BY <1>1, JobStates DEF StateMap
<1>5. Cardinality(Abstract!ActiveJobs) < Cardinality(Slots)
  <2>1. CASE AcquireSlot(r)
    BY <2>1, FreeSlotIsRoom DEF AcquireSlot
  <2>2. CASE AcquirePermit(r)
    BY <1>1, <2>2, ActiveAreHolding DEF AcquirePermit, PermitLeft
  <2> QED
    BY <2>1, <2>2
<1> QED
  <2>1. UNCHANGED decoded /\ StateMap[r] = "new" /\ StateMap' = [StateMap EXCEPT ![r] = "active"]
    BY <1>1, <1>3, <1>4
  <2> QED
    BY <1>5, <2>1, SameCardinality DEF Abstract!Enter, StateMap

\* A job ends as answered only when its own audio was decoded.
LEMMA EndStep ==
  ASSUME IInv, IInv', NEW r \in Requests, NEW how, End(r, how), UNCHANGED decoded,
         pc[r] \in {"new", "queue"} \cup ActiveSteps,
         how = "ok" => pc[r] \in ActiveSteps /\ r \in decoded
  PROVE  Abstract!Answer(r) \/ Abstract!Fail(r)
<1>1. TypeOK /\ TypeOK'
  BY DEF IInv
<1>2. StateMap' = [StateMap EXCEPT ![r] = IF how = "ok" THEN "answered" ELSE "failed"]
  BY <1>1, MoveOut
<1>3. StateMap[r] \in {"new", "active"} /\ (pc[r] \in ActiveSteps => StateMap[r] = "active")
  BY <1>1, JobStates DEF StateMap
<1> QED
  BY <1>2, <1>3 DEF Abstract!Answer, Abstract!Fail, StateMap

LEMMA EndingSteps ==
  ASSUME IInv, IInv', NEW r \in Requests,
         \/ Reject(r) \/ TakeAnswer(r) \/ SeeCrash(r) \/ MissDeadline(r)
         \/ ReadMail(r) \/ Restart(r)
         \/ (AcquireSlot(r) \/ Submit(r) \/ Recycle(r)) /\ pc'[r] = "done"
  PROVE  Abstract!Answer(r) \/ Abstract!Fail(r)
<1>1. TypeOK /\ HoldersOK /\ ChildrenOK /\ MailOK /\ UNCHANGED decoded
  BY DEF IInv, Reject, AcquireSlot, TakeAnswer, SeeCrash, MissDeadline, ReadMail, Restart, Submit,
         Recycle, processVars
<1>2. PICK how : End(r, how) /\ (how = "ok" => pc[r] \in {"wait", "await"} /\ r \in decoded)
  <2>1. CASE TakeAnswer(r)
    <3>1. /\ pc[r] = "wait" /\ slot[r] \in Slots /\ child[slot[r]].job = r
          /\ End(r, IF child[slot[r]].ok THEN "ok" ELSE "error")
      BY <1>1, <2>1 DEF TakeAnswer, ReleaseSlot, TypeOK, HoldersOK, ProcessSteps
    <3> QED
      BY <1>1, <3>1 DEF ChildrenOK, ChildOK
  <2>2. CASE ReadMail(r)
    BY <1>1, <2>2 DEF ReadMail, Unregister, MailOK
  <2>3. CASE Reject(r) \/ SeeCrash(r) \/ MissDeadline(r) \/ Restart(r)
    BY <2>3 DEF Reject, SeeCrash, MissDeadline, ReleaseSlot, Restart, Unregister
  <2>4. CASE (AcquireSlot(r) \/ Submit(r) \/ Recycle(r)) /\ pc'[r] = "done"
    BY <1>1, <2>4 DEF AcquireSlot, Submit, Recycle, GoTo, Unregister, TypeOK
  <2> QED
    BY <2>1, <2>2, <2>3, <2>4
<1>3. pc[r] \in {"new", "queue"} \cup ActiveSteps
  BY DEF Reject, AcquireSlot, TakeAnswer, SeeCrash, MissDeadline, ReadMail, Restart, Submit, Recycle,
         ActiveSteps, ProcessSteps, SharedSteps
<1>4. {"wait", "await"} \subseteq ActiveSteps
  BY DEF ActiveSteps, ProcessSteps, SharedSteps
<1> QED
  BY <1>1, <1>2, <1>3, <1>4, EndStep

\* A job is handed to the supervisor, or its caller becomes the one to restart it.
LEMMA ForwardSteps ==
  ASSUME IInv, IInv', NEW r \in Requests, Submit(r) \/ Recycle(r), pc'[r] # "done"
  PROVE  UNCHANGED Abstract!jobVars
<1>1. TypeOK /\ TypeOK' /\ UNCHANGED decoded
  BY DEF IInv, Submit, Recycle
<1>2. PICK x : /\ pc' = [pc EXCEPT ![r] = x] /\ UNCHANGED outcome
               /\ pc[r] \in ActiveSteps /\ x \in ActiveSteps
  BY <1>1 DEF Submit, Recycle, GoTo, Unregister, End, TypeOK, ActiveSteps, ProcessSteps, SharedSteps
<1>3. StateMap' = StateMap
  BY <1>1, <1>2, MoveInside
<1> QED
  BY <1>1, <1>3 DEF Abstract!jobVars, StateMap

\* A child or the supervisor decodes the audio of a job that was let in.
LEMMA DecodeSteps ==
  ASSUME IInv, NEW r \in Requests, SupervisorWorks(r) \/ \E s \in Slots : ChildWorks(s)
  PROVE  (\E j \in Requests : Abstract!Decode(j)) \/ UNCHANGED Abstract!jobVars
<1>1. TypeOK /\ HoldersOK /\ ChildrenOK /\ MailOK /\ UNCHANGED <<pc, outcome>>
  BY DEF IInv, SupervisorWorks, ChildWorks
<1>2. StateMap' = StateMap
  BY <1>1 DEF StateMap, JobState
<1>3. ASSUME NEW j \in Requests, decoded' = decoded \cup {j}, pc[j] \notin {"new", "queue"}
      PROVE  Abstract!Decode(j)
  <2>1. StateMap[j] # "new"
    BY <1>1, <1>3, JobStates DEF StateMap
  <2> QED
    BY <1>2, <1>3, <2>1 DEF Abstract!Decode, StateMap
<1>4. CASE SupervisorWorks(r)
  BY <1>1, <1>2, <1>3, <1>4 DEF SupervisorWorks, MailOK, Abstract!jobVars, StateMap
<1>5. ASSUME NEW s \in Slots, ChildWorks(s)
      PROVE  (\E j \in Requests : Abstract!Decode(j)) \/ UNCHANGED Abstract!jobVars
  <2>1. child[s].job \in Requests /\ slot[child[s].job] = s
    BY <1>1, <1>5 DEF ChildWorks, ChildrenOK, ChildOK, TypeOK, Child
  <2>2. pc[child[s].job] \notin {"new", "queue"}
    BY <1>1, <2>1, PoolAssumption DEF HoldersOK, ProcessSteps
  <2> QED
    BY <1>2, <1>3, <1>5, <2>1, <2>2 DEF ChildWorks, Abstract!jobVars, StateMap
<1> QED
  BY <1>4, <1>5

LEMMA NextIsAbstract == IInv /\ IInv' /\ [Next]_vars => [Abstract!JobNext]_Abstract!jobVars
<1> SUFFICES ASSUME IInv, IInv', [Next]_vars
             PROVE  Abstract!JobNext \/ UNCHANGED Abstract!jobVars
  OBVIOUS
<1>1. ASSUME NEW r \in Requests,
             Call(r) \/ Reject(r) \/ Serve(r) \/ MissDeadline(r) \/ MailTimeout(r)
             \/ SupervisorWorks(r)
      PROVE  Abstract!JobNext \/ UNCHANGED Abstract!jobVars
  <2>1. CASE Call(r) \/ PutTask(r) \/ Register(r) \/ MailTimeout(r) \/ Notify(r)
    BY <2>1, StutterSteps
  <2>2. CASE Reject(r) \/ TakeAnswer(r) \/ SeeCrash(r) \/ MissDeadline(r) \/ ReadMail(r) \/ Restart(r)
    BY <2>2, EndingSteps DEF Abstract!JobNext
  <2>3. CASE AcquireSlot(r) \/ AcquirePermit(r)
    <3>1. AcquirePermit(r) => pc'[r] # "done"
      BY DEF AcquirePermit, GoTo, IInv, TypeOK
    <3> QED
      BY <2>3, <3>1, EnterStep, EndingSteps DEF Abstract!JobNext
  <2>4. CASE Submit(r) \/ Recycle(r)
    BY <2>4, EndingSteps, ForwardSteps DEF Abstract!JobNext
  <2>5. CASE SupervisorWorks(r)
    BY <2>5, DecodeSteps DEF Abstract!JobNext
  <2> QED
    BY <1>1, <2>1, <2>2, <2>3, <2>4, <2>5 DEF Serve
<1>2. CASE \E s \in Slots : ChildWorks(s) \/ ChildCrashes(s)
  <2>1. CASE Requests = {}
    BY <1>2, <2>1 DEF ChildWorks, ChildCrashes, IInv, TypeOK, Abstract!jobVars, JobState
  <2>2. CASE Requests # {}
    BY <1>2, <2>2, StutterSteps, DecodeSteps DEF Abstract!JobNext
  <2> QED
    BY <2>1, <2>2
<1>3. CASE SupervisorCrashes \/ Demux \/ UNCHANGED vars
  BY <1>3 DEF SupervisorCrashes, Demux, vars, Abstract!jobVars, JobState
<1> QED
  BY <1>1, <1>2, <1>3 DEF Next

\* Whichever pool was built, with its children, queues, deadlines, crashes and
\* restarts, its callers see a bounded pool that answers a job with what was
\* decoded from its own audio, or fails it.
THEOREM PoolsImplementJobPool == Spec => ImplementsPool
BY InitIsAbstract, NextIsAbstract, AlwaysIInv, PTL DEF Spec, ImplementsPool, Abstract!JobSpec

=============================================================================
