----------------------------- MODULE SessionAudio -----------------------------
(***************************************************************************)
(* The audio of a session in live-stt-service: the gateway's windows are   *)
(* kept in memory until it finishes the session, a background batch then   *)
(* takes them, has a child process find the speakers, and publishes who    *)
(* spoke in which window.  Windows arrive in any order, twice, altered or  *)
(* not at all; a session may overflow its cap or be swept while idle; the  *)
(* finish may be repeated; one batch runs at a time; a child may outlive   *)
(* its kill.                                                               *)
(***************************************************************************)
EXTENDS Integers, FiniteSets, FiniteSetsExt

CONSTANTS
  Keys,            \* session keys
  Windows,         \* the window_seq of all windows
  WindowsOf,       \* the windows of each session
  Size,            \* samples in each version of a window
  PerMs,           \* samples in a millisecond
  Finishes,        \* finish requests
  Cap,             \* cap_bytes, in samples
  MaxSessions,     \* max_sessions
  Retries,         \* vram_retry_attempts
  None,            \* Python None
  MaxFaults        \* bound: altered windows, sweeps, failing children, kills and XADDs

Contents == {"sent", "altered"}

\* A window in one version.
Pieces == Windows \X Contents

SessionAssumption ==
  /\ Windows \subseteq Nat /\ IsFiniteSet(Windows)
  /\ Size \in [Pieces -> Nat] /\ PerMs \in Nat \ {0}
  /\ WindowsOf \in [Keys -> SUBSET Windows] /\ None \notin Finishes \cup Keys \cup {"sent", "altered"}
  /\ None \notin [chunks : [Windows -> {"sent", "altered", None}], cancelled : BOOLEAN]
  /\ {Cap, MaxSessions, Retries, MaxFaults} \subseteq Nat /\ MaxSessions > 0

VARIABLES
  session,         \* _sessions: None, or the windows and the tombstone of a key
  heard,           \* history: the pieces delivered since the key's entry was made
  pc,              \* where the thread of each finish is
  key,             \* the session it is about
  audio,           \* what it was handed out
  attempt,         \* which diarization attempt it is in
  child,           \* its child process
  survivors,       \* how many children outlived their kill and may still have the model
  flight,          \* the thread inside the single_flight semaphore
  published,       \* the attribution events in the stream
  faults

threadVars == <<pc, key, audio, attempt, child, survivors, flight, published>>
vars == <<session, heard, faults, threadVars>>

-----------------------------------------------------------------------------
Chunks == [Windows -> Contents \cup {None}]

NoChunks == [w \in Windows |-> None]

\* The windows with audio, with their version, and how much of it there is.
Held(chunks) == {w \in Windows : chunks[w] # None}

Audio(chunks) == {<<w, chunks[w]>> : w \in Held(chunks)}

Samples(pieces) == MapThenSumSet(LAMBDA p : Size[p], pieces)

\* What the gateway forwarded of the session, and counted meanwhile.
Whole(k) == {p \in WindowsOf[k] \X {"sent"} : Size[p] > 0}

Expected(k) == Samples(Whole(k))

Open == {k \in Keys : session[k] # None}

Fault == faults < MaxFaults /\ faults' = faults + 1

NoFault == UNCHANGED faults

-----------------------------------------------------------------------------
Before(w, pieces) == {p \in pieces : p[1] < w}

\* The range of a window on the timeline of the joined pieces, in milliseconds.
Span(w, pieces) ==
  [start |-> Samples(Before(w, pieces)) \div PerMs, end |-> Samples(Before(w + 1, pieces)) \div PerMs]

\* finish: the windows in their order; one whose range is empty is left out.
TimeMap(chunks) ==
  LET span == [w \in Held(chunks) |-> Span(w, Audio(chunks))]
  IN  [w \in {v \in Held(chunks) : span[v].start < span[v].end} |-> span[w]]

\* Mutant: the later of two versions of a window wins.
LastOneWins(entry, w, c) ==
  IF entry.cancelled \/ entry.chunks[w] = c \/ Size[<<w, c>>] = 0 THEN entry
  ELSE IF Samples(Audio(entry.chunks) \cup {<<w, c>>}) > Cap THEN [chunks |-> NoChunks, cancelled |-> TRUE]
  ELSE [entry EXCEPT !.chunks[w] = c]

\* append: a cancelled session stays so, an empty window or the same again changes
\* nothing, another version of it or too much audio drops everything.
Appended(entry, w, c) ==
  IF entry.cancelled \/ Size[<<w, c>>] = 0 \/ entry.chunks[w] = c THEN entry
  ELSE IF entry.chunks[w] # None \/ Samples(Audio(entry.chunks) \cup {<<w, c>>}) > Cap
  THEN [chunks |-> NoChunks, cancelled |-> TRUE]
  ELSE [entry EXCEPT !.chunks[w] = c]

\* A window reaches _maybe_store_session_window, also late or again.  A new key
\* is refused while the store is full.
StoreWindow(k, w) ==
  /\ k \in Open \/ Cardinality(Open) < MaxSessions
  /\ \E c \in Contents :
       LET entry == IF k \in Open THEN session[k] ELSE [chunks |-> NoChunks, cancelled |-> FALSE]
       IN  /\ session' = [session EXCEPT ![k] = Appended(entry, w, c)]
           /\ heard' = [heard EXCEPT ![k] = @ \cup {p \in {<<w, c>>} : Size[p] > 0}]
           /\ IF c = "altered" THEN Fault ELSE NoFault
  /\ UNCHANGED threadVars

\* The janitor drops the sessions idle for too long; clear drops all of them.
Sweep ==
  /\ Fault
  /\ \E stale \in SUBSET Open \ {{}} :
       /\ session' = [k \in Keys |-> IF k \in stale THEN None ELSE session[k]]
       /\ heard' = [k \in Keys |-> IF k \in stale THEN {} ELSE heard[k]]
  /\ UNCHANGED threadVars

-----------------------------------------------------------------------------
GoTo(f, next) == pc' = [pc EXCEPT ![f] = next]

\* finish_session answers 202 and starts the thread.
Finish(f) ==
  /\ pc[f] = "new"
  /\ \E k \in Keys : key' = [key EXCEPT ![f] = k]
  /\ GoTo(f, "accepted")
  /\ UNCHANGED <<session, heard, audio, attempt, child, survivors, flight, published, faults>>

\* finish: nothing of an unknown, cancelled or empty session.
HandedOut(k) ==
  IF k \in Open /\ Held(session[k].chunks) # {}
  THEN [chunks |-> session[k].chunks, heard |-> heard[k]] ELSE None

\* Only inside the semaphore is the audio taken out of the store.
Enter(f) ==
  /\ pc[f] = "accepted" /\ flight = None
  /\ flight' = f
  /\ audio' = [audio EXCEPT ![f] = HandedOut(key[f])]
  /\ session' = [session EXCEPT ![key[f]] = None]
  /\ heard' = [heard EXCEPT ![key[f]] = {}]
  /\ GoTo(f, "check")
  /\ UNCHANGED <<key, attempt, child, survivors, published, faults>>

\* Mutant: the session is taken as it is.
SomeAudio(f) == audio[f] # None

\* The checks of run_attribution_job before it spends anything.
WholeAudio(f) ==
  /\ audio[f] # None /\ Samples(Audio(audio[f].chunks)) = Expected(key[f])
  /\ DOMAIN TimeMap(audio[f].chunks) # {}

\* Mutant: an attempt that fails leaves the semaphore taken.
StillHeld(f) == flight

Freed(f) == None

Leave(f, how) ==
  /\ flight' = Freed(f)
  /\ GoTo(f, how)

Check(f) ==
  /\ pc[f] = "check"
  /\ IF WholeAudio(f)
     THEN GoTo(f, "spawn") /\ UNCHANGED flight
     ELSE Leave(f, "cancelled")
  /\ UNCHANGED <<session, heard, key, audio, attempt, child, survivors, published, faults>>

\* The process starts, or its start raises through the job and the thread ends.
Spawn(f) ==
  /\ pc[f] = "spawn"
  /\ \/ child' = [child EXCEPT ![f] = "running"] /\ GoTo(f, "poll") /\ UNCHANGED flight /\ NoFault
     \/ UNCHANGED child /\ Leave(f, "failed") /\ Fault
  /\ UNCHANGED <<session, heard, key, audio, attempt, survivors, published>>

\* _child_main answers: the turns, no memory on the GPU, an error, or nothing
\* as it dies.
ChildEnds(f) ==
  /\ child[f] = "running"
  /\ \E answer \in {"done", "deferred", "failed", "eof"} :
       /\ child' = [child EXCEPT ![f] = answer]
       /\ IF answer = "done" THEN NoFault ELSE Fault
  /\ UNCHANGED <<session, heard, pc, key, audio, attempt, survivors, flight, published>>

\* Mutant: a late child goes on.
LetRun(f) == child

Released(f) == [child EXCEPT ![f] = "none"]

\* After its answer or the deadline the child is joined, killed and joined again,
\* each time for kill_grace_sec; then it is let go of, gone or not.  (Without memory
\* it has loaded nothing.)
LetGo(f) ==
  /\ child' = Released(f)
  /\ \/ UNCHANGED survivors /\ NoFault
     \/ child[f] \notin {"deferred", "eof"} /\ survivors' = survivors + 1 /\ Fault

Receive(f) ==
  /\ pc[f] = "poll" /\ child[f] \notin {"none", "running"}
  /\ LetGo(f)
  /\ CASE child[f] = "done" -> GoTo(f, "publish") /\ UNCHANGED <<attempt, flight>>
       [] child[f] = "deferred" /\ attempt[f] < Retries ->
            /\ attempt' = [attempt EXCEPT ![f] = @ + 1]
            /\ GoTo(f, "spawn") /\ UNCHANGED flight
       [] OTHER -> Leave(f, "failed") /\ UNCHANGED attempt
  /\ UNCHANGED <<session, heard, key, audio, published>>

\* The deadline passes, maybe just before the answer: terminate, then as ever.
HardTimeout(f) ==
  /\ pc[f] = "poll" /\ child[f] # "none"
  /\ LetGo(f)
  /\ Leave(f, "failed")
  /\ UNCHANGED <<session, heard, key, audio, attempt, published>>

\* A killed child goes in the end.
SurvivorEnds ==
  /\ survivors > 0 /\ survivors' = survivors - 1
  /\ UNCHANGED <<session, heard, pc, key, audio, attempt, child, flight, published, faults>>

Event(f) == [key |-> key[f], heard |-> audio[f].heard, spans |-> TimeMap(audio[f].chunks)]

\* XADD goes through, or raises, maybe after the stream has the entry.
Publish(f) ==
  /\ pc[f] = "publish"
  /\ \/ published' = published \cup {Event(f)} /\ Leave(f, "published") /\ NoFault
     \/ published' \in {published, published \cup {Event(f)}} /\ Leave(f, "failed") /\ Fault
  /\ UNCHANGED <<session, heard, key, audio, attempt, child, survivors>>

-----------------------------------------------------------------------------
Init ==
  /\ session = [k \in Keys |-> None] /\ heard = [k \in Keys |-> {}]
  /\ pc = [f \in Finishes |-> "new"] /\ audio = [f \in Finishes |-> None]
  /\ key = [f \in Finishes |-> None]
  /\ attempt = [f \in Finishes |-> 0] /\ child = [f \in Finishes |-> "none"]
  /\ survivors = 0 /\ flight = None /\ published = {} /\ faults = 0

\* The steps the thread of a finish goes on with by itself.
Batch(f) ==
  Enter(f) \/ Check(f) \/ Spawn(f) \/ Receive(f) \/ HardTimeout(f) \/ Publish(f)

Next ==
  \/ \E k \in Keys : \E w \in WindowsOf[k] : StoreWindow(k, w)
  \/ Sweep \/ SurvivorEnds
  \/ \E f \in Finishes : Finish(f) \/ Batch(f) \/ ChildEnds(f)

Spec == Init /\ [][Next]_vars

\* A thread goes on, the semaphore is not kept from it for ever, and the
\* deadline ends the wait for a child that hangs.
Fairness == \A f \in Finishes : SF_vars(Batch(f))

FairSpec == Spec /\ Fairness

-----------------------------------------------------------------------------
TypeOK ==
  /\ \A k \in Keys : session[k] # None => /\ session[k].chunks \in Chunks
                                          /\ session[k].cancelled \in BOOLEAN
  /\ Cardinality(Open) <= MaxSessions
  /\ heard \in [Keys -> SUBSET Pieces]
  /\ pc \in [Finishes -> {"new", "accepted", "check", "spawn", "poll", "publish", "cancelled",
                          "failed", "published"}]
  /\ key \in [Finishes -> Keys \cup {None}]
  /\ \A f \in Finishes : audio[f] # None => audio[f].chunks \in Chunks
  /\ attempt \in [Finishes -> 0..Retries]
  /\ child \in [Finishes -> {"none", "running", "done", "deferred", "failed", "eof"}]
  /\ flight \in Finishes \cup {None} /\ faults \in 0..MaxFaults /\ survivors \in 0..MaxFaults

\* Partial or mismatched audio never mints labels, as far as a count can tell: what
\* is published is about all audio that came in, none of it in two versions, as much
\* as the gateway counted - so, if nothing was altered, all of it - and the label of a
\* window is at the window's place in that audio; only one too short for the
\* timeline has none (append, finish, run_attribution_job).
PublishedIsWhole ==
  \A event \in published :
    /\ Samples(event.heard) = Expected(event.key)
    /\ \A p, q \in event.heard : p[1] = q[1] => p = q
    /\ (\A p \in event.heard : p[2] = "sent") => event.heard = Whole(event.key)
    /\ \A p \in event.heard :
         \/ p[1] \in DOMAIN event.spans /\ event.spans[p[1]] = Span(p[1], event.heard)
         \/ p[1] \notin DOMAIN event.spans /\ Size[p] < PerMs

\* One GPU: no child runs, or waits to be read, beside another, and none but one
\* that outlived its kill is left behind by a thread that has gone (single_flight,
\* run_session_diarization).
OneChildInHand ==
  \A f \in Finishes : child[f] # "none" => flight = f /\ pc[f] = "poll"

\* The threads of finished sessions share one GPU and leave no child on it that a
\* kill can end (_run, run_session_diarization).
AudioSound == TypeOK /\ OneChildInHand

\* Every finish the gateway was promised ends, whatever hangs or raises.
FinishEnds == \A f \in Finishes : pc[f] = "accepted" ~> pc[f] \in {"cancelled", "failed", "published"}

=============================================================================
