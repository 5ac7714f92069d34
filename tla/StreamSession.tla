---------------------------- MODULE StreamSession ----------------------------
(***************************************************************************)
(* One live WebSocket stream of live-stt-service: the receiver appends the *)
(* client's audio, a loop decides when to draft and when to commit, a      *)
(* draft task sends partial text, and after EOF a terminal pipeline stops  *)
(* the others, commits the rest and says that the stream is drained.       *)
(*                                                                         *)
(* A step runs from one await that really waits to the next, so everything *)
(* the coroutines read before a decode, a send or a cancelled task and use *)
(* after it may be out of date.  Audio is a sequence of frames, each heard *)
(* as speech or as silence; a frame is its position in the stream.  The    *)
(* models run in supervised workers, as they must outside of tests.        *)
(***************************************************************************)
EXTENDS Integers, Sequences, FiniteSets, Functions

CONSTANTS
  ForcedFrames,    \* forced_commit_samples
  TailFrames,      \* tail_overlap_sec
  MinFrames,       \* min_infer_samples
  BufferFrames,    \* max_uncommitted_samples
  DraftLimit,      \* DRAFT_FAILURES_BEFORE_CIRCUIT_OPEN
  MaxFrames,       \* bound: frames the client sends
  MaxDrafts,       \* bound: drafts started
  MaxFaults        \* bound: failed decodes and sends, passed deadlines

ASSUME StreamAssumption ==
  /\ {ForcedFrames, TailFrames, BufferFrames, MaxFrames, MaxDrafts, MaxFaults} \subseteq Nat
  /\ MinFrames \in Nat \ {0} /\ DraftLimit \in Nat \ {0}

VARIABLES
  main,            \* stream_endpoint: "open", "terminal" or "closed"
  heard,           \* what kind of frame each received frame is
  buffer,          \* the frames not committed yet
  bufferStart,     \* buffer_start_sample
  speechSeen,      \* speech_seen
  segIndex,        \* seg_index
  finalized,       \* finalized_through_sample
  loop,            \* where inference_loop is
  phase,           \* inference_phase
  draftTask,       \* draft_task is set
  draft,           \* the draft coroutine and its segment
  failures,        \* draft_consecutive_failures
  circuit,         \* the draft circuit is open
  term,            \* where terminal_pipeline is
  outlived,        \* history: the loop swallowed its cancellation
  commit,          \* commit_current of the loop and of the terminal pipeline
  sent,            \* the events the client has been sent
  decoded,         \* history: the frames considered for a final
  drafts, faults

audioVars == <<heard, buffer, bufferStart, speechSeen, segIndex, finalized>>
draftVars == <<draftTask, draft, failures, circuit, drafts>>
vars == <<main, audioVars, loop, phase, draftVars, term, outlived, commit, sent, decoded, faults>>

-----------------------------------------------------------------------------
Actors == {"loop", "terminal"}

NoDraft == [pc |-> "none", seq |-> 0]

NoCommit == [pc |-> "none", reason |-> "none", audio |-> <<>>, seq |-> 0, start |-> 0, end |-> 0,
             upto |-> 0]

Total == Len(heard)

Most(a, b) == IF a > b THEN a ELSE b

Fault == faults < MaxFaults /\ faults' = faults + 1

NoFault == UNCHANGED faults

Active(frames) == {i \in DOMAIN frames : heard[frames[i]] = "speech"}

\* _trim_to_active_audio: from the first frame of speech to the last.
Trimmed(frames) ==
  IF Active(frames) = {} THEN <<>>
  ELSE LET first == CHOOSE i \in Active(frames) : \A j \in Active(frames) : i <= j
           last == CHOOSE i \in Active(frames) : \A j \in Active(frames) : j <= i
       IN  SubSeq(frames, first, last)

Send(event) == sent' = Append(sent, event)

Event(type, seq) == [type |-> type, seq |-> seq, start |-> 0, end |-> 0, frames |-> {}]

Final(c) == [type |-> "final", seq |-> c.seq, start |-> c.start, end |-> c.end, frames |-> Range(c.audio)]

Close == main' = "closed"

Unfinished == draft.pc \in {"start", "decode", "send"}

-----------------------------------------------------------------------------
(* The audio. *)

\* A frame arrives: too much uncommitted audio ends the stream.
Receive ==
  /\ main = "open" /\ loop \in {"tick", "reap", "commit"} /\ Total < MaxFrames
  /\ \E kind \in {"speech", "silence"} :
       /\ heard' = Append(heard, kind)
       /\ buffer' = Append(buffer, Total + 1)
       /\ IF Len(buffer) + 1 > BufferFrames
          THEN Close /\ UNCHANGED <<bufferStart, speechSeen>>
          ELSE /\ bufferStart' = Most(0, Total - Len(buffer))
               /\ speechSeen' = (speechSeen \/ kind = "speech")
               /\ UNCHANGED main
  /\ UNCHANGED <<segIndex, finalized, loop, phase, draftVars, term, outlived, commit, sent,
                 decoded, faults>>

\* Mutant: what came in during the decode goes with the segment.
OnlyTail(upto) == <<>>

\* The frames that came in after the segment was copied.
Appended(upto) == SubSeq(buffer, Most(0, upto - bufferStart) + 1, Len(buffer))

\* advance_segment: the next segment begins with what came in since, behind a
\* short tail of this one if speech was cut.  A mixed buffer may be too quiet
\* to count as speech.
Advance(retainTail, upto, audio) ==
  LET appended == IF retainTail THEN Appended(upto) ELSE Trimmed(Appended(upto))
      tail == IF retainTail /\ Len(audio) > TailFrames
              THEN SubSeq(audio, Len(audio) - TailFrames + 1, Len(audio)) ELSE <<>>
  IN  /\ segIndex' = segIndex + 1
      /\ buffer' = tail \o appended
      /\ bufferStart' = Most(0, Total - Len(tail \o appended))
      /\ \/ speechSeen' = (Active(tail \o appended) # {})
         \/ Active(tail \o appended) # DOMAIN (tail \o appended) /\ speechSeen' = FALSE

-----------------------------------------------------------------------------
(* commit_current, run by the loop or by the terminal pipeline. *)

\* The one who committed goes on.
Return(a) ==
  IF a = "loop" THEN loop' = "tick" /\ phase' = "idle" /\ UNCHANGED term
                ELSE term' = "publish" /\ UNCHANGED <<loop, phase>>

Raise(a) ==
  IF a = "loop" THEN loop' = "failed" /\ phase' = "idle" /\ UNCHANGED <<term, main>>
                ELSE Close /\ UNCHANGED <<loop, phase, term>>

\* Mutant: the check for new source audio is left out.
AlwaysProgress(end) == TRUE

Progress(end) == end > finalized

\* What is copied of the buffer, and its place in the stream.
Copied(reason) ==
  LET audio == IF reason = "silence" THEN Trimmed(buffer) ELSE buffer
      \* the offset of the copy in the buffer
      skip == IF reason = "silence" /\ audio # <<>>
              THEN (CHOOSE i \in Active(buffer) : \A j \in Active(buffer) : i <= j) - 1 ELSE 0
      upto == bufferStart + Len(buffer)
  IN  [audio |-> audio, upto |-> upto,
       start |-> IF reason = "silence" /\ audio = <<>> THEN upto ELSE bufferStart + skip,
       end |-> IF reason = "silence" /\ audio # <<>> THEN bufferStart + skip + Len(audio) ELSE upto]

\* Up to the decode: there may be nothing new, too little, or too quiet audio.
Begin(a, reason) ==
  LET c == Copied(reason)
  IN  \/ /\ Progress(c.end) /\ Len(c.audio) >= MinFrames
         /\ commit' = [commit EXCEPT ![a] = [pc |-> "decode", reason |-> reason, audio |-> c.audio,
                                             seq |-> segIndex, start |-> c.start, end |-> c.end,
                                             upto |-> c.upto]]
         /\ decoded' = decoded \cup Range(c.audio)
         /\ IF a = "loop" THEN loop' = "commit" /\ phase' = "commit" /\ UNCHANGED term
                          ELSE term' = "commit" /\ UNCHANGED <<loop, phase>>
         /\ UNCHANGED <<buffer, bufferStart, speechSeen, segIndex>>
      \/ /\ Advance(FALSE, c.upto, c.audio)
         /\ decoded' = IF Progress(c.end) THEN decoded \cup Range(c.audio) ELSE decoded
         /\ Return(a) /\ UNCHANGED commit

\* The decode in the final model's worker ends: with text, with text that is
\* filtered, or with an error, which ends the stream.
Decoded(a) ==
  LET c == commit[a]
  IN  /\ main # "closed" /\ c.pc = "decode"
      /\ \/ /\ NoFault
            /\ IF a = "loop"
               THEN /\ commit' = [commit EXCEPT ![a].pc = "send"]
                    /\ UNCHANGED <<loop, phase, term, finalized, buffer, bufferStart, speechSeen,
                                   segIndex>>
               ELSE /\ commit' = [commit EXCEPT ![a].pc = "ready"]
                    /\ finalized' = c.end
                    /\ Advance(FALSE, c.upto, c.audio) /\ Return(a)
            /\ UNCHANGED main
         \/ /\ NoFault
            /\ commit' = [commit EXCEPT ![a] = NoCommit]
            /\ Advance(FALSE, c.upto, c.audio) /\ Return(a)
            /\ UNCHANGED <<main, finalized>>
         \/ /\ Fault
            /\ commit' = [commit EXCEPT ![a] = NoCommit]
            /\ Raise(a)
            /\ UNCHANGED <<finalized, buffer, bufferStart, speechSeen, segIndex>>
      /\ UNCHANGED <<heard, draftTask, draft, failures, circuit, drafts, outlived, sent, decoded>>

\* The loop sends its final ...
EmitFinal ==
  /\ main # "closed" /\ commit["loop"].pc = "send"
  /\ \/ /\ Send(Final(commit["loop"])) /\ NoFault
        /\ commit' = [commit EXCEPT !["loop"].pc = "sent"]
        /\ UNCHANGED <<loop, phase, term, main>>
     \/ /\ Fault /\ commit' = [commit EXCEPT !["loop"] = NoCommit]
        /\ Raise("loop") /\ UNCHANGED sent
  /\ UNCHANGED <<audioVars, draftVars, outlived, decoded>>

\* ... and then advances.
Advanced ==
  LET c == commit["loop"]
  IN  /\ main # "closed" /\ c.pc = "sent"
      /\ finalized' = c.end
      /\ Advance(c.reason = "forced", c.upto, c.audio)
      /\ commit' = [commit EXCEPT !["loop"] = NoCommit]
      /\ Return("loop")
      /\ UNCHANGED <<main, heard, draftTask, draft, failures, circuit, drafts, outlived, sent,
                     decoded, faults>>

-----------------------------------------------------------------------------
(* inference_loop. *)

\* Mutant: the flag is not looked at.
NeverStops == FALSE

Stopping == term # "none"

Stop ==
  /\ main # "closed" /\ loop = "tick" /\ Stopping
  /\ loop' = "done"
  /\ UNCHANGED <<main, audioVars, phase, draftVars, term, outlived, commit, sent, decoded, faults>>

\* A finished draft is collected, its exception with it.
ReapDraft ==
  /\ main # "closed" /\ loop = "tick" /\ ~Stopping /\ draftTask /\ ~Unfinished
  /\ draftTask' = FALSE /\ draft' = NoDraft /\ phase' = "idle"
  /\ loop' = IF draft.pc = "raised" THEN "failed" ELSE "tick"
  /\ UNCHANGED <<main, audioVars, failures, circuit, drafts, term, outlived, commit,
                 sent, decoded, faults>>

\* Mutant: the draft is left to run beside the commit.
LetDraftRun == draft

CancelledDraft == [draft EXCEPT !.pc = "cancelled"]

\* Time for a commit: a running draft is cancelled first.
Decide ==
  /\ main # "closed" /\ loop = "tick" /\ ~Stopping /\ (draftTask => Unfinished)
  /\ speechSeen /\ buffer # <<>>
  /\ \E reason \in {"forced", "silence"} :
       /\ reason = "forced" => Len(buffer) >= ForcedFrames
       /\ IF draftTask
          THEN /\ draftTask' = FALSE /\ draft' = CancelledDraft
               /\ loop' = "reap" /\ commit' = [commit EXCEPT !["loop"].reason = reason]
               /\ UNCHANGED <<audioVars, phase, term, decoded>>
          ELSE Begin("loop", reason) /\ UNCHANGED <<draftTask, draft, heard, finalized>>
  /\ UNCHANGED <<main, failures, circuit, drafts, outlived, sent, faults>>

\* The wait for the cancelled draft swallows a cancellation of the loop itself.
AfterReap ==
  /\ main # "closed" /\ loop = "reap" /\ draft.pc # "cancelled"
  /\ Begin("loop", commit["loop"].reason)
  /\ UNCHANGED <<main, heard, finalized, draftTask, draft, failures, circuit, drafts,
                 outlived, sent, faults>>

StartDraft ==
  /\ main # "closed" /\ loop = "tick" /\ ~Stopping /\ ~draftTask
  /\ speechSeen /\ buffer # <<>> /\ drafts < MaxDrafts
  /\ draftTask' = TRUE /\ draft' = [pc |-> "start", seq |-> 0] /\ phase' = "draft"
  /\ drafts' = drafts + 1
  /\ UNCHANGED <<main, audioVars, loop, failures, circuit, term, outlived, commit,
                 sent, decoded, faults>>

-----------------------------------------------------------------------------
(* infer_live_partial. *)

DraftGoes(next) == draft' = [draft EXCEPT !.pc = next]

\* An open circuit, too little or too quiet audio: nothing to do.
DraftBegins ==
  /\ main # "closed" /\ draft.pc = "start"
  /\ \/ ~circuit /\ draft' = [pc |-> "decode", seq |-> segIndex]
     \/ DraftGoes("done")
  /\ UNCHANGED <<main, audioVars, loop, phase, draftTask, failures, circuit,
                 drafts, term, outlived, commit, sent, decoded, faults>>

\* A failed draft only counts; enough of them in a row open the circuit.
DraftDecoded ==
  /\ main # "closed" /\ draft.pc = "decode"
  /\ \/ /\ Fault /\ DraftGoes("done")
        /\ failures' = failures + 1
        /\ circuit' = (circuit \/ failures + 1 >= DraftLimit)
     \/ /\ NoFault /\ failures' = 0 /\ circuit' = FALSE
        /\ DraftGoes("done") \/ DraftGoes("send")
  /\ UNCHANGED <<main, audioVars, loop, phase, draftTask, drafts, term, outlived, commit, sent,
                 decoded>>

DraftSends ==
  /\ main # "closed" /\ draft.pc = "send"
  /\ \/ Send(Event("partial", draft.seq)) /\ DraftGoes("done") /\ NoFault
     \/ DraftGoes("raised") /\ Fault /\ UNCHANGED sent
  /\ UNCHANGED <<main, audioVars, loop, phase, draftTask, failures, circuit,
                 drafts, term, outlived, commit, decoded>>

\* A cancelled draft takes a turn of the event loop to end.
DraftDies ==
  /\ main # "closed" /\ draft.pc = "cancelled"
  /\ draft' = NoDraft
  /\ UNCHANGED <<main, audioVars, loop, phase, draftTask, failures, circuit,
                 drafts, term, outlived, commit, sent, decoded, faults>>

CooldownEnds ==
  /\ main # "closed" /\ circuit
  /\ circuit' = FALSE
  /\ UNCHANGED <<main, audioVars, loop, phase, draftTask, draft, failures,
                 drafts, term, outlived, commit, sent, decoded, faults>>

-----------------------------------------------------------------------------
(* The end of the stream. *)

Eof ==
  /\ main = "open" /\ loop \in {"tick", "reap", "commit"}
  /\ main' = "terminal" /\ term' = "stop"
  /\ UNCHANGED <<audioVars, loop, phase, draftVars, outlived, commit, sent, decoded, faults>>

LoopCommits == phase = "commit"

\* stop_background_inference, once the draft is gone: a commit is waited for, and
\* a loop that is not in one is cancelled, unless it waits for its cancelled draft,
\* where it takes the cancellation for the draft's and goes on to its commit.
JoinLoop ==
  IF loop = "failed" THEN Close /\ UNCHANGED <<loop, term, outlived>>
  ELSE IF LoopCommits /\ loop # "done" THEN term' = "join" /\ UNCHANGED <<loop, main, outlived>>
  ELSE /\ loop' = IF loop = "tick" THEN "cancelled" ELSE loop
       /\ outlived' = (outlived \/ loop = "reap")
       /\ term' = "ack" /\ UNCHANGED main

TermStop ==
  /\ main = "terminal" /\ term = "stop"
  /\ draftTask' = FALSE
  /\ IF ~draftTask THEN JoinLoop /\ UNCHANGED <<draft, phase>>
     ELSE IF Unfinished
     THEN draft' = CancelledDraft /\ term' = "reap" /\ UNCHANGED <<main, loop, phase, outlived>>
     ELSE /\ draft' = NoDraft /\ phase' = "idle"
          /\ IF draft.pc = "raised" THEN Close /\ UNCHANGED <<loop, term, outlived>> ELSE JoinLoop
  /\ UNCHANGED <<audioVars, failures, circuit, drafts, commit, sent, decoded,
                 faults>>

TermReap ==
  /\ main = "terminal" /\ term = "reap" /\ draft.pc # "cancelled"
  /\ phase' = IF phase = "draft" THEN "idle" ELSE phase
  /\ JoinLoop
  /\ UNCHANGED <<audioVars, draftVars, commit, sent, decoded, faults>>

TermJoin ==
  /\ main = "terminal" /\ term = "join" /\ loop \in {"done", "failed"}
  /\ IF loop = "failed" THEN Close /\ UNCHANGED term ELSE term' = "ack" /\ UNCHANGED main
  /\ UNCHANGED <<audioVars, loop, phase, draftVars, outlived, commit, sent, decoded, faults>>

\* The acknowledgement; the receiver is then started, and the rest committed.
TermAck ==
  /\ main = "terminal" /\ term = "ack"
  /\ Send(Event("eof_ack", segIndex))
  /\ term' = "begin"
  /\ UNCHANGED <<main, audioVars, loop, phase, draftVars, outlived, commit, decoded, faults>>

TermCommit ==
  /\ main = "terminal" /\ term = "begin"
  /\ Begin("terminal", "eof")
  /\ UNCHANGED <<main, heard, finalized, draftTask, draft, failures, circuit, drafts,
                 outlived, sent, faults>>

\* publish_allowed: no late frame has come in.
TermPublish ==
  /\ main = "terminal" /\ term = "publish"
  /\ IF commit["terminal"].pc = "ready" THEN Send(Final(commit["terminal"])) ELSE UNCHANGED sent
  /\ term' = "drain"
  /\ UNCHANGED <<main, audioVars, loop, phase, draftVars, outlived, commit, decoded, faults>>

TermDrain ==
  /\ main = "terminal" /\ term = "drain"
  /\ Send(Event("drained", segIndex))
  /\ term' = "close"
  /\ UNCHANGED <<main, audioVars, loop, phase, draftVars, outlived, commit, decoded, faults>>

TermClose ==
  /\ main = "terminal" /\ term = "close"
  /\ Close
  /\ UNCHANGED <<audioVars, loop, phase, draftVars, term, outlived, commit, sent, decoded, faults>>

\* The client disconnects or sends a frame after EOF, a send fails, or a deadline
\* passes: everything is cancelled.  A client that leaves before EOF just stops
\* the stream where it is.
Abort ==
  /\ main = "terminal"
  /\ Fault
  /\ Close
  /\ UNCHANGED <<audioVars, loop, phase, draftVars, term, outlived, commit, sent, decoded>>

\* receive_while_inference_healthy: the loop has failed.
LoopFailed ==
  /\ main = "open" /\ loop = "failed"
  /\ Close
  /\ UNCHANGED <<audioVars, loop, phase, draftVars, term, outlived, commit, sent, decoded, faults>>

-----------------------------------------------------------------------------
Init ==
  /\ main = "open"
  /\ heard = <<>> /\ buffer = <<>> /\ bufferStart = 0 /\ speechSeen = FALSE
  /\ segIndex = 0 /\ finalized = 0
  /\ loop = "tick" /\ phase = "idle"
  /\ draftTask = FALSE /\ draft = NoDraft /\ failures = 0 /\ circuit = FALSE
  /\ term = "none" /\ outlived = FALSE /\ commit = [a \in Actors |-> NoCommit]
  /\ sent = <<>> /\ decoded = {} /\ drafts = 0 /\ faults = 0

LoopSteps == Stop \/ ReapDraft \/ Decide \/ AfterReap \/ StartDraft \/ EmitFinal \/ Advanced

DraftSteps == DraftBegins \/ DraftDecoded \/ DraftSends \/ DraftDies

TermSteps ==
  TermStop \/ TermReap \/ TermJoin \/ TermAck \/ TermCommit \/ TermPublish \/ TermDrain \/ TermClose

Next ==
  \/ Receive \/ Eof \/ Abort \/ LoopFailed \/ CooldownEnds
  \/ LoopSteps \/ DraftSteps \/ TermSteps
  \/ \E a \in Actors : Decoded(a)

Spec == Init /\ [][Next]_vars

\* After EOF the event loop runs whatever can run, and a decode ends; what the
\* client does, failures and the cooldown are not owed.
FairSpec ==
  Spec /\ WF_vars(/\ main = "terminal"
                  /\ LoopSteps \/ DraftSteps \/ TermSteps \/ \E a \in Actors : Decoded(a))

-----------------------------------------------------------------------------
TypeOK ==
  /\ main \in {"open", "terminal", "closed"}
  /\ heard \in Seq({"speech", "silence"}) /\ buffer \in Seq(1..Total)
  /\ {bufferStart, segIndex, finalized, failures, drafts, faults} \subseteq Nat
  /\ {speechSeen, outlived} \subseteq BOOLEAN /\ draftTask \in BOOLEAN /\ circuit \in BOOLEAN
  /\ loop \in {"tick", "reap", "commit", "done", "failed", "cancelled"}
  /\ phase \in {"idle", "draft", "commit"}
  /\ draft.pc \in {"none", "start", "decode", "send", "done", "raised", "cancelled"}
  /\ term \in {"none", "stop", "reap", "join", "ack", "begin", "commit", "publish", "drain", "close"}
  /\ \A a \in Actors : commit[a].pc \in {"none", "decode", "send", "sent", "ready"}
  /\ decoded \subseteq 1..Total

Positions(type) == {i \in DOMAIN sent : sent[i].type = type}

\* A client told that the stream is drained has lost nothing: every frame of
\* speech was in a segment considered for a final, the skipped ones (too short,
\* too quiet) included, whatever came in during slow passes (advance_segment,
\* terminal_pipeline).
DrainedIsComplete ==
  Positions("drained") # {} => \A i \in DOMAIN heard : heard[i] = "speech" => i \in decoded

\* A draft never speaks about a segment whose final is out (finish_draft_task).
NoStalePartial ==
  \A i \in Positions("final"), j \in Positions("partial") : i < j => sent[i].seq < sent[j].seq

\* Every final, the one after EOF included, has source audio no earlier final
\* had, and shares at most the retained tail with it; except in a stream whose
\* loop outlived its cancellation (commit_current, stop_background_inference).
WindowsAdvance ==
  \A i, j \in Positions("final") :
    (i < j /\ ~outlived) =>
      /\ sent[i].seq < sent[j].seq
      /\ \E f \in sent[j].frames : \A g \in sent[i].frames : g < f
      /\ Cardinality(sent[i].frames \cap sent[j].frames) <= TailFrames

\* What the client is sent is in order: no draft after its final, and no final
\* twice unless the loop outlived its cancellation (commit_current).
StreamSound == TypeOK /\ NoStalePartial /\ WindowsAdvance

\* EOF or another tick never makes a second final of audio that had one, and so
\* never races a commit of the background (the comments in commit_current).
NewAudioPerFinal ==
  \A i, j \in Positions("final") : i < j => ~(sent[j].frames \subseteq sent[i].frames)

\* A stream that reached EOF ends, however stopping crosses drafts and commits.
EofEnds == main = "terminal" ~> main = "closed"

=============================================================================
