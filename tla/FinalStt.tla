------------------------------- MODULE FinalStt --------------------------------
(***************************************************************************)
(* The final transcription worker: FinalSttConsumer reads jobs from a Redis *)
(* stream and publishes each as the four events of the state machine        *)
(* TranscriptRevisionStateMachine, then acknowledges it.  Redis may fail at *)
(* any call, the process may be restarted, and a job may turn out not to be *)
(* valid before or while it is transcribed.                                 *)
(***************************************************************************)
EXTENDS Integers, SequencesExt

CONSTANTS
  Jobs,            \* the entries of the input stream, as the numbers 1..n
  Committed, Draft,   \* entry -> the job's committedText and draftText, as words
  Texts,           \* what the model may make of the audio
  Plain(_),        \* _normalise: a word without its case and punctuation
  BatchSize,       \* Settings.redis_batch_size
  MaxFaults        \* bound: failed calls, errors of the model, crashes

FinalAssumption ==
  /\ IsFiniteSet(Jobs) /\ Jobs = 1..Cardinality(Jobs) /\ {BatchSize, MaxFaults} \subseteq Nat
  /\ \A e \in Jobs : /\ Committed[e] \in Seq(Range(Committed[e]))
                     /\ Draft[e] \in Seq(Range(Draft[e]))
  /\ \A text \in Texts : text \in Seq(Range(text))

VARIABLES
  next,            \* the first entry the group has not delivered
  pending, acked,  \* entries delivered and not acknowledged; acknowledged
  events,          \* entry -> the states published for it, with their texts
  rejected,        \* the entries in the dead-letter stream
  pc, batch,       \* where the thread is; what it still has to process
  chunk,           \* the final text of the job in hand
  faults

stream == <<next, pending, acked, events, rejected>>
vars == <<stream, pc, batch, chunk, faults>>

-----------------------------------------------------------------------------
Life == <<"draft", "stabilizing", "final", "revised">>

\* Mutant: the result ends with the final chunk.
WithoutRevision == [draft |-> "stabilizing", stabilizing |-> "transcribe", final |-> "ack", revised |-> "ack"]

\* _ALLOWED_TRANSITIONS, with what the consumer does between the states.
Following == [draft |-> "stabilizing", stabilizing |-> "transcribe", final |-> "revised", revised |-> "ack"]

Job == Head(batch)

\* merge_transcripts: the words that both texts have, at the end of the first and
\* at the start of the second, are taken once.
Merged(committed, revised) ==
  LET Same(n) == \A i \in 1..n : Plain(committed[Len(committed) - n + i]) = Plain(revised[i])
      sizes == {n \in 1..Len(revised) : n <= Len(committed) /\ Same(n)}
  IN  committed \o SubSeq(revised, 1 + Max(sizes \cup {0}), Len(revised))

\* TranscriptRevisionStateMachine
Said(state) ==
  CASE state \in {"draft", "stabilizing"} -> Draft[Job]
    [] state = "final" -> chunk
    [] state = "revised" -> Merged(Committed[Job], chunk)

Fault == faults < MaxFaults /\ faults' = faults + 1

\* Any other exception: the entry stays pending.
Leave ==
  /\ pc' = "next" /\ batch' = Tail(batch)
  /\ UNCHANGED <<stream, chunk>>

\* XREADGROUP of the entries nobody was given (">"), and of no others.
Read ==
  /\ pc = "next" /\ batch = <<>>
  /\ LET n == IF next + BatchSize > Len(events) + 1 THEN Len(events) + 1 - next ELSE BatchSize
     IN  /\ batch' = [i \in 1..n |-> next + i - 1]
         /\ next' = next + n
         /\ pending' = pending \cup {next + i - 1 : i \in 1..n}
  /\ UNCHANGED <<acked, events, rejected, pc, chunk, faults>>

\* FinalSttJob.model_validate
Validate ==
  /\ pc = "next" /\ batch # <<>>
  /\ pc' \in {"draft", "reject"}
  /\ UNCHANGED <<stream, batch, chunk, faults>>

Publish ==
  /\ pc \in {"draft", "stabilizing", "final", "revised"}
  /\ \/ /\ events' = [events EXCEPT ![Job] = Append(@, [state |-> pc, text |-> Said(pc)])]
        /\ pc' = Following[pc]
        /\ UNCHANGED <<next, pending, acked, rejected, batch, chunk, faults>>
     \/ Fault /\ Leave

\* The declared duration, the audio file, the model artifact or the detected
\* duration may be refused; the model may fail.
Transcribe ==
  /\ pc = "transcribe"
  /\ \/ pc' = "final" /\ chunk' \in Texts /\ UNCHANGED <<stream, batch, faults>>
     \/ pc' = "reject" /\ UNCHANGED <<stream, batch, chunk, faults>>
     \/ Fault /\ Leave

Ack ==
  /\ pc \in {"ack", "ackRejected"}
  /\ acked' = acked \cup {Job} /\ pending' = pending \ {Job}
  /\ pc' = "next" /\ batch' = Tail(batch)
  /\ UNCHANGED <<next, events, rejected, chunk, faults>>

AckFails ==
  /\ pc = "ack" /\ Fault /\ Leave

Reject ==
  /\ pc = "reject"
  /\ rejected' = rejected \cup {Job} /\ pc' = "ackRejected"
  /\ UNCHANGED <<next, pending, acked, events, batch, chunk, faults>>

\* A crash; or a call that fails where nothing handles it, in the handler of a
\* refused job or in the loop itself, which ends the thread.
Die ==
  /\ pc # "off" /\ Fault
  /\ pc' = "off" /\ batch' = <<>>
  /\ UNCHANGED <<stream, chunk>>

Restart ==
  /\ pc = "off" /\ pc' = "next"
  /\ UNCHANGED <<stream, batch, chunk, faults>>

Init ==
  /\ next = 1 /\ pending = {} /\ acked = {} /\ rejected = {}
  /\ events = [e \in Jobs |-> <<>>]
  /\ pc = "next" /\ batch = <<>> /\ chunk = <<>> /\ faults = 0

Process == Read \/ Validate \/ Publish \/ Transcribe \/ Ack \/ AckFails \/ Reject

Next == Process \/ Die \/ Restart

Spec == Init /\ [][Next]_vars

\* The thread goes on, and a process that ended is started again.
Fairness == WF_vars(Process) /\ WF_vars(Restart)

FairSpec == Spec /\ Fairness

-----------------------------------------------------------------------------
TypeOK ==
  /\ next \in 1..(Len(events) + 1) /\ faults \in 0..MaxFaults
  /\ pending \cap acked = {} /\ pending \cup acked = 1..(next - 1)

\* The states of a job come in order and are not repeated; a job is acknowledged
\* only when its revision is out or it is in the dead-letter stream; and no job
\* whose final text was published is called invalid (process_message).
EventsSound ==
  \A e \in Jobs :
    LET states == [i \in DOMAIN events[e] |-> events[e][i].state]
    IN  /\ IsPrefix(states, Life)
        /\ e \in acked => states = Life \/ e \in rejected
        /\ e \in rejected => Len(states) \in {0, 2}

\* A revision begins with the text that was committed, and ends with all that
\* the final chunk says (merge_transcripts).
RevisionSound ==
  \A e \in Jobs :
    Len(events[e]) = 4 =>
      LET Plainly(text) == [i \in DOMAIN text |-> Plain(text[i])]
      IN  /\ IsPrefix(Committed[e], events[e][4].text)
          /\ IsSuffix(Plainly(events[e][3].text), Plainly(events[e][4].text))

\* What is published for a job is in order and complete (process_message).
FinalSound == TypeOK /\ EventsSound /\ RevisionSound

\* "test_publish_failure_keeps_source_pending_for_retry" (tests/unit/test_consumer.py):
\* a job left pending is processed again.
PendingIsRetried == \A e \in Jobs : e \in pending ~> e \notin pending

=============================================================================
