------------------------------ MODULE MCMeetingAi ------------------------------
(***************************************************************************)
(* The words of a bounded instance of MeetingAi.                            *)
(***************************************************************************)
EXTENDS MeetingAi, TLC

\* What can be said: a budget, in two forms of the noun, of ten or of twenty, approved or
\* cancelled, by Can or by us.
BudgetWords == {"butce", "butcenin", "onaylandi", "iptal", "can", "biz"}

Amounts == {"10", "20"}

Cues == [w \in BudgetWords \cup Amounts |-> CASE w = "onaylandi" -> 4 [] w = "iptal" -> 3 [] OTHER -> 6]

Parses ==
  [w \in BudgetWords \cup Amounts |->
     CASE w \in {"butce", "butcenin"} -> {[lemma |-> "butce", verb |-> FALSE]}
       [] w = "onaylandi" -> {[lemma |-> "onay", verb |-> FALSE], [lemma |-> "onaylamak", verb |-> TRUE]}
       [] OTHER -> {[lemma |-> w, verb |-> FALSE]}]

NounStems == {<<"butce", "butce">>, <<"butce", "butcenin">>}

Utterances == {<<"butce", "10", "can", ".">>, <<"butce", "can", ".">>, <<"butce", "20">>, <<"can", "/">>,
           <<"onaylandi", "iptal", ".">>}

Choices == {<<1>>, <<2, 1>>, <<1, 3>>}

Prose == {[words |-> <<"butcenin", "can">>, ends |-> TRUE], [words |-> <<"butce", "20", "can">>, ends |-> TRUE],
           [words |-> <<"butce", "can", "onaylandi">>, ends |-> TRUE]}

=============================================================================
