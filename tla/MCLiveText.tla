------------------------------ MODULE MCLiveText ------------------------------
(***************************************************************************)
(* Bounded instances of LiveText and, as one more of the parts, of          *)
(* SessionAudio: their state, constants and fairness are disjoint.          *)
(***************************************************************************)
EXTENDS LiveText, SessionAudio, TLC

CONSTANTS m1, m2, c1, c2, k1, k2, f1, f2

ASSUME AudioAssumption == SessionAssumption

InitOfPart == PartInit /\ Init

NextOfPart ==
  \/ PartNext /\ UNCHANGED vars
  \/ part = "audio" /\ Next /\ UNCHANGED partVars

SpecOfPart ==
  InitOfPart /\ [][NextOfPart]_<<partVars, vars>> /\ PartFairness /\ Fairness

\* Two sessions; what one of them sends does not validate.
SessionPartition == m1 :> 1 @@ m2 :> 2

\* Three words, two of them forms of one word.
Simple == [ev |-> <<"ev">>, evi |-> <<"evi">>, bu |-> <<"bu">>]

\* With an apostrophe, as in Turkish proper names, a raw word is two words.
Apostrophe == "bu" :> <<"bu">> @@ "van'da" :> <<"van", "da">>

Forms == [ev |-> "ev", evi |-> "ev", bu |-> "bu", van |-> "van", da |-> "da"]

Longer == {<<"ev", "evi">>}

Fillers == {"bu"}

\* A word, and the same word as it starts a sentence.
Lower(w) == IF w = "A" THEN "a" ELSE w

CommittedTexts == <<<<"b", "a">>, <<"a", "a">>, <<>>>>

DraftTexts == <<<<"a">>, <<>>, <<"b">>>>

FinalTexts == {<<>>, <<"A">>, <<"A", "a">>, <<"a", "b">>}

\* The first window is shorter than a millisecond; altered, it is as long as the
\* first two together.  The second keeps its length, the last loses all of it.
Sizes ==
  <<0, "sent">> :> 1 @@ <<1, "sent">> :> 2 @@ <<2, "sent">> :> 3
    @@ <<0, "altered">> :> 3 @@ <<1, "altered">> :> 2 @@ <<2, "altered">> :> 0

\* The second session is over the cap.
Split == k1 :> {0, 1} @@ k2 :> {1, 2}

=============================================================================
