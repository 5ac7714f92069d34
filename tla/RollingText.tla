------------------------------ MODULE RollingText ------------------------------
(***************************************************************************)
(* The words of a live stream: how api/stream.py (live-stt) joins what the  *)
(* draft model hears in overlapping windows into a confirmed and a          *)
(* tentative part, merges the final decode of a segment with the draft on   *)
(* display, and removes from it what the last segment's final had said.     *)
(*                                                                          *)
(* A text is a sequence of raw words (str.split).  Comparisons are made on  *)
(* normalized words, of which a raw word may hold none or several: Parts.   *)
(* Two forms of a word that differ in a suffix have one Family.             *)
(***************************************************************************)
EXTENDS Integers, SequencesExt

CONSTANTS
  Words, Parts,    \* raw words; raw word -> its normalized words
  Family,          \* normalized word -> _overlap_family
  Grows,           \* pairs of raw words of which the first begins the second
  Noise,           \* the raw words is_hallucination rejects when they stand alone
  ShortFinalMinPrevious, ShortFinalRatio,   \* SHORT_FINAL_PRESERVE_*, the ratio in percent
  MinFallback,     \* MIN_FALLBACK_DRAFT_WORDS
  MaxRecent,       \* MAX_RECENT_FINAL_WORDS
  DraftWords, FinalWords, MaxConfirmed   \* bounds: words of a decode; of a segment

RollingAssumption ==
  /\ Parts \in [Words -> Seq(DOMAIN Family)]
  /\ {DraftWords, FinalWords, MaxRecent} \subseteq Nat

VARIABLES
  confirmed, tentative,   \* confirmed_draft, tentative_draft
  recent,                 \* recent_final_text
  final                   \* if the last step sent a final: what was selected for it, and what was sent

vars == <<confirmed, tentative, recent, final>>

-----------------------------------------------------------------------------
Texts(n) == UNION {[1..k -> Words] : k \in 0..n}

Normalized(text) == FlattenSeq([i \in DOMAIN text |-> Parts[text[i]]])

Families(words) == [i \in DOMAIN words |-> Family[words[i]]]

From(text, i) == SubSeq(text, i + 1, Len(text))

Upto(text, i) == SubSeq(text, 1, Min({i, Len(text)}))

\* A decode, without the phrase that strip_terminal_contextual_artifact removes.
Hallucination(text) == text = <<>> \/ (Len(text) = 1 /\ text[1] \in Noise)

\* _contiguous_index, or -1.
Places(haystack, needle) ==
  {i \in 0..(Len(haystack) - Len(needle)) : SubSeq(haystack, i + 1, i + Len(needle)) = needle}

HasRun(haystack, needle) == needle # <<>> /\ Places(haystack, needle) # {}

SuffixPrefixOverlap(previous, following) ==
  Max({0} \cup {n \in 1..Len(previous) : n <= Len(following)
                  /\ From(previous, Len(previous) - n) = Upto(following, n)})

\* Fuzzily, two words at least must repeat.
SpeechOverlap(previous, following) ==
  LET exact == SuffixPrefixOverlap(previous, following)
      fuzzy == SuffixPrefixOverlap(Families(previous), Families(following))
  IN  IF exact > 0 THEN exact ELSE IF fuzzy >= 2 THEN fuzzy ELSE 0

CommonPrefix(left, right) == Len(LongestCommonPrefix({left, right}))

\* How many of the families of one text the other has, in percent of the fewer.
SharedRatio(left, right) ==
  LET l == ToSet(Families(left))  r == ToSet(Families(right))
  IN  (100 * Cardinality(l \cap r)) \div Min({Cardinality(l), Cardinality(r)})

-----------------------------------------------------------------------------
(* Drafts. *)

\* _prepare_candidate_after_confirmed: the confirmed words, to which a window
\* that rewinds may add some in front, and what is left of the candidate.
Prepared(conf, candidate) ==
  LET c == Normalized(conf)  n == Normalized(candidate)
      at == Min(Places(n, c))
  IN  IF c = <<>> \/ n = <<>> THEN <<conf, candidate>>
      ELSE IF HasRun(n, c) THEN <<Upto(candidate, at) \o conf, From(candidate, at + Len(c))>>
      ELSE IF HasRun(c, n) THEN <<conf, <<>>>>
      ELSE IF SpeechOverlap(c, n) >= 2 THEN <<conf, From(candidate, SpeechOverlap(c, n))>>
      ELSE <<conf, candidate>>

\* _append_confirmed
AppendConfirmed(conf, addition) ==
  LET overlap == SpeechOverlap(Normalized(conf), Normalized(addition))
  IN  IF conf = <<>> THEN addition
      ELSE conf \o From(addition, overlap)

\* Mutant: what two windows agree on replaces what was confirmed.
ReplaceConfirmed(conf, addition) == IF addition = <<>> THEN conf ELSE addition

Promoted(conf, addition) == AppendConfirmed(conf, addition)

\* _stabilize_rolling_partial
Stabilized(conf, previous, text) ==
  LET stable == Prepared(conf, text)[1]  candidate == Prepared(conf, text)[2]
      p == Normalized(previous)  n == Normalized(candidate)
      overlap == SpeechOverlap(p, n)
  IN  CASE candidate = <<>> -> <<stable, previous>>
        [] previous = <<>> -> <<stable, candidate>>
        [] IsPrefix(n, p) -> <<stable, previous>>
        [] IsPrefix(p, n) -> <<Promoted(stable, previous), From(candidate, Len(p))>>
        [] HasRun(n, p) -> <<stable, candidate>>
        [] HasRun(p, n) -> <<stable, previous>>
        [] overlap > 0 -> <<Promoted(stable, previous), From(candidate, overlap)>>
        [] CommonPrefix(p, n) > 0 ->
             <<Promoted(stable, Upto(previous, CommonPrefix(p, n))), From(candidate, CommonPrefix(p, n))>>
        [] SharedRatio(p, n) >= 50 -> <<stable, candidate>>
        [] OTHER -> <<Promoted(stable, previous), candidate>>

NoFinal == [selected |-> <<>>, sent |-> <<>>]

\* A decode that changes nothing is not taken (_select_partial_parts).
Draft(text) ==
  LET parts == Stabilized(confirmed, tentative, text)
  IN  /\ Len(confirmed) <= MaxConfirmed
      /\ ~Hallucination(text) /\ ~Hallucination(parts[1] \o parts[2])
      /\ parts # <<confirmed, tentative>>
      /\ confirmed' = parts[1] /\ tentative' = parts[2]
      /\ final' = NoFinal /\ UNCHANGED recent

-----------------------------------------------------------------------------
(* Finals. *)

\* _has_same_prefix compares characters.
HasSamePrefix(previous, following) ==
  \/ IsPrefix(previous, following)
  \/ /\ Len(previous) <= Len(following)
     /\ IsPrefix(Front(previous), following)
     /\ <<Last(previous), following[Len(previous)]>> \in Grows

\* Neither text is empty.
MergeFinal(previous, text) ==
  LET p == Normalized(previous)  n == Normalized(text)
      overlap == SpeechOverlap(p, n)
      at == Min(Places(p, n))
      short == /\ Len(p) >= ShortFinalMinPrevious /\ Len(n) < Len(p)
               /\ 100 * Len(n) <= ShortFinalRatio * Len(p) /\ SharedRatio(p, n) = 0
  IN  CASE HasSamePrefix(previous, text) -> text
        [] HasSamePrefix(text, previous) -> previous
        [] HasRun(p, n) -> Upto(previous, at) \o text \o From(previous, at + Len(text))
        [] HasRun(n, p) -> text
        [] overlap >= 2 -> previous \o From(text, overlap)
        [] short -> previous
        [] OTHER -> text

\* _select_commit_text_decision; nothing is selected when neither will do.
Selected(text, draft) ==
  LET draftOk == ~Hallucination(draft)
      merged == IF draftOk THEN MergeFinal(draft, text) ELSE text
  IN  IF ~Hallucination(text) THEN (IF Hallucination(merged) THEN text ELSE merged)
      ELSE IF draftOk /\ (text # <<>> \/ Len(draft) >= MinFallback) THEN draft ELSE <<>>

\* Mutant: what begins like the last final is removed, too.
WithoutCommonWords(previous, text) ==
  LET n == CommonPrefix(Normalized(previous), Normalized(text))
  IN  IF n >= Len(text) THEN text ELSE From(text, n)

\* _drop_leading_tail_overlap_decision, as commit_current calls it; a final that
\* says nothing else is kept.
WithoutTail(previous, text) ==
  LET overlap == SpeechOverlap(Normalized(previous), Normalized(text))
  IN  IF overlap >= Len(text) THEN text ELSE From(text, overlap)

Unmatched(previous, text) == IF previous = <<>> THEN text ELSE WithoutTail(previous, text)

\* The end of a segment (commit_current, advance_segment).
Commit(text) ==
  LET selected == Selected(text, confirmed \o tentative)
      sent == Unmatched(recent, selected)
  IN  /\ IF selected = <<>> THEN final' = NoFinal /\ UNCHANGED recent
         ELSE /\ final' = [selected |-> selected, sent |-> sent]
              /\ recent' = From(recent \o sent, Max({0, Len(recent \o sent) - MaxRecent}))
      /\ confirmed' = <<>> /\ tentative' = <<>>

Init ==
  /\ confirmed = <<>> /\ tentative = <<>> /\ recent = <<>>
  /\ final = NoFinal

Next ==
  \/ \E text \in Texts(DraftWords) : Draft(text)
  \/ \E text \in Texts(FinalWords) : Commit(text)

Spec == Init /\ [][Next]_vars

-----------------------------------------------------------------------------
\* Until its segment ends, a word on display as confirmed stays on display, in
\* its place among the others: a draft revises only what is tentative
\* (_stabilize_rolling_partial).
ConfirmedIsKept ==
  [][confirmed' = <<>> \/ confirmed = <<>> \/ HasRun(confirmed', confirmed)]_vars

\* What is removed from the front of a final is what the finals before it ended
\* with, up to the forms of its words (_drop_leading_tail_overlap: "Remove
\* cross-segment tail carry-over from the next final payload").
OnlyRepeatsAreDropped ==
  [][LET cut == Len(final'.selected) - Len(final'.sent)
         repeat == Families(Normalized(Upto(final'.selected, cut)))
     IN  /\ From(final'.selected, cut) = final'.sent
         /\ IsSuffix(repeat, Families(Normalized(recent)))]_vars

=============================================================================
