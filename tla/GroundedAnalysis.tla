---------------------------- MODULE GroundedAnalysis ----------------------------
(***************************************************************************)
(* What meeting-ai may say of a transcript: services/citation.py,           *)
(* extractive.py, live_context.py, morphology.py, and the parts of          *)
(* analyze.py and ask.py that turn a model's answer into a response.        *)
(*                                                                          *)
(* A transcript is a sequence of words, full stops and line breaks, so a    *)
(* position in it is a character offset of the code.  A text is the words   *)
(* of a sentence and whether it ends in a full stop.  What the model        *)
(* answers is any member of Picks or Claims: numbers of the menu, or prose. *)
(***************************************************************************)
EXTENDS Integers, SequencesExt, FiniteSetsExt

CONSTANTS
  Content, Numeric, Pronouns,         \* Content: what _tokens keeps; Numeric: what _numbers finds
  Cue,                \* word -> 1..5, the list of cues it is in, in the order of _polarity; 6: none
  Readings,           \* word -> {[lemma, verb]}, the parses of the external analyzer
  ShortLemmas, Stems, \* lemmas under four letters; <<lemma, surface>>: _lemma_prefixes_surface
  Threshold, MinEvidence, MaxUnsupported, MaxMergedWords, KeptOld,
  Pieces,             \* what a transcript grows by
  Picks, Claims, Owners,   \* what the model may answer
  MaxLength, MaxDropped    \* bounds on the transcript and on what a full window loses

Stop == "."
Break == "/"
Nothing == [none |-> TRUE]
Nobody == "nobody"

\* Words are finitely many, as transcripts are bounded, and what is added fits the window;
\* live_context.py keeps old sentences, citation.py allows no unsupported word.
GroundedAssumption ==
  /\ Cue \in [DOMAIN Cue -> 1..6] /\ IsFiniteSet(Content)
  /\ Pieces \subseteq Seq(DOMAIN Cue \cup {Stop, Break})
  /\ MaxLength \in Nat /\ \A p \in Pieces : Len(p) <= MaxLength
  /\ MinEvidence \in Nat \ {0} /\ KeptOld \in Nat \ {0}
  /\ Threshold \in 0..100 /\ MaxUnsupported = 0

VARIABLES
  transcript, dropped,   \* what the client sends; how much its window has lost
  cursor,    \* the LiveAnalysisCursor the client holds, or Nothing
  offered,   \* sentences on the menus of the live requests since the last full menu
  report     \* the response to the last request, or Nothing

vars == <<transcript, dropped, cursor, offered, report>>

-----------------------------------------------------------------------------
(* Sentences *)

\* A fragment ends; one without words and without a full stop is none.
Closed(s, ends) ==
  IF s.words = <<>> /\ ~ends THEN s.out
  ELSE Append(s.out, [words |-> s.words, ends |-> ends, from |-> s.from])

\* One more symbol: the fragments so far, the words of the open one and where it began.
Heard(symbols, s, i) ==
  LET from == IF s.words = <<>> THEN i ELSE s.from
  IN  IF symbols[i] \in {Stop, Break}
      THEN [out |-> Closed([s EXCEPT !.from = from], symbols[i] = Stop), words |-> <<>>, from |-> i]
      ELSE [out |-> s.out, words |-> Append(s.words, symbols[i]), from |-> from]

\* Splitting at full stops and line breaks.
RawSentences(symbols) ==
  LET step(s, i) == Heard(symbols, s, i)
  IN  Closed(FoldLeftDomain(step, [out |-> <<>>, words |-> <<>>, from |-> 1], symbols), FALSE)

Glue(first, second) == [words |-> first.words \o second.words, ends |-> second.ends, from |-> first.from]

Unfinished(s) == ~s.ends /\ Len(s.words) < MaxMergedWords

\* A fragment without a full stop is glued to what follows, up to MaxMergedWords.
Merged(out, s) ==
  IF out # <<>> /\ Unfinished(Last(out)) THEN Append(Front(out), Glue(Last(out), s)) ELSE Append(out, s)

SplitSentences(symbols) == FoldLeft(Merged, <<>>, RawSentences(symbols))

Text(s) == [words |-> s.words, ends |-> s.ends]

\* analyze._sentences of the texts joined by spaces: it knows full stops only.
Resplit(texts) ==
  LET step(out, t) == IF out # <<>> /\ ~Last(out).ends
                      THEN Append(Front(out), [words |-> Last(out).words \o t.words, ends |-> t.ends])
                      ELSE Append(out, t)
  IN  FoldLeft(step, <<>>, texts)

-----------------------------------------------------------------------------
(* Grounding *)

Tokens(words) == ToSet(words) \cap Content

Numbers(words) == ToSet(words) \cap Numeric

\* A word with a verb among its readings has no lemma: only its exact form counts.
ContentLemmas(w) == IF \E r \in Readings[w] : r.verb THEN {} ELSE {r.lemma : r \in Readings[w]}

SharesLemma(w, v) ==
  \E l \in ContentLemmas(w) \cap ContentLemmas(v) : l \notin ShortLemmas /\ {<<l, w>>, <<l, v>>} \subseteq Stems

Supported(claim, source) ==
  {w \in Tokens(claim) : w \in Tokens(source) \/ \E v \in Tokens(source) : SharesLemma(w, v)}

Groundable(words) == Cardinality(Tokens(words)) >= MinEvidence

Polarity(words) == <<-1, 1, -1, 1, -1, 0>>[Min({6} \cup {Cue[w] : w \in ToSet(words)})]

\* As the mutant without the tie rule has it.
FirstBest(claim, sentences) ==
  LET covers(i) == Cardinality(Supported(claim.words, sentences[i].words))
      top == {i \in DOMAIN sentences : covers(i) > 0 /\ \A j \in DOMAIN sentences : covers(j) <= covers(i)}
  IN  IF top = {} THEN 0 ELSE Min(top)

\* The index of the sentence that covers most of the claim, or 0 when none covers a
\* word.  The sentence that is the claim wins a tie, else the first does.
BestMatch(claim, sentences) ==
  LET covers(i) == Cardinality(Supported(claim.words, sentences[i].words))
      top == {i \in DOMAIN sentences : covers(i) > 0 /\ \A j \in DOMAIN sentences : covers(j) <= covers(i)}
      exact == {i \in top : Text(sentences[i]) = claim}
  IN  IF top = {} THEN 0 ELSE IF exact = {} THEN Min(top) ELSE Min(exact)

\* As the mutant that is content with the overlap has it.
Overlaps(s, claim) ==
  /\ Polarity(claim.words) * Polarity(s.words) >= 0
  /\ 100 * Cardinality(Supported(claim.words, s.words)) >= Threshold * Cardinality(Tokens(claim.words))
  /\ Numbers(claim.words) \subseteq Numbers(s.words)
  /\ Groundable(s.words)

\* ground_claim: whether the sentence that matches best entails the claim.
Entails(s, claim) ==
  LET supported == Supported(claim.words, s.words)
      words == Tokens(claim.words)
  IN  /\ Polarity(claim.words) * Polarity(s.words) >= 0
      /\ 100 * Cardinality(supported) >= Threshold * Cardinality(words)
      /\ Numbers(claim.words) \subseteq Numbers(s.words)
      /\ Cardinality(words \ supported) <= MaxUnsupported
      /\ Groundable(s.words)

\* The sentence a claim is cited to, or 0: a claim that is not grounded is withheld.
GroundClaim(claim, sentences) ==
  LET best == BestMatch(claim, sentences)
  IN  IF best # 0 /\ Entails(sentences[best], claim) THEN best ELSE 0

HasPhrase(words, phrase) ==
  \E i \in 0..(Len(words) - Len(phrase)) : SubSeq(words, i + 1, i + Len(phrase)) = phrase

\* An owner must be said in the very sentence, word for word; a pronoun names nobody.
OwnerSupported(owner, words) ==
  /\ owner \notin Pronouns
  /\ HasPhrase(words, <<owner>>)

-----------------------------------------------------------------------------
(* Requests *)

Sentences == SplitSentences(transcript)

\* As the mutant that trusts the cursor's length has it.
NewOrActive(c) ==
  LET new == {i \in DOMAIN Sentences : Sentences[i].from > c.length}
  IN  IF c # Nothing /\ c.length <= Len(transcript) /\ SubSeq(transcript, 1, c.length) = c.prefix
      THEN (c.active \cap DOMAIN Sentences) \cup new ELSE DOMAIN Sentences

\* live_menu: after a cursor that still fits, the sentences found active, the last
\* old ones and the new ones; else all of them.
LiveMenu(c) ==
  LET old == {i \in DOMAIN Sentences : Sentences[i].from <= c.length}
      last == {i \in old : Cardinality({j \in old : j > i}) < KeptOld}
      fits == /\ c # Nothing
              /\ c.length <= Len(transcript)
              /\ SubSeq(transcript, 1, c.length) = c.prefix
              /\ c.active \subseteq DOMAIN Sentences
  IN  IF fits THEN c.active \cup last \cup (DOMAIN Sentences \ old) ELSE DOMAIN Sentences

\* selectable_sentences; the lines of the menu are numbered in their order.
Menu(indices) == {i \in indices : Groundable(Sentences[i].words)}

Line(menu, n) == CHOOSE i \in menu : Cardinality({j \in menu : j <= i}) = n

\* Numbers that name no line of the menu are dropped, and so are repeated ones.
ValidIndices(picks, count) ==
  LET step(out, p) == IF p \in 1..count /\ p \notin ToSet(out) THEN Append(out, p) ELSE out
  IN  FoldLeft(step, <<>>, picks)

Selected(picks, menu) ==
  LET valid == ValidIndices(picks, Cardinality(menu))
  IN  [k \in DOMAIN valid |-> Text(Sentences[Line(menu, valid[k])])]

\* MeetingAnalysisService.analyze: what is grounded ships, an action with the owner its
\* own sentence supports; the rest is withheld.
Response(texts, summary, owner) ==
  LET shown(claims) == {t \in claims : GroundClaim(t, Sentences) # 0}
      says(t) == Sentences[GroundClaim(t, Sentences)]
      action(t) == [text |-> t, owner |-> IF OwnerSupported(owner, says(t).words) THEN owner ELSE Nobody]
  IN  [draft |-> ToSet(texts),
       decisions |-> shown(ToSet(texts)),
       actions |-> {action(t) : t \in shown(ToSet(texts))},
       drafted |-> ToSet(summary),
       summary |-> shown(ToSet(Resplit(summary)))]

ActiveIndices(r) == {GroundClaim(t, Sentences) : t \in r.decisions}

Init ==
  /\ transcript = <<>>
  /\ dropped = 0
  /\ cursor = Nothing
  /\ offered = {}
  /\ report = Nothing

\* More is heard.
Grow ==
  /\ \E p \in Pieces : transcript' = transcript \o p
  /\ Len(transcript') <= MaxLength
  /\ report' = Nothing
  /\ UNCHANGED <<dropped, cursor, offered>>

\* A full window drops what is oldest.
Truncate ==
  /\ \E p \in Pieces : Len(transcript \o p) > MaxLength
  /\ dropped < MaxDropped
  /\ dropped' = dropped + 1
  /\ transcript' = Tail(transcript)
  /\ report' = Nothing
  /\ UNCHANGED <<cursor, offered>>

\* The model picks numbers of the menu.
Select(menu) ==
  \E picks \in Picks, owner \in Owners :
    report' = Response(Selected(picks, menu), Selected(picks, menu), owner)

\* A model that ignores the menu writes claims of its own.
Invent ==
  \E claim \in Claims, owner \in Owners : report' = Response(<<claim>>, <<claim>>, owner)

Analyze(menu) ==
  IF menu = {} THEN report' = Response(<<>>, <<>>, Nobody) ELSE Select(menu) \/ Invent

AnalyzeFinal ==
  /\ report = Nothing
  /\ Analyze(Menu(DOMAIN Sentences))
  /\ UNCHANGED <<transcript, dropped, cursor, offered>>

\* The answer to a live request carries the cursor of the next one.
AnalyzeLive ==
  /\ report = Nothing
  /\ transcript # <<>>
  /\ Analyze(Menu(LiveMenu(cursor)))
  /\ offered' = {s \in offered : LiveMenu(cursor) # DOMAIN Sentences}
                  \cup {Sentences[i] : i \in Menu(LiveMenu(cursor))}
  /\ cursor' = [length |-> Len(transcript), prefix |-> transcript, active |-> ActiveIndices(report')]
  /\ UNCHANGED <<transcript, dropped>>

\* answer_question: what the model says is shown if it is grounded.
Ask ==
  /\ report = Nothing
  /\ \E claim \in Claims :
       report' = [Response(<<claim>>, <<>>, Nobody) EXCEPT !.actions = {}]
  /\ UNCHANGED <<transcript, dropped, cursor, offered>>

Next == Grow \/ Truncate \/ AnalyzeFinal \/ AnalyzeLive \/ Ask

Spec == Init /\ [][Next]_vars

-----------------------------------------------------------------------------
(* Properties *)

\* Every decision, action or summary sentence that is shown rests on one sentence of the
\* transcript: it has all its content words, up to the endings of nouns, all its numbers
\* and no contrary outcome, and it names the owner that is shown.
ShownIsEntailed ==
  report # Nothing =>
    \A t \in report.decisions \cup report.summary :
      \E i \in DOMAIN Sentences :
        /\ \A w \in Tokens(t.words) : \E v \in Tokens(Sentences[i].words) : w = v \/ SharesLemma(w, v)
        /\ Numbers(t.words) \subseteq Numbers(Sentences[i].words)
        /\ {Polarity(t.words), Polarity(Sentences[i].words)} # {-1, 1}
        /\ \A a \in report.actions :
             a.text = t /\ a.owner # Nobody => a.owner \in ToSet(Sentences[i].words)

\* A claim the model chose by number is a sentence, and it is shown: no gate of
\* ground_claim withholds what was quoted from the menu, whatever else was said.
ChosenIsShown ==
  report # Nothing =>
    \A t \in report.draft :
      (\E i \in DOMAIN Sentences : Text(Sentences[i]) = t /\ Groundable(t.words)) => t \in report.decisions

\* A live menu hides from the model only sentences that were on an earlier menu, word for
\* word where they are now, and that the last answer did not call a decision or a task.
HiddenWasJudged ==
  \A i \in DOMAIN Sentences \ LiveMenu(cursor) :
    Groundable(Sentences[i].words) => Sentences[i] \in offered /\ i \notin cursor.active

\* extractive.py:22-25 "Grounding then stops being a post-hoc filter and becomes a
\* structural property -- a selected claim IS a transcript sentence, so coverage is 1.0
\* and fact fusion is unrepresentable": of a summary too, whose sentences are chosen alike.
ChosenSummaryIsShown ==
  report # Nothing =>
    \A t \in report.drafted :
      (\E i \in DOMAIN Sentences : Text(Sentences[i]) = t /\ Groundable(t.words)) => t \in report.summary

=============================================================================
