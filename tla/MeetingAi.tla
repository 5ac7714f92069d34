-------------------------------- MODULE MeetingAi --------------------------------
(***************************************************************************)
(* Five parts of meeting-ai that share no state, side by side: the delivery *)
(* of results, the opening of the store, the execution of analyses, what an *)
(* analysis may say, and the access to other services.                      *)
(* A behaviour is one of the part chosen at its start, one of Parts;        *)
(* "timely" is the delivery of results in which no lease runs out under an  *)
(* attempt, as its liveness needs.                                          *)
(***************************************************************************)
EXTENDS AnalysisDelivery, ServiceAccess

CONSTANTS
  Parts,
  Process, Event, MaxFaults,
  Requests, Live, Subscribers, Slots, QueueSize,
  Content, Numeric, Pronouns, Cue, Readings, ShortLemmas, Stems,
  Threshold, MinEvidence, MaxUnsupported, MaxMergedWords, KeptOld,
  Pieces, Picks, Claims, Owners, MaxLength, MaxDropped

-----------------------------------------------------------------------------
VARIABLES
  part,
  version, inbox, outbox, binding, scrub, plaintext, deployed, opening, seen, step, lookup, faults,
  durable, slots, request, running, future, released, connected, events, received, latest,
  transcript, dropped, cursor, offered, report

storeVars == <<version, inbox, outbox, binding, scrub, plaintext, deployed, opening, seen, step, lookup, faults>>
analysisVars == <<durable, slots, request, running, future, released, connected, events, received, latest>>
groundedVars == <<transcript, dropped, cursor, offered, report>>
partVars == <<part, vars, accessVars, storeVars, analysisVars, groundedVars>>

Store == INSTANCE StoreMigration WITH pc <- opening

Analysis == INSTANCE AnalysisApplication WITH pc <- request, queue <- events

Grounded == INSTANCE GroundedAnalysis

ASSUME MeetingAiAssumption ==
  /\ DeliveryAssumption /\ AccessAssumption /\ Store!StoreAssumption
  /\ Analysis!AnalysisAssumption /\ Grounded!GroundedAssumption

\* A part that is not the behaviour's starts in one state.
PartInit ==
  /\ part \in Parts
  /\ Init /\ AccessInit /\ Store!Init /\ Analysis!Init /\ Grounded!Init
  /\ part # "store" => version = 0
  /\ part # "analysis" => ~durable

DeliveryKept == UNCHANGED <<part, accessVars, storeVars, analysisVars, groundedVars>>

AccessKept == UNCHANGED <<part, vars, storeVars, analysisVars, groundedVars>>

StoreKept == UNCHANGED <<part, vars, accessVars, analysisVars, groundedVars>>

AnalysisKept == UNCHANGED <<part, vars, accessVars, storeVars, groundedVars>>

GroundedKept == UNCHANGED <<part, vars, accessVars, storeVars, analysisVars>>

PartNext ==
  \/ part = "delivery" /\ Next /\ DeliveryKept
  \/ part = "timely" /\ (Step \/ TimelyTick) /\ DeliveryKept
  \/ part = "access" /\ AccessNext /\ AccessKept
  \/ part = "store" /\ Store!Next /\ StoreKept
  \/ part = "analysis" /\ Analysis!Next /\ AnalysisKept
  \/ part = "grounded" /\ Grounded!Next /\ GroundedKept

PartSpec == PartInit /\ [][PartNext]_partVars

-----------------------------------------------------------------------------
(* The fairness of each part. *)

DeliveryRuns(w) == part = "timely" /\ Deliver(w) /\ DeliveryKept

TimePasses == part = "timely" /\ TimelyTick /\ DeliveryKept

StartAgain(p) == part = "store" /\ Store!Start(p) /\ StoreKept

GoOnOpening(p) == part = "store" /\ Store!Open(p) /\ StoreKept

PutKeyBack == part = "store" /\ Store!Restore /\ StoreKept

FairPartSpec ==
  /\ PartSpec
  /\ \A w \in Workers : WF_partVars(DeliveryRuns(w))
  /\ SF_partVars(TimePasses)
  /\ \A p \in Process : WF_partVars(StartAgain(p)) /\ WF_partVars(GoOnOpening(p))
  /\ WF_partVars(PutKeyBack)

-----------------------------------------------------------------------------
\* AnalysisDelivery: every accepted result is delivered or given up.
TimelyDecided == part = "timely" => EveryResultDecided

\* StoreMigration: who serves can read every row and find every event, and no plaintext is left.
StoreSound == Store!StoreSound

\* StoreMigration: opening a store neither drops nor merges a row.
NothingForgotten == Store!NothingForgotten

\* StoreMigration: a store without two rows of one event opens in the end.
Upgrades == part = "store" => Store!Upgrades

\* AnalysisApplication: no more threads than slots, no slot lost, the latest result kept.
AnalysisSound == Analysis!AnalysisSound

\* GroundedAnalysis: what is shown rests on one sentence.
ShownIsEntailed == Grounded!ShownIsEntailed

\* GroundedAnalysis: a claim chosen by number is shown.
ChosenIsShown == Grounded!ChosenIsShown

\* GroundedAnalysis: what a live menu hides was judged.
HiddenWasJudged == Grounded!HiddenWasJudged

\* GroundedAnalysis: a summary sentence chosen by number is shown.
ChosenSummaryIsShown == Grounded!ChosenSummaryIsShown

=============================================================================
