--------------------------- MODULE MatchEvidence ---------------------------
(***************************************************************************)
(* What the matcher learns from: the decision log, the questions about     *)
(* decisions made alone (src/inquiry.go), the answers of the review queue, *)
(* and the fitted parameter sets a person watches, promotes and reverts    *)
(* (src/promotion.go), with their tables in src/store/store.go.            *)
(*                                                                         *)
(* A run holds the lock of the syncer; of the requests only ResolveHeld    *)
(* does.  Answering a question, watching, promoting and reverting go on    *)
(* beside a run and beside each other, one write to the database at a      *)
(* time.  What PromotionStatus and WatchTrial gather in several reads      *)
(* before they write anything is one step each: PromoteJudges, WatchReads. *)
(*                                                                         *)
(* A fitted set is known by how many labels of either kind it was fitted   *)
(* to, a comparison by the decision it was made for.  The statistics that  *)
(* say whether a set is better are a constant.  One account; a             *)
(* transaction's records share its date.  With which set a run decides is  *)
(* left out (matchPolicy; linkageInForce reads the promoted set again).    *)
(* What is held, and what a decision does to the budget, is in ReviewQueue *)
(* and TwinImport.                                                         *)
(***************************************************************************)
EXTENDS Naturals, FiniteSets, FiniteSetsExt

CONSTANTS
    Payments,            \* transactions, by their pending key
    Visitors,            \* requests of the browser that may be under way together
    AnchorsHold(_),      \* the documented cases come out the same under a set
    Outscores(_, _),     \* a set beats the one in force on what was held back
    MinLabels,           \* minPromotionLabels
    MaxDecisions, MaxQuestions, MaxRules, MaxSample,  \* bounds
    MaxLosses            \* bound: failed statements and restarts

ASSUME BoundsAssumption == {MaxDecisions, MaxQuestions, MaxRules, MaxSample, MaxLosses} \subseteq Nat

VARIABLES
    decisions,      \* match_decisions; told is history: what a label was given about
    nextDecision,
    questions,      \* match_inquiries without an answer
    nextQuestion,
    awaiting,       \* match_reviews: the decision a held payment waits with, or 0
    dated,          \* how each payment's date stands to the cutoffs
    inForce,        \* the setting promoted_trial
    watched,        \* the setting shadow_trial
    rules,          \* version of the operator's own settings
    sample,         \* level_observations, by the rules they were counted under
    matching,       \* the run under way
    visit,          \* the requests under way
    \* History: keys under which the newest record need not be the one meant, for
    \* it never reached the log or one run decided two transactions under it;
    \* sets the gate was open for at some time.
    blurred, opened,
    losses

evidence == <<decisions, nextDecision, blurred>>
inquiry == <<questions, nextQuestion>>
parameters == <<inForce, watched, rules>>
evidenceVars == <<evidence, inquiry, parameters, awaiting, dated, sample, matching,
                  visit, opened, losses>>

Shipped == [yes |-> 0, no |-> 0, sampled |-> 0]
None == Shipped
DecisionIds == 1..MaxDecisions
Pairs == DecisionIds \X {"best", "other"}
NoPair == <<0, "">>
NoRun == [step |-> "off", asks |-> FALSE, found |-> {}, met |-> {}]
NoVisit == [step |-> "off", question |-> 0, answer |-> "", trial |-> None, rules |-> 0]

OutOfWindow(p) == dated[p] \in {"past", "old"}

-----------------------------------------------------------------------------
(***************************************************************************)
(* Evidence, and what is fitted to it.                                     *)
(***************************************************************************)
Labelled == {d \in decisions : d.truth # ""}
Counted(t) == Cardinality({d \in decisions : d.truth = t})
SampledU == sample[rules]
Fitted == [yes |-> Counted("yes"), no |-> Counted("no"), sampled |-> SampledU]
IsZero(t) == t.yes + t.no = 0

AnchorCheck == IF AnchorsHold(Fitted) THEN "passed" ELSE "failed"
\* Two sets that decide nothing differently cannot be told apart.
CalibrationCheck(set) ==
    IF Cardinality(Labelled) < MinLabels \/ Fitted = set THEN "unavailable"
    ELSE IF Outscores(Fitted, set) THEN "passed" ELSE "failed"
GateOpen(set) == {AnchorCheck, CalibrationCheck(set)} = {"passed"}
Version(set) == <<set, rules>>

\* The decision the log holds as the newest about a payment, or 0.
Named(p) == {d \in decisions : d.of = p /\ d.named}
Latest(p) == Max({d.id : d \in Named(p)} \cup {0})

Labelling(i, t, pair, told) ==
    decisions' = {IF d.id = i THEN [d EXCEPT !.truth = t, !.pair = pair, !.told = told]
                  ELSE d : d \in decisions}
PairOf(i) == (CHOOSE d \in decisions : d.id = i).pair
Recorded(i) == \E d \in decisions : d.id = i

\* A statement that may fail, or a process that may stop.
Loses == losses < MaxLosses /\ losses' = losses + 1

-----------------------------------------------------------------------------
(***************************************************************************)
(* The run.                                                                *)
(***************************************************************************)
At(s) == matching.step = s
Goes(s) == matching' = [matching EXCEPT !.step = s]
RunEnds == matching' = NoRun

Unreachable(p) == OutOfWindow(p) \/ dated[p] = "ahead"
Aged(d) == IF Unreachable(d.of) THEN [d EXCEPT !.named = FALSE] ELSE d
PruneMatchReviews ==
    awaiting' = [p \in Payments |-> IF OutOfWindow(p) THEN 0 ELSE awaiting[p]]
\* Unanswered decisions go, answered ones lose what they could be found by.
PruneMatchDecisions ==
    decisions' = {Aged(d) : d \in {e \in decisions : /\ dated[e.of] # "old"
                                                     /\ e.truth = "" => ~Unreachable(e.of)}}
SyncOpens ==
    /\ At("off") /\ Goes("inquiries")
    /\ PruneMatchReviews /\ PruneMatchDecisions
    /\ UNCHANGED <<nextDecision, blurred, inquiry, parameters, dated, sample, visit, losses>>

OutdatedAnswered == {}
Outdated == {q \in questions : OutOfWindow(q.of)}
PruneMatchInquiries == questions' = questions \ Outdated
PruneLevelObservations ==
    sample' = [r \in DOMAIN sample |-> IF r = rules THEN sample[r] ELSE 0]
SyncPrunes ==
    /\ At("inquiries") /\ Goes("sampler")
    /\ PruneMatchInquiries /\ PruneLevelObservations
    /\ UNCHANGED <<evidence, nextQuestion, parameters, awaiting, dated, visit, losses>>

\* newInquirySampler: no question while one is open.
AlwaysAsks == TRUE
MayAsk == questions = {}
SamplerStarts ==
    /\ At("sampler")
    /\ matching' = [matching EXCEPT !.step = "deciding", !.asks = MayAsk]
    /\ UNCHANGED <<evidence, inquiry, parameters, awaiting, dated, sample, visit, losses>>

Row(p, t) == [id |-> nextDecision, of |-> p, pair |-> <<nextDecision, "best">>,
              truth |-> t, named |-> TRUE,
              told |-> IF t = "" THEN NoPair ELSE <<nextDecision, "best">>]
\* AddMatchDecision; a failure is logged and the import goes on.
Add(p, t) ==
    \/ decisions' = decisions \cup {Row(p, t)} /\ UNCHANGED losses
    \/ Loses /\ UNCHANGED decisions

\* The sampler takes what was settled alone; a key met again replaces itself.
Consider(p) ==
    IF matching.asks
    THEN {f \in matching.found : f.of # p} \cup {[of |-> p, about |-> nextDecision]}
    ELSE {}
\* An authorisation and a booking listed together may share their key.
DecideOne(p, t, found) ==
    /\ At("deciding") /\ (awaiting[p] = 0 \/ p \in matching.met) /\ dated[p] # "old"
    /\ nextDecision \in DecisionIds /\ nextDecision' = nextDecision + 1
    /\ Add(p, t)
    /\ matching' = [matching EXCEPT !.met = @ \cup {p}, !.found = found]
    /\ blurred' = IF losses' > losses \/ p \in matching.met THEN blurred \cup {p} ELSE blurred
    /\ UNCHANGED <<inquiry, parameters, dated, sample, visit>>
\* recordDecision, then the sampler: adopted or created.
DecideAlone(p) == DecideOne(p, "", Consider(p)) /\ UNCHANGED awaiting
DecideHeld(p) ==
    DecideOne(p, "", matching.found) /\ awaiting' = [awaiting EXCEPT ![p] = nextDecision]
\* recordReferenceLabel: a key settled the pair, and it is evidence only if it
\* was the bank's own reference.
ReferenceLabel(p) ==
    /\ \E t \in {"yes", ""} : DecideOne(p, t, matching.found)
    /\ UNCHANGED awaiting

\* flushUSample: the pairs that were weighed and not chosen, if there were any.
FlushUSample ==
    /\ At("deciding")
    /\ matching' = [NoRun EXCEPT !.step = "asking", !.found = matching.found]
    /\ \/ UNCHANGED <<sample, losses>>
       \/ /\ matching.met # {} /\ sample[rules] < MaxSample
          /\ sample' = [sample EXCEPT ![rules] = @ + 1]
          /\ UNCHANGED losses
    /\ UNCHANGED <<evidence, inquiry, parameters, awaiting, dated, visit>>

\* The question is pinned to the newest record of its payment.
Pinned(p) == Latest(p)
Question(f) == [id |-> nextQuestion, of |-> f.of, decision |-> Pinned(f.of),
                about |-> f.about]
Ask ==
    /\ At("asking") /\ RunEnds
    /\ nextQuestion <= MaxQuestions
    /\ \E f \in matching.found : questions' = questions \cup {Question(f)}
    /\ nextQuestion' = nextQuestion + 1
    /\ UNCHANGED <<evidence, parameters, awaiting, dated, sample, visit, losses>>
\* Nothing worth asking about, or the question could not be written.
AskNothing ==
    /\ At("asking") /\ RunEnds
    /\ UNCHANGED <<evidence, inquiry, parameters, awaiting, dated, sample, visit, losses>>

MatchingStep ==
    \/ SyncOpens \/ SyncPrunes \/ SamplerStarts
    \/ \E p \in Payments : DecideAlone(p) \/ DecideHeld(p) \/ ReferenceLabel(p)
    \/ FlushUSample \/ Ask \/ AskNothing

-----------------------------------------------------------------------------
(***************************************************************************)
(* The review page.  ResolveHeld holds the lock, so no run is between its  *)
(* steps; what it does besides filing the answer is in ReviewQueue.        *)
(***************************************************************************)
VisitAt(v, s) == visit[v].step = s
VisitEnds(v) == visit' = [visit EXCEPT ![v] = NoVisit]

Struck(p) == awaiting' = [awaiting EXCEPT ![p] = 0]
\* recordReviewAnswer, where nothing was chosen: two payments.
AnswerCreated(p) ==
    /\ At("off") /\ awaiting[p] # 0
    /\ Struck(p)
    /\ IF Latest(p) = 0 THEN UNCHANGED decisions     \* ErrNoSuchDecision
       ELSE Labelling(Latest(p), "no", PairOf(Latest(p)), <<awaiting[p], "best">>)
    /\ UNCHANGED <<nextDecision, blurred, inquiry, parameters, dated, sample, matching,
                   visit, losses>>
\* The levels become those of the candidate the person merged into.
Resolved(chosen, i) == chosen
AnswerMerged(p) ==
    /\ At("off") /\ awaiting[p] # 0
    /\ Struck(p)
    /\ IF Latest(p) = 0 THEN UNCHANGED decisions
       ELSE \E c \in {"best", "other"} : LET chosen == <<awaiting[p], c>>
               IN Labelling(Latest(p), "yes", Resolved(chosen, Latest(p)), chosen)
    /\ UNCHANGED <<nextDecision, blurred, inquiry, parameters, dated, sample, matching,
                   visit, losses>>

\* OpenInquiry, and the page shows the question that is answered.
Newest == CHOOSE q \in questions : \A r \in questions : r.id <= q.id
AnswerReads(v) ==
    /\ VisitAt(v, "off") /\ questions # {}
    /\ \E a \in {"yes", "no", "unknown"} :
          visit' = [visit EXCEPT ![v] = [NoVisit EXCEPT !.answer = a,
                                            !.step = IF a = "unknown" THEN "closing" ELSE "filing",
                                            !.question = Newest]]
    /\ UNCHANGED <<evidence, inquiry, parameters, awaiting, dated, sample, matching, losses>>

\* A plausible slip: the newest record of the payment, as for a held one.
FiledAtNewest(q) == Latest(q.of)
\* recordInquiryAnswer: the record the question was pinned to.
FiledAt(q) == IF q.decision # 0 THEN q.decision ELSE Latest(q.of)
FileAnswer(v) ==
    /\ VisitAt(v, "filing")
    /\ LET q == visit[v].question
           i == FiledAt(q)
       IN IF Recorded(i)
          THEN Labelling(i, visit[v].answer, PairOf(i), <<q.about, "best">>)
          ELSE UNCHANGED decisions                   \* ErrNoSuchDecision
    /\ visit' = [visit EXCEPT ![v].step = "closing"]
    /\ UNCHANGED <<nextDecision, blurred, inquiry, parameters, awaiting, dated, sample,
                   matching, losses>>
CloseInquiry(v) ==
    /\ VisitAt(v, "closing") /\ VisitEnds(v)
    /\ questions' = questions \ {visit[v].question}
    /\ UNCHANGED <<evidence, nextQuestion, parameters, awaiting, dated, sample, matching,
                   losses>>

-----------------------------------------------------------------------------
(***************************************************************************)
(* The page of the matching parameters.                                    *)
(***************************************************************************)
\* WatchTrial of the candidate on the page, if it is the candidate still: settings,
\* labels and samples are separate reads, here one step.
WatchReads(v) ==
    /\ VisitAt(v, "off") /\ Labelled # {}
    /\ visit' = [visit EXCEPT ![v] = [NoVisit EXCEPT !.step = "watching", !.trial = Fitted]]
    /\ UNCHANGED <<evidence, inquiry, parameters, awaiting, dated, sample, matching, losses>>
WatchWrites(v) ==
    /\ VisitAt(v, "watching") /\ VisitEnds(v)
    /\ watched' = visit[v].trial
    /\ UNCHANGED <<evidence, inquiry, inForce, rules, awaiting, dated, sample, matching,
                   losses>>
StopWatching ==
    /\ ~IsZero(watched) /\ watched' = None
    /\ UNCHANGED <<evidence, inquiry, inForce, rules, awaiting, dated, sample,
                   matching, visit, losses>>

\* PromoteTrial: the watched set is read, and is the one on the page.
PromoteReads(v) ==
    /\ VisitAt(v, "off") /\ ~IsZero(watched)
    /\ visit' = [visit EXCEPT ![v] = [NoVisit EXCEPT !.step = "judging", !.trial = watched,
                                                     !.rules = rules]]
    /\ UNCHANGED <<evidence, inquiry, parameters, awaiting, dated, sample, matching, losses>>
\* PromotionStatus, and what PromoteTrial asks of it: the set in force (twice),
\* labels, watched set and samples are separate reads, here one step.
\* A plausible slip: the gate is asked, and not for which set.
GateOnly(v) == GateOpen(inForce)
Promotable(v) == GateOpen(inForce) /\ Version(Fitted) = <<visit[v].trial, visit[v].rules>>
PromoteJudges(v) ==
    /\ VisitAt(v, "judging")
    /\ visit' = [visit EXCEPT ![v] = IF Promotable(v) THEN [@ EXCEPT !.step = "installing",
                                                                   !.rules = 0]
                                     ELSE NoVisit]
    /\ UNCHANGED <<evidence, inquiry, parameters, awaiting, dated, sample, matching, losses>>
PromoteInstalls(v) ==
    /\ VisitAt(v, "installing")
    /\ visit' = [visit EXCEPT ![v] = [NoVisit EXCEPT !.step = "clearing"]]
    /\ inForce' = visit[v].trial
    /\ UNCHANGED <<evidence, inquiry, watched, rules, awaiting, dated, sample,
                   matching, losses>>
PromoteClears(v) ==
    /\ VisitAt(v, "clearing") /\ VisitEnds(v)
    /\ \/ watched' = None /\ UNCHANGED losses
       \/ Loses /\ UNCHANGED watched
    /\ UNCHANGED <<evidence, inquiry, inForce, rules, awaiting, dated, sample,
                   matching>>
RevertParameters ==
    /\ inForce # Shipped /\ inForce' = Shipped
    /\ UNCHANGED <<evidence, inquiry, watched, rules, awaiting, dated, sample,
                   matching, visit, losses>>

\* The operator changes tolerance, prefixes, window or thresholds.
SettingsChange ==
    /\ rules < MaxRules /\ rules' = rules + 1
    /\ UNCHANGED <<evidence, inquiry, inForce, watched, awaiting, dated, sample,
                   matching, visit, losses>>

VisitStep ==
    \/ \E p \in Payments : AnswerCreated(p) \/ AnswerMerged(p)
    \/ \E v \in Visitors : \/ AnswerReads(v) \/ FileAnswer(v) \/ CloseInquiry(v)
                           \/ WatchReads(v) \/ WatchWrites(v)
                           \/ PromoteReads(v) \/ PromoteJudges(v)
                           \/ PromoteInstalls(v) \/ PromoteClears(v)
    \/ StopWatching \/ RevertParameters \/ SettingsChange

-----------------------------------------------------------------------------
(***************************************************************************)
(* Time, and the end of the process.                                       *)
(***************************************************************************)
Later(d) == CASE d = "ahead" -> "near" [] d = "near" -> "past" [] OTHER -> "old"
TimePasses(p) ==
    /\ dated[p] # "old" /\ dated' = [dated EXCEPT ![p] = Later(@)]
    /\ UNCHANGED <<evidence, inquiry, parameters, awaiting, sample, matching, visit, losses>>

Restarts ==
    /\ Loses /\ RunEnds
    /\ visit' = [v \in Visitors |-> NoVisit]
    /\ UNCHANGED <<evidence, inquiry, parameters, awaiting, dated, sample>>

EvidenceInit ==
    /\ decisions = {} /\ nextDecision = 1 /\ questions = {} /\ nextQuestion = 1
    /\ awaiting = [p \in Payments |-> 0]
    /\ dated \in [Payments -> {"ahead", "near", "past"}]
    /\ inForce = Shipped /\ watched = None /\ rules = 0
    /\ sample = [r \in 0..MaxRules |-> 0]
    /\ matching = NoRun /\ visit = [v \in Visitors |-> NoVisit]
    /\ blurred = {} /\ opened = {} /\ losses = 0

\* History: what the gate was open for, of the sets still known to somebody.
HeldOn == {Fitted, watched} \cup {visit[v].trial : v \in Visitors}
Opens == opened' = (opened \cup (IF GateOpen(inForce)' THEN {Fitted'} ELSE {})) \cap HeldOn'
EvidenceNext ==
    /\ MatchingStep \/ VisitStep \/ (\E p \in Payments : TimePasses(p)) \/ Restarts
    /\ Opens

\* The scheduler starts run after run, each within its deadline; days pass.
EvidenceFairness ==
    /\ WF_evidenceVars(MatchingStep /\ Opens)
    /\ \A p \in Payments : WF_evidenceVars(TimePasses(p) /\ Opens)
EvidenceSpec == EvidenceInit /\ [][EvidenceNext]_evidenceVars
EvidenceFairSpec == EvidenceSpec /\ EvidenceFairness

-----------------------------------------------------------------------------
Trials == [yes : 0..MaxDecisions, no : 0..MaxDecisions, sampled : 0..MaxSample]
\* Every state has the shape the code keeps, with one question open at a time:
\* "There is at most one unanswered at a time, and every caller relies on that"
\* (Store.OpenInquiry).
EvidenceTypeOK ==
    /\ \A d \in decisions :
          /\ d.id \in 1..(nextDecision - 1) /\ d.of \in Payments
          /\ d.pair \in Pairs /\ d.truth \in {"", "yes", "no"} /\ d.named \in BOOLEAN
    /\ Cardinality(questions) <= 1
    /\ \A q \in questions : q.id \in 1..(nextQuestion - 1) /\ q.decision \in 0..MaxDecisions
    /\ awaiting \in [Payments -> 0..MaxDecisions]
    /\ dated \in [Payments -> {"ahead", "near", "past", "old"}]
    /\ {inForce, watched} \subseteq Trials
    /\ rules \in 0..MaxRules /\ losses \in 0..MaxLosses
    /\ \A f \in matching.found : f.of \in Payments /\ f.about \in DecisionIds

\* A label describes the comparison the person was shown, however late the
\* answer, and whatever was decided about the same payment since: a label on
\* another record teaches the fit the wrong levels (recordInquiryAnswer).
LabelsDescribeThePair ==
    \A d \in Labelled : d.of \in blurred \/ d.pair = d.told

\* A set goes into force only if the gate was open for that very set at some time
\* while somebody knew it, however watching, stopping, promoting, reverting and
\* new answers overlap: it may have closed between the judgement and the write
\* (PromoteTrial: "Only the watched one, and only when the gate is open").
PromotedAsJudged ==
    [][inForce' \notin {inForce, Shipped} => inForce' \in opened]_evidenceVars

\* An open question does not stay in the way of every later one: nobody need
\* ever answer it (PruneMatchInquiries: "keeping it would block the next one
\* indefinitely").
Unblocks == questions # {} ~> questions = {}
=============================================================================
