--------------------------- MODULE MCReviewQueue ---------------------------
(***************************************************************************)
(* Three instances in one run, and in each behaviour one of them moves:    *)
(* the review queue with two requests that may be under way together, and, *)
(* for what has to happen in the end, the Firefly backend and the question *)
(* the matcher asks.                                                       *)
(***************************************************************************)
EXTENDS ReviewQueue, FireflyStore, MatchEvidence

CONSTANTS c1, u1, u2, p1, v1

\* A fit that has seen no match at all moves an anchor; more evidence is better
\* than less.
MCAnchorsHold(set) == set.yes > 0
MCOutscores(set, other) == set.yes + set.no > other.yes + other.no

VARIABLE part
mcVars == <<vars, fireflyVars, evidenceVars, part>>

MCInit == /\ Init /\ FireflyInit /\ EvidenceInit
          /\ part \in {"queue", "firefly", "evidence"}
          /\ part = "evidence" \/ \A p \in Payments : dated[p] = "near"

QueuePart == part = "queue" /\ UNCHANGED <<fireflyVars, evidenceVars, part>>
FireflyPart == part = "firefly" /\ UNCHANGED <<vars, evidenceVars, part>>
EvidencePart == part = "evidence" /\ UNCHANGED <<vars, fireflyVars, part>>

MCNext == \/ QueuePart /\ Next
          \/ FireflyPart /\ FireflyNext
          \/ EvidencePart /\ EvidenceNext

\* One of the two moves alone, so one condition says it of both.
MCFairness ==
    /\ WF_mcVars(\/ FireflyPart /\ RunStep
                 \/ EvidencePart /\ MatchingStep /\ Opens)
    /\ \A p \in Payments : WF_mcVars(EvidencePart /\ TimePasses(p) /\ Opens)
MCSpec == MCInit /\ [][MCNext]_mcVars /\ MCFairness
=============================================================================
