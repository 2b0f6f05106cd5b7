------------------------------ MODULE MCTwins ------------------------------
(***************************************************************************)
(* Two instances in one run, and in each behaviour one of them moves: the  *)
(* import of purchases that look alike, and what the matcher learns from   *)
(* its decisions.                                                          *)
(***************************************************************************)
EXTENDS MCTwinImport, MatchEvidence

CONSTANTS p1, v1

\* A fit that has seen no match at all moves an anchor; more evidence is better
\* than less.
MCAnchorsHold(set) == set.yes > 0
MCOutscores(set, other) == set.yes + set.no > other.yes + other.no

VARIABLE part
mcVars == <<vars, evidenceVars, part>>

MCInit == /\ Init /\ EvidenceInit /\ part \in {"twins", "evidence"}
          /\ part = "evidence" \/ \A p \in Payments : dated[p] = "near"

TwinsPart == part = "twins" /\ UNCHANGED <<evidenceVars, part>>
EvidencePart == part = "evidence" /\ UNCHANGED <<vars, part>>

MCNext == \/ TwinsPart /\ Next
          \/ EvidencePart /\ EvidenceNext

MCSpec == MCInit /\ [][MCNext]_mcVars

\* The type invariants of the two: feed, rows and bookkeeping, and decisions,
\* labels, questions and parameters keep the form the stores give them.
TypesOK == TypeOK /\ EvidenceTypeOK
=============================================================================
