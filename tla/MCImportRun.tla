---------------------------- MODULE MCImportRun ----------------------------
(***************************************************************************)
(* Two accounts: a1 was connected with a start date and has two payments,  *)
(* a2 has no start date (what a backend migration leaves) and has one.     *)
(***************************************************************************)
EXTENDS ImportRun

CONSTANTS a1, a2, p1, p2, p3

MCAccountOf == [p \in Payments |-> IF p = p3 THEN a2 ELSE a1]
MCTieBreak == [p \in Payments |-> IF p = p1 THEN 1 ELSE IF p = p2 THEN 2 ELSE 3]
MCConnectedFrom == [a \in Accounts |-> IF a = a1 THEN 1 ELSE 0]
=============================================================================
