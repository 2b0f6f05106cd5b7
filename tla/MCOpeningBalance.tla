-------------------------- MODULE MCOpeningBalance --------------------------
(* Two bookings that cancel out: the amount alone does not tell they came. *)
EXTENDS OpeningBalance

CONSTANTS p1, p2

MCAmount == [p \in Payments |-> IF p = p1 THEN 1 ELSE -1]
=============================================================================
