----------------------------- MODULE MCOwnership -----------------------------
(* Model-checking instances of Ownership: see README, "Runs". *)
EXTENDS Ownership, TLC

CONSTANTS p1, p2, p3

MCProc2 == {p1, p2}
MCProc3 == {p1, p2, p3}
=============================================================================
