----------------------------- MODULE MCLogDrain -----------------------------
(* Model-checking instances of LogDrain: see README, "Runs". *)
EXTENDS LogDrain

CONSTANTS p1, p2

MCProc2 == {p1, p2}
MCMayBeUnfit == {2}
=============================================================================
