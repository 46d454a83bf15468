----------------------------- MODULE MCTaskStart -----------------------------
(* Model-checking instances of TaskStart: see README, "Runs". *)
EXTENDS TaskStart, TLC

CONSTANTS c1, c2, s1, s2, r1, r2, p1, p2

MCCall == {c1, c2}
MCChild2 == {p1, p2}

MCOneServer == c1 :> s1 @@ c2 :> s1
MCTwoServers == c1 :> s1 @@ c2 :> s2

MCSymmetry == Permutations(MCChild2) \cup Permutations(MCCall) \cup Permutations({r1, r2})
=============================================================================
