-------------------------- MODULE MCBackgroundStart --------------------------
(* Model-checking instance of BackgroundStart: see README, "Runs". *)
EXTENDS BackgroundStart, TLC

CONSTANTS s1, s2, p1

MCStarter == {s1, s2}
MCProc == {s1, s2, p1}
=============================================================================
