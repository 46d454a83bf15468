---------------------------- MODULE MCResolution ----------------------------
(* Model-checking instances of Resolution: see README, "Runs". *)
EXTENDS Resolution, TLC

CONSTANTS w1, o1

MCWatcher == {w1}
MCNoOperator == {}
MCOperator1 == {o1}
=============================================================================
