-------------------------- MODULE MCEffectExecutor --------------------------
(* Model-checking instances of EffectExecutor: see README, "Runs". *)
EXTENDS EffectExecutor

CONSTANTS p1, k1, k2, i1, i2

MCProc == {p1}
MCKey == {k1, k2}
MCIdentity == {i1, i2}
=============================================================================
