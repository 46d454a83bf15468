---------------------------- MODULE MCDriverLock ----------------------------
(* Model-checking instances of DriverLock: see README, "Runs". *)
EXTENDS DriverLock, TLC

CONSTANTS p1, p2, p3, p4

\* Four processes; p4 runs under the pid p1 had.
MCProc4 == {p1, p2, p3, p4}
MCPidReissued == (p1 :> 11) @@ (p2 :> 12) @@ (p3 :> 13) @@ (p4 :> 11)

\* Three starts that may overlap: the instance of README, section 5.
MCProc3 == {p1, p2, p3}
MCPidDistinct == (p1 :> 11) @@ (p2 :> 12) @@ (p3 :> 13)
=============================================================================
