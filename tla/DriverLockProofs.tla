-------------------------- MODULE DriverLockProofs --------------------------
(***************************************************************************)
(* Proofs about DriverLock, for any number of processes, pids and kills.   *)
(* Types hold however many starts overlap; the invariants are about starts *)
(* that do not overlap at the gate (MaxGate = 1).                          *)
(***************************************************************************)
EXTENDS DriverLock, FiniteSetTheorems, TLAPS

\* Every step keeps the types of the record, the descriptors and the processes.
LEMMA TypeStep == LockTypeOK /\ [LockNext]_lockVars => LockTypeOK'
<1> SUFFICES ASSUME LockTypeOK, [LockNext]_lockVars
             PROVE  LockTypeOK'
  OBVIOUS
<1> USE DriverLockAssumption
<1> USE DEF LockTypeOK, Goto
<1>0. /\ {"new", "waiting", "ended"} \cup Gate \cup Handing \cup Driver = Place
      /\ {"oneshot", "first", "again"} = Mode
  BY DEF Place, Mode
<1>1. ASSUME NEW p \in Proc, Start(p)
      PROVE  LockTypeOK'
  BY <1>0, <1>1 DEF Start, Launch, Gate
<1>2. ASSUME NEW p \in Proc, GateRead(p) \/ GateReread(p)
      PROVE  LockTypeOK'
  BY <1>0, <1>2 DEF GateRead, GateReread, Refuse, Gate, Driver
<1>3. ASSUME NEW p \in Proc, GateClear(p) \/ GateCreate(p)
      PROVE  LockTypeOK'
  BY <1>0, <1>3 DEF GateClear, GateCreate, ClearDriverLock, Gate
<1>4. ASSUME NEW p \in Proc, GateFill(p) \/ GateTruncate(p)
      PROVE  LockTypeOK'
  BY <1>0, <1>4 DEF GateFill, GateTruncate, Fill, Truncate, Gate, Driver
<1>5. ASSUME NEW p \in Proc, ReleaseAndExit(p) \/ KeepAndExit(p) \/ EndWatch(p)
      PROVE  LockTypeOK'
  BY <1>0, <1>5 DEF ReleaseAndExit, KeepAndExit, EndWatch, ClearDriverLock
<1>6. ASSUME NEW p \in Proc, KeepAndWatch(p) \/ Reenter(p)
      PROVE  LockTypeOK'
  BY <1>0, <1>6 DEF KeepAndWatch, Reenter, Gate, Driver
<1>7. ASSUME NEW p \in Proc, HandOff(p) \/ SpawnFails(p)
      PROVE  LockTypeOK'
  BY <1>0, <1>7 DEF HandOff, SpawnFails, ClearDriverLock, Handing
<1>8. ASSUME NEW p \in Proc, SpawnChild(p)
      PROVE  LockTypeOK'
  BY <1>0, <1>8 DEF SpawnChild, Launch, Gate
<1>9. ASSUME NEW p \in Proc, Restore(p) \/ RestoreFill(p)
      PROVE  LockTypeOK'
  BY <1>0, <1>9 DEF Restore, RestoreFill, Fill, Truncate, Handing, Driver
<1>10. ASSUME NEW p \in Proc, ParentExits(p) \/ Kill(p)
       PROVE  LockTypeOK'
  BY <1>0, <1>10 DEF ParentExits, Kill
<1>11. CASE UNCHANGED lockVars
  BY <1>11 DEF lockVars
<1> QED
  BY <1>1, <1>2, <1>3, <1>4, <1>5, <1>6, <1>7, <1>8, <1>9, <1>10, <1>11
  DEF LockNext, GateStep, HandOffStep

\* The lock record, the descriptors on it and the processes stay well typed,
\* overlapping starts, hand-offs and kills included.
THEOREM LockTypeCorrect == LockSpec => []LockTypeOK
<1>1. LockInit => LockTypeOK
  BY DriverLockAssumption DEF LockInit, LockTypeOK, Place, Mode
<1> QED
  BY <1>1, TypeStep, PTL DEF LockSpec

-----------------------------------------------------------------------------
\* A gate that admits one process at a time is empty when it admits one.
LEMMA GateIsEmpty ==
  ASSUME MaxGate = 1, LockInv, Cardinality(InGate) < MaxGate
  PROVE  InGate = {}
<1> SUFFICES ASSUME NEW p \in InGate PROVE FALSE
  OBVIOUS
<1>1. InGate = {p}
  BY DEF LockInv
<1> QED
  BY <1>1, FS_Singleton

\* What a step that moves only p does to the gate and to the drivers.
LEMMA Moves ==
  ASSUME LockTypeOK, NEW p \in Proc, NEW x \in Place, Goto(p, x)
  PROVE  /\ pc'[p] = x /\ \A q \in Proc \ {p} : pc'[q] = pc[q]
         /\ x \notin Gate \cup Handing => InGate' = InGate \ {p}
         /\ x \in Gate \cup Handing => InGate' = InGate \cup {p}
<1>1. pc'[p] = x /\ \A q \in Proc \ {p} : pc'[q] = pc[q]
  BY DEF Goto, LockTypeOK
<1> QED
  BY <1>1 DEF InGate

\* The places of a process are disjoint groups.
LEMMA Places ==
  /\ Gate \cap Driver = {} /\ Handing \cap Driver = {} /\ Gate \cap Handing = {}
  /\ {"new", "waiting", "ended"} \cap (Gate \cup Handing \cup Driver) = {}
  /\ {"read", "clear", "create", "fill", "reread", "truncate", "overfill"} = Gate
  /\ {"spawn", "restore", "restorefill"} = Handing /\ {"driving", "watching"} = Driver
  /\ {"new", "waiting", "ended"} \cup Gate \cup Handing \cup Driver = Place
BY DEF Gate, Handing, Driver, Place

\* Every step keeps the inductive invariant when starts do not overlap.
LEMMA InvStep ==
  ASSUME MaxGate = 1
  PROVE  LockTypeOK /\ LockInv /\ [LockNext]_lockVars => LockInv'
<1> SUFFICES ASSUME LockTypeOK, LockInv, [LockNext]_lockVars
             PROVE  LockInv'
  OBVIOUS
<1> USE DriverLockAssumption, Places
<1> USE DEF LockInv, DriverOwnsLock
<1>1. ASSUME NEW p \in Proc, Start(p)
      PROVE  LockInv'
  <2>1. InGate = {} /\ pc[p] = "new" /\ mode'[p] # "again" /\ UNCHANGED <<lock, opened>>
    BY <1>1, GateIsEmpty DEF Start, Launch, LockTypeOK
  <2>2. \A q \in Proc \ {p} : mode'[q] = mode[q]
    BY <1>1 DEF Start, Launch, LockTypeOK
  <2>3. /\ pc'[p] = "read" /\ \A q \in Proc \ {p} : pc'[q] = pc[q]
        /\ InGate' = InGate \cup {p}
    BY <1>1, Moves DEF Start
  <2> QED
    BY <2>1, <2>2, <2>3
<1>2. ASSUME NEW p \in Proc, GateRead(p)
      PROVE  LockInv'
  <2>1. /\ UNCHANGED <<lock, opened, mode>> /\ pc[p] = "read" /\ p \in InGate
        /\ InGate = {p}
    BY <1>2 DEF GateRead, InGate
  <2>2. CASE lock = p /\ Goto(p, "driving")
    BY <2>1, <2>2, Moves
  <2>3. CASE lock \in Proc /\ ~(mode[p] = "again" /\ lock = p) /\ PidAlive(lock)
             /\ Refuse(p)
    BY <2>1, <2>3, Moves DEF Refuse
  <2>4. CASE lock \in Proc /\ ~PidAlive(lock) /\ Goto(p, "clear")
    BY <2>1, <2>4, Moves DEF PidAlive, Alive
  <2>5. CASE lock \notin Proc /\ Goto(p, "create")
    BY <2>1, <2>5, Moves
  <2> QED
    BY <1>2, <2>2, <2>3, <2>4, <2>5 DEF GateRead
<1>3. ASSUME NEW p \in Proc, GateClear(p)
      PROVE  LockInv'
  <2>1. /\ lock' = NoFile /\ UNCHANGED mode /\ pc[p] = "clear" /\ InGate = {p}
        /\ pc'[p] = "create" /\ \A q \in Proc \ {p} : pc'[q] = pc[q]
        /\ InGate' = InGate \cup {p}
    BY <1>3, Moves DEF GateClear, ClearDriverLock, InGate
  <2> QED
    BY <2>1 DEF InGate
<1>4. ASSUME NEW p \in Proc, GateCreate(p)
      PROVE  LockInv'
  <2>1. UNCHANGED mode /\ pc[p] = "create" /\ InGate = {p}
    BY <1>4 DEF GateCreate, InGate
  <2>2. CASE lock' = Unparsable /\ opened' = {p} /\ Goto(p, "fill")
    BY <2>1, <2>2, Moves DEF InGate
  <2>3. CASE UNCHANGED <<lock, opened>> /\ Goto(p, "reread")
    BY <2>1, <2>3, Moves DEF InGate
  <2> QED
    BY <1>4, <2>2, <2>3 DEF GateCreate
<1>5. ASSUME NEW p \in Proc, GateFill(p)
      PROVE  LockInv'
  <2>1. /\ UNCHANGED mode /\ pc[p] \in {"fill", "overfill"} /\ InGate = {p}
        /\ pc'[p] = "driving" /\ \A q \in Proc \ {p} : pc'[q] = pc[q]
        /\ InGate' = {}
    BY <1>5, Moves DEF GateFill, InGate
  <2>2. lock' = p
    BY <1>5, <2>1 DEF GateFill, Fill
  <2> QED
    BY <2>1, <2>2 DEF InGate
<1>6. ASSUME NEW p \in Proc, GateReread(p)
      PROVE  LockInv'
  <2>1. /\ UNCHANGED <<lock, opened, mode>> /\ pc[p] = "reread" /\ InGate = {p}
        /\ mode[p] # "again"
    BY <1>6 DEF GateReread, InGate
  <2>2. CASE Refuse(p)
    BY <2>1, <2>2, Moves DEF Refuse, InGate
  <2>3. CASE Goto(p, "truncate")
    BY <2>1, <2>3, Moves DEF InGate
  <2> QED
    BY <1>6, <2>2, <2>3 DEF GateReread
<1>7. ASSUME NEW p \in Proc, GateTruncate(p) \/ Restore(p)
      PROVE  LockInv'
  <2>1. /\ UNCHANGED mode /\ pc[p] \in {"truncate", "restore"} /\ InGate = {p}
        /\ pc'[p] = (IF pc[p] = "truncate" THEN "overfill" ELSE "restorefill")
        /\ \A q \in Proc \ {p} : pc'[q] = pc[q]
        /\ InGate' = InGate \cup {p}
    BY <1>7, Moves DEF GateTruncate, Restore, InGate
  <2>2. lock' = Unparsable /\ p \in opened'
    BY <1>7 DEF GateTruncate, Restore, Truncate
  <2> QED
    BY <2>1, <2>2 DEF InGate
<1>8. ASSUME NEW p \in Proc, RestoreFill(p)
      PROVE  LockInv'
  <2>1. pc[p] = "restorefill" /\ InGate = {p} /\ \A q \in Proc : pc[q] \notin Driver
    BY <1>8 DEF RestoreFill, InGate
  <2>2. lock' = p
    BY <1>8, <2>1 DEF RestoreFill, Fill
  <2>3. \A q \in Proc \ {p} : mode'[q] = mode[q]
    BY <1>8 DEF RestoreFill, LockTypeOK
  <2>4. CASE Goto(p, "ended")
    BY <2>1, <2>2, <2>3, <2>4, Moves DEF InGate
  <2>5. CASE Goto(p, "watching") /\ mode' = [mode EXCEPT ![p] = "again"]
    <3>1. mode'[p] = "again"
      BY <2>5 DEF LockTypeOK
    <3> QED
      BY <2>1, <2>2, <2>3, <2>5, <3>1, Moves DEF InGate
  <2> QED
    BY <1>8, <2>4, <2>5 DEF RestoreFill
<1>9. ASSUME NEW p \in Proc, ReleaseAndExit(p) \/ KeepAndExit(p) \/ EndWatch(p)
      PROVE  LockInv'
  <2>1. /\ UNCHANGED mode /\ pc[p] \in Driver /\ lock = p
        /\ pc'[p] = "ended" /\ \A q \in Proc \ {p} : pc'[q] = pc[q]
        /\ InGate' = InGate \ {p}
    BY <1>9, Moves DEF ReleaseAndExit, KeepAndExit, EndWatch
  <2>2. \A q \in Proc \ {p} : pc[q] \notin Driver
    BY <2>1
  <2>3. \A q \in Proc : pc[q] \in Gate \cup Handing => pc[q] = "read" /\ mode[q] # "again"
    BY <2>1 DEF InGate
  <2> QED
    BY <2>1, <2>2, <2>3 DEF InGate
<1>10. ASSUME NEW p \in Proc, KeepAndWatch(p)
       PROVE  LockInv'
  <2>1. /\ UNCHANGED <<lock, opened>> /\ pc[p] = "driving"
        /\ pc'[p] = "watching" /\ \A q \in Proc \ {p} : pc'[q] = pc[q]
        /\ InGate' = InGate \ {p}
    BY <1>10, Moves DEF KeepAndWatch
  <2>2. mode'[p] = "again" /\ \A q \in Proc \ {p} : mode'[q] = mode[q]
    BY <1>10 DEF KeepAndWatch, LockTypeOK
  <2> QED
    BY <2>1, <2>2 DEF InGate
<1>11. ASSUME NEW p \in Proc, Reenter(p)
       PROVE  LockInv'
  <2>1. /\ UNCHANGED <<lock, opened, mode>> /\ pc[p] = "watching" /\ InGate = {}
        /\ pc'[p] = "read" /\ \A q \in Proc \ {p} : pc'[q] = pc[q]
        /\ InGate' = {p}
    BY <1>11, GateIsEmpty, Moves DEF Reenter
  <2> QED
    BY <2>1 DEF InGate
<1>12. ASSUME NEW p \in Proc, HandOff(p)
       PROVE  LockInv'
  <2>1. /\ UNCHANGED mode /\ pc[p] \in Driver /\ InGate = {}
        /\ pc'[p] = "spawn" /\ \A q \in Proc \ {p} : pc'[q] = pc[q]
        /\ InGate' = {p}
    BY <1>12, GateIsEmpty, Moves DEF HandOff
  <2>2. \A q \in Proc \ {p} : pc[q] \notin Driver
    BY <2>1
  <2> QED
    BY <2>1, <2>2 DEF InGate
<1>13. ASSUME NEW p \in Proc, SpawnChild(p)
       PROVE  LockInv'
  <2>1. pc[p] = "spawn" /\ InGate = {p} /\ UNCHANGED <<lock, opened>>
        /\ \A q \in Proc : pc[q] \notin Driver
    BY <1>13 DEF SpawnChild, InGate
  <2>2. PICK c \in Proc \ {p}, m \in {"oneshot", "first"} :
          Launch(c, m) /\ pc' = [pc EXCEPT ![p] = "waiting", ![c] = "read"]
    BY <1>13 DEF SpawnChild
  <2>3. /\ pc'[p] = "waiting" /\ pc'[c] = "read"
        /\ \A q \in Proc \ {p, c} : pc'[q] = pc[q]
    BY <2>2 DEF LockTypeOK
  <2>4. mode'[c] # "again" /\ \A q \in Proc \ {c} : mode'[q] = mode[q]
    BY <2>2 DEF Launch, LockTypeOK
  <2>5. InGate' = {c}
    BY <2>1, <2>3 DEF InGate
  <2> QED
    BY <2>1, <2>3, <2>4, <2>5 DEF InGate
<1>14. ASSUME NEW p \in Proc, SpawnFails(p)
       PROVE  LockInv'
  <2>1. /\ UNCHANGED <<lock, opened, mode>> /\ pc[p] = "spawn" /\ InGate = {p}
        /\ pc'[p] = "restore" /\ \A q \in Proc \ {p} : pc'[q] = pc[q]
        /\ InGate' = InGate \cup {p}
    BY <1>14, Moves DEF SpawnFails, InGate
  <2> QED
    BY <2>1 DEF InGate
<1>15. ASSUME NEW p \in Proc, ParentExits(p) \/ Kill(p)
       PROVE  LockInv'
  <2>1. /\ UNCHANGED <<lock, mode>> /\ opened \ {p} \subseteq opened'
        /\ pc'[p] = "ended" /\ \A q \in Proc \ {p} : pc'[q] = pc[q]
        /\ InGate' = InGate \ {p}
    BY <1>15, Moves DEF ParentExits, Kill
  <2> QED
    BY <2>1
<1>16. CASE UNCHANGED lockVars
  BY <1>16 DEF lockVars, InGate
<1> QED
  BY <1>1, <1>2, <1>3, <1>4, <1>5, <1>6, <1>7, <1>8, <1>9, <1>10, <1>11, <1>12, <1>13,
     <1>14, <1>15, <1>16
  DEF LockNext, GateStep, HandOffStep

\* The inductive invariant holds in every behaviour whose starts do not overlap.
THEOREM LockInvariant == ASSUME MaxGate = 1 PROVE LockSpec => []LockInv
<1>1. LockInit => LockInv
  BY DEF LockInit, LockInv, DriverOwnsLock, InGate, Driver, Gate, Handing
<1>2. LockTypeOK /\ LockInv /\ [LockNext]_lockVars => LockInv'
  BY InvStep
<1> QED
  BY <1>1, <1>2, LockTypeCorrect, PTL DEF LockSpec

\* One process drives or watches the task, through any number of takeovers,
\* re-entries, hand-offs and kills, as long as starts do not overlap at the gate.
THEOREM OneDriverHolds == ASSUME MaxGate = 1 PROVE LockSpec => []OneDriver
<1>1. LockInv => OneDriver
  BY DEF LockInv, DriverOwnsLock, OneDriver
<1>2. LockSpec => []LockInv
  BY LockInvariant
<1> QED
  BY <1>1, <1>2, PTL

\* A process that drives or watches finds its own record on disk, whatever
\* earlier drivers cleared, kept or restored on their way out.
THEOREM DriverOwnsLockHolds == ASSUME MaxGate = 1 PROVE LockSpec => []DriverOwnsLock
<1>1. LockInv => DriverOwnsLock
  BY DEF LockInv
<1>2. LockSpec => []LockInv
  BY LockInvariant
<1> QED
  BY <1>1, <1>2, PTL
=============================================================================
