----------------------------- MODULE DriverLock -----------------------------
(***************************************************************************)
(* One driver per task: the pid record driver.pid.json that devReviewLoop  *)
(* and the Engine runner take before they dispatch anything                *)
(* (standalone/dev-review-loop.ts, dev-review-loop/pause-resume.ts,        *)
(* bin/run-lifecycle.ts).                                                  *)
(*                                                                         *)
(* The entry gate reads the record, clears it when it names a dead pid,    *)
(* claims it with an exclusive create and, when that fails, re-reads once  *)
(* and may overwrite it.  Reading, unlinking, creating or truncating, and  *)
(* filling the file are separate system calls and separate steps here.     *)
(***************************************************************************)
EXTENDS Naturals, FiniteSets

CONSTANTS
  Proc,       \* operating-system processes, each started at most once
  PidOf,      \* PidOf[p]: the pid of p; two processes share a reissued pid
  MaxGate,    \* bound: processes between their lock check and their claim
  MaxKills,   \* bound: processes that die without running another statement
  NoFile,     \* driver.pid.json does not exist
  Unparsable  \* the file is empty or does not parse: readDriverLock gives null

ASSUME DriverLockAssumption ==
  /\ DOMAIN PidOf = Proc
  /\ MaxGate \in Nat
  /\ MaxKills \in Nat
  /\ NoFile \notin Proc
  /\ Unparsable \notin Proc
  /\ NoFile # Unparsable

VARIABLES
  lock,       \* content of driver.pid.json: the process whose record it is
  opened,     \* processes whose open descriptor is the file now at the path
  pc,         \* pc[p]: where p is
  mode,       \* mode[p]: how p calls devReviewLoop
  child,      \* child[p]: the driver p handed the task to, p itself if none
  kills       \* processes killed so far

lockVars == <<lock, opened, pc, mode, child, kills>>

Gate == {"read", "clear", "create", "fill", "reread", "truncate", "overfill"}
Handing == {"spawn", "restore", "restorefill"}
Driver == {"driving", "watching"}
Place == {"new", "waiting", "ended"} \cup Gate \cup Handing \cup Driver

\* A one-shot call (--resume), the first call of a watching driver
\* (runDriverLoop), or a later one under the token it retains.
Mode == {"oneshot", "first", "again"}

Alive(p) == pc[p] \notin {"new", "ended"}

\* isDriverPidAlive: signal 0 finds some process under the recorded pid.
PidAlive(p) == \E q \in Proc : Alive(q) /\ PidOf[q] = PidOf[p]

InGate == {p \in Proc : pc[p] \in Gate \cup Handing}

-----------------------------------------------------------------------------
LockInit ==
  /\ lock = NoFile
  /\ opened = {}
  /\ pc = [p \in Proc |-> "new"]
  /\ mode = [p \in Proc |-> "oneshot"]
  /\ child = [p \in Proc |-> p]
  /\ kills = 0

Goto(p, place) == pc' = [pc EXCEPT ![p] = place]

\* The operating system starts p under a pid no live process has.
Launch(p, m) ==
  /\ pc[p] = "new"
  /\ ~PidAlive(p)
  /\ mode' = [mode EXCEPT ![p] = m]

Start(p) ==
  /\ Cardinality(InGate) < MaxGate
  /\ \E m \in {"oneshot", "first"} : Launch(p, m)
  /\ Goto(p, "read")
  /\ UNCHANGED <<lock, opened, child, kills>>

\* clearDriverLock: unlink the path, whatever it holds by now.
ClearDriverLock == lock' = NoFile /\ opened' = {}

\* A refused start throws and the process exits; a refused re-entry is caught
\* by the watch, which goes on.
Refuse(p) == Goto(p, IF mode[p] = "again" THEN "watching" ELSE "ended")

\* Faulty variant: the liveness probe is left out and any record is taken over.
GateReadNoProbe(p) ==
  /\ pc[p] = "read"
  /\ \/ mode[p] = "again" /\ lock = p /\ Goto(p, "driving")
     \/ lock \in Proc /\ ~(mode[p] = "again" /\ lock = p) /\ Goto(p, "clear")
     \/ lock \notin Proc /\ Goto(p, "create")
  /\ UNCHANGED <<lock, opened, mode, child, kills>>

\* Faulty variant: any record refuses the start, a dead driver's included.
GateReadNoTakeover(p) ==
  /\ pc[p] = "read"
  /\ \/ mode[p] = "again" /\ lock = p /\ Goto(p, "driving")
     \/ lock \in Proc /\ ~(mode[p] = "again" /\ lock = p) /\ Refuse(p)
     \/ lock \notin Proc /\ Goto(p, "create")
  /\ UNCHANGED <<lock, opened, mode, child, kills>>

\* The gate reads the record: its own pid and token let a re-entry pass, a live
\* pid refuses the start, a dead one is cleared first, none is claimed at once.
GateRead(p) ==
  /\ pc[p] = "read"
  /\ \/ mode[p] = "again" /\ lock = p /\ Goto(p, "driving")
     \/ /\ lock \in Proc
        /\ ~(mode[p] = "again" /\ lock = p)
        /\ IF PidAlive(lock) THEN Refuse(p) ELSE Goto(p, "clear")
     \/ lock \notin Proc /\ Goto(p, "create")
  /\ UNCHANGED <<lock, opened, mode, child, kills>>

GateClear(p) ==
  /\ pc[p] = "clear"
  /\ ClearDriverLock
  /\ Goto(p, "create")
  /\ UNCHANGED <<mode, child, kills>>

\* acquireDriverLockAtomic, the open: O_EXCL creates an empty file or fails.
GateCreate(p) ==
  /\ pc[p] = "create"
  /\ \/ /\ lock = NoFile
        /\ lock' = Unparsable
        /\ opened' = {p}
        /\ Goto(p, "fill")
     \/ /\ lock # NoFile
        /\ Goto(p, "reread")
        /\ UNCHANGED <<lock, opened>>
  /\ UNCHANGED <<mode, child, kills>>

\* The write of the record through p's descriptor.  Over another record of a
\* different length it leaves a tail that does not parse; on a file that has
\* been unlinked it changes nothing at the path.
Fill(p) ==
  /\ IF p \in opened
       THEN lock' \in {p} \cup (IF lock \in Proc THEN {Unparsable} ELSE {})
       ELSE UNCHANGED lock
  /\ opened' = opened \ {p}

\* writeDriverLock, the open: the file is created or truncated.
Truncate(p) ==
  /\ lock' = Unparsable
  /\ opened' = IF lock = NoFile THEN {p} ELSE opened \cup {p}

GateFill(p) ==
  /\ pc[p] \in {"fill", "overfill"}
  /\ Fill(p)
  /\ Goto(p, "driving")
  /\ UNCHANGED <<mode, child, kills>>

\* The exclusive create failed: a live other pid refuses, anything else is
\* overwritten.
GateReread(p) ==
  /\ pc[p] = "reread"
  /\ IF lock \in Proc /\ PidOf[lock] # PidOf[p] /\ PidAlive(lock)
       THEN Refuse(p)
       ELSE Goto(p, "truncate")
  /\ UNCHANGED <<lock, opened, mode, child, kills>>

GateTruncate(p) ==
  /\ pc[p] = "truncate"
  /\ Truncate(p)
  /\ Goto(p, "overfill")
  /\ UNCHANGED <<mode, child, kills>>

GateStep(p) ==
  \/ GateRead(p)
  \/ GateClear(p)
  \/ GateCreate(p)
  \/ GateFill(p)
  \/ GateReread(p)
  \/ GateTruncate(p)

-----------------------------------------------------------------------------
(***************************************************************************)
(* keepDriverLock decides what the driver's exit does to the record.       *)
(***************************************************************************)
\* A one-shot publish or a pause only the Principal decides, and a host-repair
\* pause of any driver, clear the record; the process then exits.
ReleaseAndExit(p) ==
  /\ pc[p] = "driving"
  /\ ClearDriverLock
  /\ Goto(p, "ended")
  /\ UNCHANGED <<mode, child, kills>>

\* An infrastructure or stale-driver pause, or an uncaught error, of a one-shot
\* call leaves the record naming a process that exits.
KeepAndExit(p) ==
  /\ pc[p] = "driving"
  /\ mode[p] = "oneshot"
  /\ Goto(p, "ended")
  /\ UNCHANGED <<lock, opened, mode, child, kills>>

\* Any pause or publish under runDriverLoop keeps the record and is watched.
KeepAndWatch(p) ==
  /\ pc[p] = "driving"
  /\ mode[p] # "oneshot"
  /\ Goto(p, "watching")
  /\ mode' = [mode EXCEPT ![p] = "again"]
  /\ UNCHANGED <<lock, opened, child, kills>>

\* The watch resumes the loop in this process.
Reenter(p) ==
  /\ pc[p] = "watching"
  /\ Cardinality(InGate) < MaxGate
  /\ Goto(p, "read")
  /\ UNCHANGED <<lock, opened, mode, child, kills>>

\* The watch ends: merged, closed or cancelled clears the record, an unwatched
\* pause leaves it for the next start to take over.
EndWatch(p) ==
  /\ pc[p] = "watching"
  /\ ClearDriverLock \/ UNCHANGED <<lock, opened>>
  /\ Goto(p, "ended")
  /\ UNCHANGED <<mode, child, kills>>

-----------------------------------------------------------------------------
(***************************************************************************)
(* The stale-driver hand-off (checkStaleDriver, handOffStaleWatchingDriver)*)
(***************************************************************************)
\* The record is cleared before the child is spawned.
HandOff(p) ==
  /\ pc[p] \in Driver
  /\ Cardinality(InGate) < MaxGate
  /\ ClearDriverLock
  /\ Goto(p, "spawn")
  /\ UNCHANGED <<mode, child, kills>>

\* The child starts at its own gate; the parent blocks in spawnSync.
SpawnChild(p) ==
  /\ pc[p] = "spawn"
  /\ \E c \in Proc \ {p} :
       /\ \E m \in {"oneshot", "first"} : Launch(c, m)
       /\ pc' = [pc EXCEPT ![p] = "waiting", ![c] = "read"]
       /\ child' = [child EXCEPT ![p] = c]
  /\ UNCHANGED <<lock, opened, kills>>

\* The spawn fails: the parent takes its record back with a plain write.
SpawnFails(p) ==
  /\ pc[p] = "spawn"
  /\ Goto(p, "restore")
  /\ UNCHANGED <<lock, opened, mode, child, kills>>

Restore(p) ==
  /\ pc[p] = "restore"
  /\ Truncate(p)
  /\ Goto(p, "restorefill")
  /\ UNCHANGED <<mode, child, kills>>

\* ... and pauses as a stale driver, which a watching driver goes on watching
\* and any other exit leaves recorded.
RestoreFill(p) ==
  /\ pc[p] = "restorefill"
  /\ Fill(p)
  /\ \/ Goto(p, "ended") /\ UNCHANGED mode
     \/ /\ mode[p] # "oneshot"
        /\ Goto(p, "watching")
        /\ mode' = [mode EXCEPT ![p] = "again"]
  /\ UNCHANGED <<child, kills>>

\* Faulty variant: the parent's exit runs the clean-up of an ordinary return.
ParentExitsClearing(p) ==
  /\ pc[p] = "waiting"
  /\ pc[child[p]] = "ended"
  /\ ClearDriverLock
  /\ Goto(p, "ended")
  /\ child' = [child EXCEPT ![p] = p]
  /\ UNCHANGED <<mode, kills>>

\* The child has exited and the parent exits with its code.
ParentExits(p) ==
  /\ pc[p] = "waiting"
  /\ pc[child[p]] = "ended"
  /\ Goto(p, "ended")
  /\ child' = [child EXCEPT ![p] = p]
  /\ UNCHANGED <<lock, opened, mode, kills>>

HandOffStep(p) ==
  \/ SpawnChild(p)
  \/ SpawnFails(p)
  \/ Restore(p)
  \/ RestoreFill(p)
  \/ ParentExits(p)

\* The process dies between two statements; its record stays.
Kill(p) ==
  /\ Alive(p)
  /\ kills < MaxKills
  /\ kills' = kills + 1
  /\ opened' = opened \ {p}
  /\ child' = [child EXCEPT ![p] = p]
  /\ Goto(p, "ended")
  /\ UNCHANGED <<lock, mode>>

LockNext ==
  \E p \in Proc :
    \/ Start(p)
    \/ GateStep(p)
    \/ ReleaseAndExit(p)
    \/ KeepAndExit(p)
    \/ KeepAndWatch(p)
    \/ Reenter(p)
    \/ EndWatch(p)
    \/ HandOff(p)
    \/ HandOffStep(p)
    \/ Kill(p)

\* Straight-line code of a live process goes on; drivers decide when to end.
LockFairness ==
  \A p \in Proc : WF_lockVars(GateStep(p)) /\ WF_lockVars(HandOffStep(p))

LockSpec == LockInit /\ [][LockNext]_lockVars /\ LockFairness

-----------------------------------------------------------------------------
(***************************************************************************)
(* Properties                                                              *)
(***************************************************************************)
\* The record, the descriptors on it and every process have their types.
LockTypeOK ==
  /\ lock \in Proc \cup {NoFile, Unparsable}
  /\ opened \subseteq Proc
  /\ pc \in [Proc -> Place]
  /\ mode \in [Proc -> Mode]
  /\ child \in [Proc -> Proc]
  /\ kills \in 0..MaxKills

\* At most one process drives or watches the task, through crashes, takeovers,
\* watch re-entries and re-exec hand-offs.
OneDriver == \A p, q \in Proc : pc[p] \in Driver /\ pc[q] \in Driver => p = q

\* A driver that dispatches or watches has its own record on disk, so any start
\* that begins later is refused: no exit or hand-off of an earlier process
\* clears it.
DriverOwnsLock == \A p \in Proc : pc[p] \in Driver => lock = p

\* The inductive invariant behind the two, for starts that do not overlap at the
\* gate: one process is between its read and its claim, past the read only when
\* nobody drives; it writes its record to an empty file that is still its own;
\* and a watch that re-enters finds its own record.
LockInv ==
  /\ DriverOwnsLock
  /\ \A p, q \in InGate : p = q
  /\ \A p, q \in Proc : pc[p] \in Driver /\ q \in InGate => pc[q] = "read"
  /\ \A p \in Proc :
       /\ pc[p] \in {"fill", "overfill", "restorefill"} => p \in opened /\ lock = Unparsable
       /\ pc[p] = "watching" => mode[p] = "again"
       /\ pc[p] \in Gate /\ mode[p] = "again" => pc[p] = "read" /\ lock = p

AloneAtGate(p) ==
  /\ pc[p] = "read"
  /\ \A q \in Proc \ {p} : ~Alive(q)
  /\ lock \in Proc => PidOf[lock] # PidOf[p]

\* A crash never wedges the task: a process alone at the gate, whatever record
\* an earlier driver left, comes to drive, unless somebody is killed meanwhile
\* (or the record names its own reissued pid).
StaleLockNeverBlocks ==
  \A p \in Proc : \A k \in 0..MaxKills :
    AloneAtGate(p) /\ kills = k ~> pc[p] = "driving" \/ kills # k
=============================================================================
