------------------------------ MODULE DrainLock ------------------------------
(***************************************************************************)
(* The lock that keeps two drains of one outbox apart                      *)
(* (harness/kernel/log/client/log-webhook-drain.ts): a .flush-lock file,   *)
(* created with O_EXCL, that carries the token of one acquisition and      *)
(* whose modification time its holder renews.  A lock that has not been    *)
(* renewed for WEBHOOK_DRAIN_LOCK_STALE_MS is taken over: moved aside      *)
(* under a private name, compared with what was judged stale, and either   *)
(* dropped or put back.                                                    *)
(*                                                                         *)
(* A token is its owner's name: a caller has one acquisition at a time.    *)
(* Modification times are abstracted to stamps, equal when the times are;  *)
(* a fresh stamp is any one that no file and no caller remembers.          *)
(***************************************************************************)
EXTENDS Naturals, FiniteSets

CONSTANTS
  Proc,         \* callers of drainOutboxToWebhook for one queue file
  NoLock,       \* no file under the lock's name
  MaxLapses     \* bound: live holders whose lock lapses

VARIABLES
  lockFile,     \* the .flush-lock file
  lk,           \* lk[p]: where p is in acquire, renew or release
  lapses        \* live holders whose lock has lapsed: taken for dead, or lost aside

lockVars == <<lockFile, lk, lapses>>

Stamp == 1..(3 * Cardinality(Proc) + 2)

(***************************************************************************)
(* dead: the acquisition whose token the file carries is over, so no call  *)
(* renews or releases the file any more.                                   *)
(***************************************************************************)
LockRecord == [token : Proc, stamp : Stamp, stale : BOOLEAN, dead : BOOLEAN]

ASSUME DrainLockAssumption ==
  IsFiniteSet(Proc) /\ NoLock \notin LockRecord /\ MaxLapses \in Nat

Acquiring == {"create", "stat", "claim", "compare", "recreate"}

LockState ==
  [pc : Acquiring \cup {"idle", "held", "renew", "touch", "kept", "lost",
                        "release", "unlink"},
   seen : Stamp \cup {0},
   claimed : LockRecord \cup {NoLock}]

NotLocking == [pc |-> "idle", seen |-> 0, claimed |-> NoLock]

StampsInUse ==
  {lockFile.stamp : x \in {lockFile} \ {NoLock}}
    \cup {lk[p].seen : p \in Proc}
    \cup {lk[p].claimed.stamp : p \in {q \in Proc : lk[q].claimed # NoLock}}

FreshStamp == CHOOSE s \in Stamp : s \notin StampsInUse

Goto(p, pc) == lk' = [lk EXCEPT ![p].pc = pc]

\* The file is that of p's acquisition, which is not over.
Live(file, p) == file # NoLock /\ file.token = p /\ ~file.dead

Mine(p) == Live(lockFile, p)

Orphaned(file, p) ==
  IF file # NoLock /\ file.token = p THEN [file EXCEPT !.dead = TRUE] ELSE file

\* p's acquisition is over, wherever the file it created is by now.
EndAcquisition(p, file) ==
  /\ lockFile' = Orphaned(file, p)
  /\ lk' = [q \in Proc |->
             IF q = p THEN NotLocking
             ELSE [lk[q] EXCEPT !.claimed = Orphaned(@, p)]]

-----------------------------------------------------------------------------
(***************************************************************************)
(* tryCreateLock, with O_EXCL.  The token is written after the file is     *)
(* created; a file without one matches no caller's token, as any other     *)
(* caller's token does, so the two calls are one step.                     *)
(***************************************************************************)
CreateLock(p, onExists) ==
  IF lockFile = NoLock
  THEN /\ lockFile' = [token |-> p, stamp |-> FreshStamp,
                       stale |-> FALSE, dead |-> FALSE]
       /\ lk' = [lk EXCEPT ![p] = [NotLocking EXCEPT !.pc = "held"]]
  ELSE /\ lk' = [lk EXCEPT ![p] = [NotLocking EXCEPT !.pc = onExists]]
       /\ UNCHANGED lockFile

StartAcquire(p) ==
  /\ lk[p].pc = "idle"
  /\ Goto(p, "create")
  /\ UNCHANGED <<lockFile, lapses>>

AcquireCreate(p) ==
  /\ lk[p].pc = "create"
  /\ CreateLock(p, "stat")
  /\ UNCHANGED lapses

\* Faulty variant: a lock is respected however old it is.
AcquireStatNoTakeover(p) ==
  /\ lk[p].pc = "stat"
  /\ Goto(p, IF lockFile = NoLock THEN "recreate" ELSE "idle")
  /\ UNCHANGED <<lockFile, lapses>>

\* statSync: gone, fresh (give up), or stale (go on to claim it).
AcquireStat(p) ==
  /\ lk[p].pc = "stat"
  /\ \/ lockFile = NoLock /\ Goto(p, "recreate")
     \/ lockFile # NoLock /\ ~lockFile.stale /\ Goto(p, "idle")
     \/ /\ lockFile # NoLock /\ lockFile.stale
        /\ lk' = [lk EXCEPT ![p].pc = "claim", ![p].seen = lockFile.stamp]
  /\ UNCHANGED <<lockFile, lapses>>

\* renameSync to a name of p's own; nothing to rename means p backs off.
AcquireClaim(p) ==
  /\ lk[p].pc = "claim"
  /\ IF lockFile = NoLock
     THEN lk' = [lk EXCEPT ![p] = NotLocking] /\ UNCHANGED lockFile
     ELSE /\ lk' = [lk EXCEPT ![p].pc = "compare", ![p].claimed = lockFile]
          /\ lockFile' = NoLock
  /\ UNCHANGED lapses

\* Faulty variant: whatever was moved aside is dropped.
AcquireCompareBlind(p) ==
  /\ lk[p].pc = "compare"
  /\ lk' = [lk EXCEPT ![p] = [NotLocking EXCEPT !.pc = "recreate"]]
  /\ UNCHANGED <<lockFile, lapses>>

(***************************************************************************)
(* What was moved is compared with what was judged stale.  Another file is *)
(* linked back, unless the name has been taken meanwhile, and p gives up;  *)
(* the stale file is unlinked and p tries to create its own.               *)
(***************************************************************************)
AcquireCompare(p) ==
  /\ lk[p].pc = "compare"
  /\ IF lk[p].claimed.stamp # lk[p].seen
     THEN /\ lockFile' = IF lockFile = NoLock THEN lk[p].claimed ELSE lockFile
          /\ lk' = [lk EXCEPT ![p] = NotLocking]
     ELSE /\ lk' = [lk EXCEPT ![p] = [NotLocking EXCEPT !.pc = "recreate"]]
          /\ UNCHANGED lockFile
  /\ UNCHANGED lapses

AcquireRecreate(p) ==
  /\ lk[p].pc = "recreate"
  /\ CreateLock(p, "idle")
  /\ UNCHANGED lapses

AcquireStep(p) ==
  \/ AcquireCreate(p) \/ AcquireStat(p) \/ AcquireClaim(p)
  \/ AcquireCompare(p) \/ AcquireRecreate(p)

-----------------------------------------------------------------------------
(***************************************************************************)
(* renewDrainLock reads the token, then touches whatever file is under the *)
(* name: two calls, with other processes between them.                     *)
(***************************************************************************)
RenewRead(p) ==
  /\ lk[p].pc = "renew"
  /\ Goto(p, IF Mine(p) THEN "touch" ELSE "lost")
  /\ UNCHANGED <<lockFile, lapses>>

RenewTouch(p) ==
  /\ lk[p].pc = "touch"
  /\ IF lockFile = NoLock
     THEN Goto(p, "lost") /\ UNCHANGED lockFile
     ELSE /\ lockFile' = [lockFile EXCEPT !.stamp = FreshStamp, !.stale = FALSE]
          /\ Goto(p, "kept")
  /\ UNCHANGED lapses

\* releaseDrainLock reads the token, then unlinks whatever is under the name.
ReleaseRead(p) ==
  /\ lk[p].pc = "release"
  /\ IF Mine(p) THEN Goto(p, "unlink") /\ UNCHANGED lockFile
     ELSE EndAcquisition(p, lockFile)
  /\ UNCHANGED lapses

ReleaseUnlink(p) ==
  /\ lk[p].pc = "unlink"
  /\ EndAcquisition(p, NoLock)
  /\ UNCHANGED lapses

RenewStep(p) == RenewRead(p) \/ RenewTouch(p)
ReleaseStep(p) == ReleaseRead(p) \/ ReleaseUnlink(p)

-----------------------------------------------------------------------------
(***************************************************************************)
(* Time.  The file of a dead drain always grows stale.  A live holder's    *)
(* does only while the holder is stalled: it renews before every POST, and *)
(* a POST is cut off after a quarter of the age that makes a lock stale.   *)
(* A live holder's lock is gone, too, when a contender dies after it has   *)
(* moved the file aside and before it has put it back.                     *)
(***************************************************************************)
Lapse(happens) ==
  /\ happens => lapses < MaxLapses
  /\ lapses' = IF happens THEN lapses + 1 ELSE lapses

LockAges ==
  /\ lockFile # NoLock /\ ~lockFile.stale
  /\ Lapse(~lockFile.dead)
  /\ lockFile' = [lockFile EXCEPT !.stale = TRUE]
  /\ UNCHANGED lk

\* The caller's process dies: its files stay, its lock renews no more.
LockCrash(p) ==
  /\ lk[p].pc # "idle"
  /\ Lapse(\E q \in Proc : Live(lk[p].claimed, q))
  /\ EndAcquisition(p, lockFile)

LockInit ==
  /\ lockFile = NoLock
  /\ lk = [p \in Proc |-> NotLocking]
  /\ lapses = 0

\* p believes that it holds the lock.
Holds(p) == lk[p].pc \in {"held", "renew", "touch", "kept", "release", "unlink"}

\* The lock file and every caller's acquisition have their types.
DrainLockTypeOK ==
  /\ lockFile \in LockRecord \cup {NoLock}
  /\ lk \in [Proc -> LockState]
  /\ lapses \in 0..MaxLapses

-----------------------------------------------------------------------------
(***************************************************************************)
(* What the lock guarantees, and when: no live holder's lock has lapsed,   *)
(* and at most two callers are between the start of an acquisition and its *)
(* end.                                                                    *)
(***************************************************************************)
Steady == lapses = 0

Contending == {p \in Proc : lk[p].pc # "idle"}
TwoContend == \A a, b, c \in Contending : a = b \/ a = c \/ b = c

\* p has created a lock file and not let go of it yet.
Owns(p) == Holds(p) \/ lk[p].pc = "lost"

\* A file is stale, or has been judged stale under its present stamp, only when
\* its acquisition is over.
FileInv(file) ==
  file # NoLock =>
    /\ file.stale => file.dead
    /\ \A p \in Proc : lk[p].seen = file.stamp => file.dead
    /\ \A p \in Proc : Live(file, p) => Owns(p)

\* No two files carry one stamp.
StampsDiffer ==
  \A q \in Proc : lk[q].claimed # NoLock =>
    /\ lockFile # NoLock => lk[q].claimed.stamp # lockFile.stamp
    /\ \A r \in Proc \ {q} :
         lk[r].claimed # NoLock => lk[q].claimed.stamp # lk[r].claimed.stamp

\* The lock file is its owner's, unless a contender has moved it aside and the name
\* is free, so that the contender will put it back.
OwnersFile ==
  \A p \in Proc : Owns(p) =>
    Mine(p) \/ (lockFile = NoLock /\ \E q \in Proc : Live(lk[q].claimed, p))

\* The inductive invariant behind OneDrainer.
DrainLockInv ==
  /\ FileInv(lockFile) /\ \A q \in Proc : FileInv(lk[q].claimed)
  /\ \A q \in Proc : lk[q].claimed # NoLock => lk[q].pc = "compare"
  /\ StampsDiffer
  /\ OwnersFile
=============================================================================
