--------------------------- MODULE BackgroundStart ---------------------------
(***************************************************************************)
(* vinaya task run --background (run-control/task-run-background.ts) over  *)
(* the control store: a start looks for the controller that the current    *)
(* epoch records, attaches to a live one, fences the effects of a dead     *)
(* one, claims the next epoch (Ownership), spawns a detached controller    *)
(* and acknowledges it with a run record, an input record and a transition *)
(* (local.ts, writeRun, writeInput, appendTransition).  A write that finds *)
(* its epoch overtaken throws, and the start ends the controller it        *)
(* spawned.                                                                *)
(*                                                                         *)
(* A starter is one invocation of the command, so it names its controller  *)
(* too.  The processes that are no starters claim epochs for reasons of    *)
(* their own: an effect, a pause, a resolution.  All run on one host.      *)
(***************************************************************************)
EXTENDS Ownership

CONSTANTS
  Starter,      \* invocations of startBackgroundRun
  NoRun         \* no run record, no handle

ASSUME BackgroundAssumption ==
  /\ Starter \subseteq Proc
  /\ IsFiniteSet(Starter)
  /\ NoRun \notin Starter

VARIABLES
  start,        \* start[s]: where s is
  runFile,      \* runFile[e]: the controller run/bg-<task>-<e>.json names
  journal,      \* journal[e]: the transitions appended under epoch e
  child         \* child[s]: the controller s spawned

startVars == <<start, runFile, journal, child>>
vars == <<ownershipVars, startVars>>

Stage == {"run", "input", "running", "paused"}

\* One file of the journal: its slot, the start that wrote it, the state it says.
Transition == [slot : Nat, by : Starter, to : {"running", "paused"}]

(***************************************************************************)
(* saw is the epoch read first, doing the record that the next assert and  *)
(* write are for, seq and tries the probe for a free transition slot.      *)
(***************************************************************************)
StartState ==
  [pc : {"idle", "peek", "fence", "refence", "claim", "spawn", "assert",
         "write", "slot", "ready", "done"},
   saw : 0..MaxEpoch, doing : Stage, seq : Nat, tries : 0..MaxAttempts,
   outcome : {"none", "acked", "attached", "error", "killed"},
   handle : Starter \cup {NoRun}]

NotStarted ==
  [pc |-> "idle", saw |-> 0, doing |-> "run", seq |-> 0, tries |-> 0,
   outcome |-> "none", handle |-> NoRun]

Go(s, pc) == start' = [start EXCEPT ![s].pc = pc]
Ends(s, outcome, handle) ==
  start' = [start EXCEPT ![s] =
    [NotStarted EXCEPT !.pc = "done", !.outcome = outcome, !.handle = handle]]

\* On to the next record.
Onward(s, doing) ==
  start' = [start EXCEPT ![s] = [@ EXCEPT !.pc = "assert", !.doing = doing]]

Live(s) == child[s] = "live"
Mine(s) == acq[s].epoch
Taken(e) == {t.slot : t \in journal[e]}

-----------------------------------------------------------------------------
Init ==
  /\ OwnershipInit
  /\ start = [s \in Starter |-> NotStarted]
  /\ runFile = [e \in Epoch |-> NoRun]
  /\ journal = [e \in Epoch |-> {}]
  /\ child = [s \in Starter |-> "none"]

\* readCurrentControllerRun: the current epoch first ...
Look(s) ==
  /\ start[s].pc = "idle"
  /\ \E e \in 0..MaxEpoch :
       IsCurrent(e) /\ start' = [start EXCEPT ![s] = [@ EXCEPT !.pc = "peek", !.saw = e]]
  /\ UNCHANGED <<ownershipVars, runFile, journal, child>>

\* acquireOwnership is called.
CallAcquire(s) == acq' = [acq EXCEPT ![s] = [NotAcquiring EXCEPT !.pc = "read"]]

\* ... then the run record under it: attach to a live controller, fence after a
\* dead one, go on when there is none.
Peek(s) ==
  LET run == IF start[s].saw = 0 THEN NoRun ELSE runFile[start[s].saw] IN
  /\ start[s].pc = "peek"
  /\ \/ run = NoRun /\ Go(s, "claim") /\ CallAcquire(s)
     \/ run # NoRun /\ Live(run) /\ Ends(s, "attached", run) /\ UNCHANGED acq
     \/ run # NoRun /\ ~Live(run) /\ Go(s, "fence") /\ UNCHANGED acq
  /\ UNCHANGED <<epochFile, faults, runFile, journal, child>>

\* fenceStartedEffectsAsUncertain under the dead controller's epoch (see
\* EffectExecutor for the effects): done, or overtaken with effects left ...
Fence(s) ==
  /\ start[s].pc = "fence"
  /\ \/ Go(s, "claim")
     \/ ~AssertCurrentEpoch(start[s].saw) /\ Go(s, "refence")
  /\ CallAcquire(s)
  /\ UNCHANGED <<epochFile, faults, runFile, journal, child>>

\* ... and then it fences on under an epoch of its own, or throws.  The code's
\* bound on these rounds (MAX_FENCE_REACQUIRE_ATTEMPTS) is above MaxEpoch.
Refenced(s) ==
  /\ start[s].pc = "refence"
  /\ \/ /\ acq[s].pc = "won"
        /\ start' = [start EXCEPT ![s] = [@ EXCEPT !.pc = "fence", !.saw = Mine(s)]]
     \/ acq[s].pc \in {"lost", "failed"} /\ Ends(s, "error", NoRun)
  /\ UNCHANGED <<ownershipVars, runFile, journal, child>>

\* The claim's outcome: a loser attaches to the winner's run, if it is recorded yet.
Claimed(s) ==
  /\ start[s].pc = "claim"
  /\ \/ acq[s].pc = "won" /\ Go(s, "spawn")
     \/ acq[s].pc = "lost" /\ runFile[Mine(s)] # NoRun
          /\ Ends(s, "attached", runFile[Mine(s)])
     \/ acq[s].pc = "lost" /\ runFile[Mine(s)] = NoRun /\ Ends(s, "error", NoRun)
     \/ acq[s].pc = "failed" /\ Ends(s, "error", NoRun)
  /\ UNCHANGED <<ownershipVars, runFile, journal, child>>

\* spawnDetached, which may fail.
Spawn(s) ==
  /\ start[s].pc = "spawn"
  /\ \/ child' = [child EXCEPT ![s] = "live"] /\ Go(s, "assert")
     \/ Ends(s, "error", NoRun) /\ UNCHANGED child
  /\ UNCHANGED <<ownershipVars, runFile, journal>>

\* Faulty variant: the controller is left running when its record is refused.
FailKeepingChild(s) ==
  Ends(s, "error", NoRun) /\ UNCHANGED child

\* A write throws: before the acknowledgement the controller is ended.
Fail(s) ==
  /\ Ends(s, "error", NoRun)
  /\ child' = IF start[s].doing = "paused" THEN child ELSE [child EXCEPT ![s] = "dead"]

\* assertCurrentEpoch, which every record's write begins with.  Nobody reads the
\* input record, so of writeInput only this shows.
AssertEpoch(s) ==
  /\ start[s].pc = "assert"
  /\ \/ /\ AssertCurrentEpoch(Mine(s)) /\ UNCHANGED child
        /\ IF start[s].doing = "input" THEN Onward(s, "running") ELSE Go(s, "write")
     \/ ~AssertCurrentEpoch(Mine(s)) /\ Fail(s)
  /\ UNCHANGED <<ownershipVars, runFile, journal>>

\* Faulty variant: one run record for the task, whatever the epoch.
WriteRunOfTask(s) ==
  /\ start[s].pc = "write" /\ start[s].doing = "run"
  /\ runFile' = [e \in Epoch |-> s]
  /\ Onward(s, "input")
  /\ UNCHANGED <<ownershipVars, journal, child>>

\* writeRun: bg-<task>-<epoch>.json is replaced as a whole.
WriteRun(s) ==
  /\ start[s].pc = "write" /\ start[s].doing = "run"
  /\ runFile' = [runFile EXCEPT ![Mine(s)] = s]
  /\ Onward(s, "input")
  /\ UNCHANGED <<ownershipVars, journal, child>>

\* The slot that is tried next, after so many tries.
Probe(s, seq, tries) ==
  start' = [start EXCEPT ![s] = [@ EXCEPT !.pc = "slot", !.seq = seq, !.tries = tries]]

\* appendTransition counts the directory's files, the temporary file of another
\* writer included, to find its first slot.
CountSlots(s) ==
  LET others == {t \in Starter \ {s} : start[t].pc = "slot" /\ Mine(t) = Mine(s)} IN
  /\ start[s].pc = "write" /\ start[s].doing \in {"running", "paused"}
  /\ \E temps \in 0..Cardinality(others) :
       Probe(s, Cardinality(journal[Mine(s)]) + temps, 0)
  /\ UNCHANGED <<ownershipVars, runFile, journal, child>>

Logged(s) ==
  IF start[s].doing = "running" THEN Go(s, "ready") ELSE Ends(s, "error", NoRun)

AtSlot(s) == [slot |-> start[s].seq, by |-> s, to |-> start[s].doing]

\* Faulty variant: the slot is written with a rename.
LinkSlotByRename(s) ==
  /\ start[s].pc = "slot"
  /\ journal' = [journal EXCEPT ![Mine(s)] =
       {t \in @ : t.slot # start[s].seq} \cup {AtSlot(s)}]
  /\ Logged(s)
  /\ UNCHANGED <<ownershipVars, runFile, child>>

\* ... and links the record there, or at the next free one.
LinkSlot(s) ==
  LET free == start[s].seq \notin Taken(Mine(s)) IN
  /\ start[s].pc = "slot"
  /\ \/ /\ free /\ start[s].tries < MaxAttempts
        /\ journal' = [journal EXCEPT ![Mine(s)] = @ \cup {AtSlot(s)}]
        /\ Logged(s)
        /\ UNCHANGED child
     \/ /\ ~free /\ start[s].tries < MaxAttempts
        /\ Probe(s, start[s].seq + 1, start[s].tries + 1)
        /\ UNCHANGED <<journal, child>>
     \/ start[s].tries = MaxAttempts /\ Fail(s) /\ UNCHANGED journal
  /\ UNCHANGED <<ownershipVars, runFile>>

\* Faulty variant: the start waits until its controller is up.
ReadyPolls(s) ==
  /\ start[s].pc = "ready"
  /\ Live(s)
  /\ Ends(s, "acked", s)
  /\ UNCHANGED <<ownershipVars, runFile, journal, child>>

\* After waitForStartup: the handle, or a transition to paused and an error.
Ready(s) ==
  /\ start[s].pc = "ready"
  /\ \/ Live(s) /\ Ends(s, "acked", s)
     \/ ~Live(s) /\ Onward(s, "paused")
  /\ UNCHANGED <<ownershipVars, runFile, journal, child>>

StartStep(s) ==
  \/ AcquireStep(s) /\ UNCHANGED startVars
  \/ Peek(s) \/ Fence(s) \/ Refenced(s) \/ Claimed(s) \/ Spawn(s)
  \/ AssertEpoch(s) \/ WriteRun(s) \/ CountSlots(s) \/ LinkSlot(s)
  \/ Ready(s)

-----------------------------------------------------------------------------
\* A controller ends, or never came up.
ChildDies(s) ==
  /\ Live(s)
  /\ child' = [child EXCEPT ![s] = "dead"]
  /\ UNCHANGED <<ownershipVars, start, runFile, journal>>

\* The starting process is killed; a controller it has spawned runs on.
Kill(s) ==
  /\ start[s].pc \notin {"idle", "done"}
  /\ Ends(s, "killed", NoRun)
  /\ acq' = [acq EXCEPT ![s] = NotAcquiring]
  /\ UNCHANGED <<epochFile, faults, runFile, journal, child>>

\* Another process claims the next epoch, for an effect, a pause or a resolution
\* (Ownership has its claim step by step).
OtherClaims ==
  /\ \E p \in Proc \ Starter : \E e \in Epoch :
       /\ IsCurrent(e - 1) /\ epochFile[e] = Absent
       /\ epochFile' = [epochFile EXCEPT ![e] = p]
  /\ UNCHANGED <<acq, faults, startVars>>

Next ==
  \/ \E s \in Starter : Look(s) \/ StartStep(s) \/ ChildDies(s) \/ Kill(s)
  \/ OtherClaims
  \/ OrphanedClaim /\ UNCHANGED startVars

\* A start that has begun goes on.
Fairness == \A s \in Starter : WF_vars(StartStep(s))

Spec == Init /\ [][Next]_vars /\ Fairness
-----------------------------------------------------------------------------
(***************************************************************************)
(* Properties                                                              *)
(***************************************************************************)
\* Every variable of the starts and of the records they write has its declared
\* type; in particular the probe for a free transition slot is bounded.
BackgroundTypeOK ==
  /\ OwnershipTypeOK
  /\ start \in [Starter -> StartState]
  /\ runFile \in [Epoch -> Starter \cup {NoRun}]
  /\ journal \in [Epoch -> SUBSET Transition]
  /\ child \in [Starter -> {"none", "live", "dead"}]

\* The handle a background start returns is durable: the run record of the epoch
\* it was acknowledged under names its own controller, whatever starts and claims
\* came after, and a handle obtained by attaching names a recorded controller.
\* (While no epoch file is corrupt: a doubly granted epoch has one run record.)
HandleIsDurable ==
  faults = {} =>
    \A s \in Starter :
      /\ start[s].outcome = "acked" => runFile[Mine(s)] = s
      /\ start[s].outcome = "attached" =>
           start[s].handle # NoRun /\ \E e \in Epoch : runFile[e] = start[s].handle

\* No unacknowledged orphan: a controller that runs without a run record belongs
\* to a start that is still about to write it, or that was killed.
NoUnrecordedController ==
  faults = {} =>
    \A s \in Starter :
      Live(s) => \/ \E e \in Epoch : runFile[e] = s
                 \/ start[s].pc \in {"assert", "write"} /\ start[s].doing = "run"
                 \/ start[s].outcome = "killed"

\* The transition of an acknowledged start stays in the journal of its epoch, even
\* when two starts hold that epoch and look for the same free slot.
TransitionKept ==
  \A s \in Starter :
    start[s].pc = "ready" \/ start[s].doing = "paused" \/ start[s].outcome = "acked" =>
      \E t \in journal[Mine(s)] : t.by = s /\ t.to = "running"

Holding == {"spawn", "assert", "write", "slot", "ready"}

\* A start on its way to the acknowledgement, or acknowledged, holds its epoch and
\* has written what comes before: the run record, then the running transition.
StartProgress(s) ==
  /\ start[s].pc \in Holding \/ start[s].outcome = "acked" => acq[s].pc = "won"
  /\ start[s].pc \notin {"assert", "write", "slot", "ready"} => start[s].doing = "run"
  /\ start[s].pc = "slot" => start[s].doing \in {"running", "paused"}
  /\ start[s].pc = "ready" => start[s].doing = "running"
  /\ start[s].pc # "done" => start[s].outcome = "none"
  /\ start[s].pc \in {"idle", "peek", "fence", "refence", "claim", "spawn"} =>
       child[s] = "none"

\* The inductive invariant behind the three properties above.  A run record is
\* written by the holder of its epoch alone, so it is never replaced, and a start
\* past its run record finds it under its own epoch.
BackgroundInv ==
  /\ OwnershipInv
  /\ \A p \in Proc \ Starter : acq[p] = NotAcquiring
  /\ \A e \in Epoch : IsFiniteSet(journal[e])
  /\ \A s \in Starter : StartProgress(s)
  /\ faults = {} =>
       /\ \A e \in Epoch : runFile[e] # NoRun => epochFile[e] = runFile[e]
       /\ \A s \in Starter :
            start[s].doing # "run" => runFile[Mine(s)] = s
  /\ HandleIsDurable
  /\ NoUnrecordedController
  /\ TransitionKept

\* A background start returns or throws, whatever the controller it spawned does,
\* unless the epochs of the model are used up.
StartReturns ==
  \A s \in Starter :
    start[s].pc # "idle" ~> start[s].pc = "done" \/ MaxEpoch \in ValidEpochs
=============================================================================
