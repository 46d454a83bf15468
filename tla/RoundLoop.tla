------------------------------ MODULE RoundLoop ------------------------------
(***************************************************************************)
(* The round loop of one task whose pull request is open                   *)
(* (standalone/dev-review-loop.ts, devReviewLoop and runRoundLoop), from   *)
(* the moment a driver attaches to it: Developer turns, the mechanical     *)
(* gate, the review, its assessment and the publication, with the pauses   *)
(* each of them can end in, the recovery of a driver that was killed and   *)
(* the resume of a paused one.  The driver is one sequential process; what *)
(* can surprise it is the branch and its base moving, a Principal's        *)
(* ruling, a control-store write that is lost, and its own death.          *)
(*                                                                         *)
(* A successful re-exec onto a moved base is a kill followed by an attach. *)
(* Waits for rate limits, sign-in and sandbox refusals, a Developer's own  *)
(* stop, and the task before it has a pull request are left out.           *)
(***************************************************************************)
EXTENDS RoundPolicy, FiniteSets, FiniteSetsExt

CONSTANTS
  MaxStalled,   \* MAX_GATE_STALLED_TURNS
  MaxInfra,     \* MAX_INFRASTRUCTURE_RETRIES
  Verdict,      \* what the two reviewers may answer, merged
  MaxPatch,     \* bound: different patches on the branch
  MaxStarts,    \* bound: drivers started, by an attach or by a resume
  MaxEvents     \* bound: crashes, kills, lost writes, failed reads and retries,
                \* conflicts, rebases and rulings, all together

\* A commit of the branch: its patch, and how often that was rebased.
Head == [patch : Nat, rev : Nat]

\* What a pair of reviewers answered, merged.
MergedVerdict ==
  [verdict : {"ESCALATE", "clean", "changes"}, blocking : SUBSET Key,
   open : SUBSET Id, resolved : SUBSET Id, reproduced : SUBSET Id]

\* The loop_state record.
LoopRecord ==
  [round : Nat, stalled : Nat, infra : Nat, delivered : [round : Nat, head : Head] \cup {None},
   blocking : SUBSET Key, failure : LoopFailure \cup {None}]

ASSUME LoopAssumption ==
  /\ MaxStalled \in Nat \ {0} /\ MaxInfra \in Nat \ {0}
  /\ MaxPatch \in Nat /\ MaxStarts \in Nat /\ MaxEvents \in Nat
  /\ Verdict \subseteq MergedVerdict
  \* A verdict is derived from its findings: an approval has none that block.
  /\ \A v \in Verdict : v.verdict = "clean" => v.blocking = {}
  /\ None \notin Head \cup LoopRecord

VARIABLES
  pc,      \* the decision at the top of the loop, or where its handler stands
  mem,     \* the driver's own variables
  store,   \* the loop_state record of the control store, None when absent
  disk,    \* the run folder: held verdicts, redelivery markers, pause-state.json
  forge,   \* branch and pull request
  used,    \* how much of each bound is used
  seen     \* history: what the properties compare the driver with

vars == <<pc, mem, store, disk, forge, used, seen>>

Running == pc \notin {"down", "paused", "published"}
TopOfLoop == {"dispatch_developer", "ask_confidence", "dispatch_reviewers", "publish"}
Automatic == {"infrastructure", "stale_driver"}

Larger(a, b) == IF a >= b THEN a ELSE b

(***************************************************************************)
(* The driver's variables.  before is headBeforeDispatch, judged the       *)
(* manifest of the last review, liveHead liveCheckedHead; red, conflict,   *)
(* survives and unpushed are pendingGateRedRetry, pendingConflictFiles,    *)
(* mechanicalRetryRecoverySurvivesOneReset and unpushedResumeAttempted.    *)
(***************************************************************************)
NoDriver ==
  [round |-> 1, ls |-> InitialLoopState, reason |-> None,
   red |-> FALSE, conflict |-> FALSE, survives |-> FALSE, unpushed |-> FALSE,
   reran |-> FALSE, stalled |-> 0, infra |-> 0, delivered |-> None,
   before |-> None, judged |-> None, liveHead |-> None, verdict |-> None]

Place ==
  TopOfLoop \cup {"turn", "idle", "resumed_turn", "gate", "green", "reviewing", "held",
                  "pause", "paused", "published", "down"}

Reason ==
  Automatic \cup {"repeat_failure", "confidence", "escalation", "reappearance",
    "repeat_finding", "max_rounds", "time_budget", "no_push", "ruling_posted",
    "inputs_changed", "no_progress"}

Judgement == [head : Head, ordinal : Nat]
HeldPair == [round : Nat, head : Head, ordinal : Nat, clean : BOOLEAN]
PauseState == [round : Nat, head : Head, reason : Reason, infra : Nat]

DriverState ==
  [round : Nat, ls : LoopState, reason : Reason \cup {None},
   red : BOOLEAN, conflict : BOOLEAN, survives : BOOLEAN, unpushed : BOOLEAN,
   reran : BOOLEAN, stalled : Nat, infra : Nat,
   delivered : [round : Nat, head : Head] \cup {None}, before : Head \cup {None},
   judged : Judgement \cup {None}, liveHead : Head \cup {None},
   verdict : Verdict \cup {None}]

RunFolder ==
  [held : SUBSET HeldPair, redelivered : SUBSET Nat, pause : PauseState \cup {None}]

PullRequest ==
  [head : Head, clash : BOOLEAN, marks : SUBSET Nat, ordinal : Nat,
   published : Head \cup {None}]

Usage == [events : Nat, lost : Nat, attaches : Nat, resumes : Nat, failed : Nat]

History ==
  [reached : Nat, blocking : SUBSET Key, cleared : SUBSET Head, idle : Nat,
   read : BOOLEAN, bare : Nat]

\* The driver's variables, its records and the pull request have their types.
RoundLoopTypeOK ==
  /\ pc \in Place
  /\ mem \in DriverState
  /\ store \in LoopRecord \cup {None}
  /\ disk \in RunFolder
  /\ forge \in PullRequest
  /\ used \in Usage
  /\ seen \in History

Init ==
  /\ pc = "down"
  /\ mem = NoDriver
  /\ store = None
  /\ disk = [held |-> {}, redelivered |-> {}, pause |-> None]
  /\ forge = [head |-> [patch |-> 1, rev |-> 0], clash |-> FALSE, marks |-> {},
              ordinal |-> 0, published |-> None]
  /\ used = [events |-> 0, lost |-> 0, attaches |-> 0, resumes |-> 0, failed |-> 0]
  /\ seen = [reached |-> 1, blocking |-> {}, cleared |-> {}, idle |-> 0,
             read |-> TRUE, bare |-> 0]

-----------------------------------------------------------------------------
\* What one step leaves behind.

Becomes(next, m) == pc' = next /\ mem' = m

\* A pause keeps only what its records are written from.
RepeatMemory(st, blocking, failure) ==
  [st EXCEPT !.lastBlockingFindings = blocking, !.lastFailure = failure]

PausesFor(why, m) ==
  Becomes("pause",
          [NoDriver EXCEPT
             !.round = m.round, !.reason = why, !.stalled = m.stalled, !.infra = m.infra,
             !.delivered = m.delivered,
             !.ls = RepeatMemory(@, m.ls.lastBlockingFindings, m.ls.lastFailure)])

\* persistCurrentLoopState: a whole-record write that never throws, so a write
\* that failed leaves the previous record.
Snapshot(m) ==
  [round |-> m.round, stalled |-> m.stalled, infra |-> m.infra,
   delivered |-> m.delivered, blocking |-> m.ls.lastBlockingFindings,
   failure |-> m.ls.lastFailure]

PersistAs(m, u) ==
  \/ store' = Snapshot(m) /\ used' = u
  \/ /\ u.events < MaxEvents
     /\ used' = [u EXCEPT !.events = @ + 1, !.lost = @ + 1]
     /\ UNCHANGED store

Persist(m) == PersistAs(m, used)
NotPersisted == UNCHANGED <<store, used>>

\* One more of the events the instance bounds.
MayHappen == used.events < MaxEvents
Counted == [used EXCEPT !.events = @ + 1]

\* An assessment's decision becomes the driver's.
Decided(m, result) ==
  LET n == [m EXCEPT !.ls = result.state] IN
  IF result.type = "pause" THEN PausesFor(result.reason, n) ELSE Becomes(result.type, n)

\* The retries only matter up to their bound.
Spent(m) == [m EXCEPT !.infra = IF @ < MaxInfra THEN @ + 1 ELSE @]

-----------------------------------------------------------------------------
\* dispatch_developer: the turn.

\* Only a red gate or a conflict waits for the head to change.
BeginTurn ==
  /\ pc = "dispatch_developer"
  /\ Becomes("turn", [mem EXCEPT !.before =
                        IF mem.red \/ mem.conflict THEN forge.head ELSE None])
  /\ NotPersisted /\ UNCHANGED <<disk, forge, seen>>

\* The vendor could not be reached: the same session again, from the budget
\* every infrastructure pause shares.
ConnectionRetry ==
  /\ MayHappen
  /\ pc \in {"turn", "resumed_turn"} /\ mem.infra < MaxInfra
  /\ mem' = Spent(mem) /\ UNCHANGED pc
  /\ used' = Counted
  /\ UNCHANGED <<store, disk, forge, seen>>

\* Faulty variant: the conflict is forgotten once its turn is dispatched, so the
\* unchanged head is not looked at.
TurnEndsForgetful ==
  /\ pc = "turn"
  /\ LET m == [mem EXCEPT !.ls = RecordDeveloperAttempt(@), !.conflict = FALSE] IN
     Becomes(IF m.before = forge.head /\ m.red THEN "idle" ELSE "gate", m)
  /\ NotPersisted /\ UNCHANGED <<disk, forge, seen>>

TurnEnds ==
  /\ pc = "turn"
  /\ Becomes(IF mem.before = forge.head THEN "idle" ELSE "gate",
             [mem EXCEPT !.ls = RecordDeveloperAttempt(@),
                         !.before = IF @ = forge.head THEN @ ELSE None])
  /\ NotPersisted /\ UNCHANGED <<disk, forge, seen>>

-----------------------------------------------------------------------------
\* The head did not change.

\* Work is left in the worktree, committed or not: one more turn to push it.
\* Only commits ahead of the remote are a failed push, hence a failure with a
\* signature; None is a dirty worktree.
UnpushedWork(sig, late) ==
  LET tried == [mem EXCEPT !.unpushed = TRUE]
      result == WithinBudget(late, mem.ls, AssessMechanicalFailure(mem.ls, sig))
  IN /\ pc = "idle" /\ ~mem.unpushed
     /\ IF sig # None
        THEN IF result.type = "pause"
             THEN Decided(tried, result) /\ Persist(mem')
             ELSE Becomes("resumed_turn", [tried EXCEPT !.ls = result.state]) /\ NotPersisted
        ELSE Becomes("resumed_turn", tried) /\ NotPersisted
     /\ UNCHANGED <<disk, forge, seen>>

\* The extra turn is over: pushed, nothing left to push, or left unpushed.
ResumedTurnEnds(left, sig, late) ==
  LET m == [mem EXCEPT !.ls = RecordDeveloperAttempt(@), !.before = None]
      result == WithinBudget(late, m.ls, AssessMechanicalFailure(m.ls, sig))
  IN /\ pc = "resumed_turn"
     /\ CASE mem.before # forge.head \/ left = "nothing" ->
               Becomes("gate", m) /\ NotPersisted
          [] mem.before = forge.head /\ left = "dirty" ->
               PausesFor("no_push", m) /\ NotPersisted
          [] OTHER ->
               IF result.type = "pause"
               THEN Decided(m, result) /\ Persist(mem')
               ELSE PausesFor("no_push", [m EXCEPT !.ls = result.state]) /\ NotPersisted
     /\ UNCHANGED <<disk, forge, seen>>

\* Failed checks of the unchanged red head are rerun, once a round.
RerunChecks ==
  /\ pc = "idle" /\ mem.red /\ ~mem.conflict /\ ~mem.reran
  /\ Becomes("gate", [mem EXCEPT !.reran = TRUE, !.before = None])
  /\ NotPersisted /\ UNCHANGED <<disk, forge, seen>>

\* The head did not move but its checks have turned green.
GreenAtStall ==
  /\ pc = "idle" /\ mem.red /\ ~mem.conflict
  /\ Becomes("green", [mem EXCEPT !.before = None])
  /\ NotPersisted /\ UNCHANGED <<disk, forge, seen>>

\* A stalled turn, counted and recorded at once.  A conflict and a publication
\* that a driver tool refused are always named, a red head only by the checks
\* that fail on it now.
Stall(sig, late) ==
  LET m == [mem EXCEPT !.stalled = @ + 1, !.before = None]
      result == IF sig = None THEN Go("dispatch_developer", m.ls)
                ELSE WithinBudget(late, m.ls, AssessMechanicalFailure(m.ls, sig))
      kept == [m EXCEPT !.ls = result.state]
  IN /\ pc = "idle" /\ (mem.conflict => sig # None)
     /\ CASE result.type = "pause" ->
               Decided(m, result) /\ Persist(mem')
          [] result.type # "pause" /\ m.stalled < MaxStalled ->
               Becomes("dispatch_developer", kept) /\ Persist(m)
          [] OTHER ->
               PausesFor("infrastructure", Spent(kept)) /\ Persist(m)
     /\ seen' = [seen EXCEPT !.idle = @ + 1]
     /\ UNCHANGED <<disk, forge>>

-----------------------------------------------------------------------------
\* The gate and the Developer's confidence.

\* Faulty variant: a recovered stall count does not survive the first reading.
GateObservedFresh(m) ==
  [m EXCEPT !.stalled = 0, !.survives = FALSE, !.unpushed = FALSE]

\* A genuine reading ends a stall episode, but not the first reading of a driver
\* that recovered one.
GateObserved(m) ==
  [m EXCEPT !.stalled = IF m.survives THEN @ ELSE 0,
            !.survives = FALSE, !.unpushed = FALSE]

SeenGate == [seen EXCEPT !.idle = IF seen.read THEN 0 ELSE @, !.read = TRUE]

\* The branch is in conflict: back to the Developer before any check is read.
GateConflict ==
  /\ pc \in {"gate", "green"} /\ forge.clash
  /\ Becomes("dispatch_developer", [mem EXCEPT !.conflict = TRUE])
  /\ NotPersisted /\ UNCHANGED <<disk, forge, seen>>

ReadGreen(confidence, late) ==
  LET m == [GateObserved(mem) EXCEPT !.conflict = FALSE, !.red = FALSE] IN
  /\ pc \in {"gate", "green"} /\ ~forge.clash
  /\ Decided(m, WithinBudget(late, m.ls, AssessGreen(m.ls, m.round, confidence)))
  /\ Persist(mem')
  /\ seen' = SeenGate
  /\ UNCHANGED <<disk, forge>>

ReadRed(sig, late) ==
  LET m == [GateObserved(mem) EXCEPT !.conflict = FALSE, !.red = TRUE] IN
  /\ pc = "gate" /\ ~forge.clash
  /\ Decided(m, WithinBudget(late, m.ls, AssessRed(m.ls, sig)))
  /\ Persist(mem')
  /\ seen' = SeenGate
  /\ UNCHANGED <<disk, forge>>

AskConfidence(confidence, late) ==
  LET m == [GateObserved(mem) EXCEPT !.ls = RecordDeveloperAttempt(@), !.red = FALSE] IN
  /\ pc = "ask_confidence"
  /\ Decided(m, WithinBudget(late, m.ls, AssessGreen(m.ls, m.round, confidence)))
  /\ Persist(mem')
  /\ seen' = SeenGate
  /\ UNCHANGED <<disk, forge>>

-----------------------------------------------------------------------------
\* dispatch_reviewers.

ReviewConflict ==
  /\ pc = "dispatch_reviewers" /\ forge.clash
  /\ Becomes("dispatch_developer", [mem EXCEPT !.conflict = TRUE])
  /\ NotPersisted /\ UNCHANGED <<disk, forge, seen>>

\* The manifest is taken from the head as it is now, and the round's marker is
\* posted, before either reviewer starts.
StartReview ==
  /\ pc = "dispatch_reviewers" /\ ~forge.clash
  /\ Becomes("reviewing",
             [mem EXCEPT !.conflict = FALSE,
                         !.judged = [head |-> forge.head, ordinal |-> forge.ordinal]])
  /\ forge' = [forge EXCEPT !.marks = @ \cup {mem.round}]
  /\ NotPersisted /\ UNCHANGED <<disk, seen>>

\* A reviewer that delivers nothing, twice.
ReviewFails ==
  /\ MayHappen
  /\ pc = "reviewing"
  /\ PausesFor("infrastructure", Spent(mem)) /\ PersistAs(mem', Counted)
  /\ UNCHANGED <<disk, forge, seen>>

\* The inputs moved while the reviewers worked: a newer ruling, or the
\* objectives, the brief or the policy.  Nothing is held.
InputsMoved(why) ==
  /\ pc = "reviewing"
  /\ why = "ruling_posted" <=> forge.ordinal # mem.judged.ordinal
  /\ PausesFor(why, mem)
  /\ NotPersisted /\ UNCHANGED <<disk, forge, seen>>

\* Both verdicts are written to the round's folder.
HoldVerdicts(v) ==
  /\ pc = "reviewing" /\ forge.ordinal = mem.judged.ordinal
  /\ Becomes("held", [mem EXCEPT !.verdict = v])
  /\ disk' = [disk EXCEPT !.held =
                {h \in @ : h.round # mem.round} \cup
                {[round |-> mem.round, head |-> mem.judged.head,
                  ordinal |-> mem.judged.ordinal, clean |-> v.verdict = "clean"]}]
  /\ Persist(mem')
  /\ UNCHANGED <<forge, seen>>

Discarded == [disk EXCEPT !.held = {h \in @ : h.round # mem.round}]
NextRound(m) ==
  [m EXCEPT !.round = @ + 1, !.reran = FALSE, !.judged = None, !.liveHead = None]
AtCap == mem.round >= MaxRounds

SeenRound(m) == [seen EXCEPT !.reached = m.round, !.blocking = m.ls.lastBlockingFindings]

\* The round is assessed; anything but an approval.
AssessReview ==
  LET result == AssessVerdicts(mem.ls, mem.round, mem.verdict)
      m == [mem EXCEPT !.verdict = None]
  IN /\ pc = "held" /\ result.type # "publish"
     /\ Decided(IF result.type = "pause" THEN m ELSE NextRound(m), result)
     /\ Persist(mem')
     /\ seen' = SeenRound(mem')
     /\ UNCHANGED <<disk, forge>>

\* An approved head's [live] lines ran, right after the approval.
LivePassed ==
  LET result == AssessVerdicts(mem.ls, mem.round, mem.verdict)
      m == [mem EXCEPT !.ls = result.state, !.verdict = None, !.liveHead = mem.judged.head]
  IN /\ pc = "held" /\ result.type = "publish"
     /\ Becomes("publish", m)
     /\ Persist(mem')
     /\ seen' = [SeenRound(mem') EXCEPT !.cleared = @ \cup {mem.judged.head}]
     /\ UNCHANGED <<disk, forge>>

\* An approval is withdrawn: a new round, or at the cap a pause.
Withdraw(m) ==
  /\ IF AtCap THEN PausesFor("max_rounds", m)
              ELSE Becomes("dispatch_developer", NextRound(m))
  /\ disk' = Discarded
  /\ Persist(mem')
  /\ seen' = SeenRound(mem')
  /\ UNCHANGED forge

LiveFailed ==
  LET result == AssessVerdicts(mem.ls, mem.round, mem.verdict) IN
  /\ pc = "held" /\ result.type = "publish"
  /\ Withdraw([mem EXCEPT !.ls = result.state, !.verdict = None,
                          !.liveHead = mem.judged.head])

-----------------------------------------------------------------------------
\* publish.

\* A carried approval was given by an earlier run, which may have stopped before
\* its live check.
CarriedLivePassed ==
  /\ pc = "publish" /\ mem.liveHead # mem.judged.head
  /\ Becomes("publish", [mem EXCEPT !.liveHead = mem.judged.head])
  /\ seen' = [seen EXCEPT !.cleared = @ \cup {mem.judged.head}]
  /\ NotPersisted /\ UNCHANGED <<disk, forge>>

CarriedLiveFailed ==
  /\ pc = "publish" /\ mem.liveHead # mem.judged.head
  /\ Withdraw(mem)

PublishConflict ==
  /\ pc = "publish" /\ mem.liveHead = mem.judged.head /\ forge.clash
  /\ Becomes("dispatch_developer",
             [mem EXCEPT !.conflict = TRUE, !.judged = None, !.liveHead = None])
  /\ disk' = Discarded
  /\ Persist(mem')
  /\ UNCHANGED <<forge, seen>>

\* Faulty variant: a carried approval goes out without its own live check.
PublishCarriedUnchecked ==
  /\ pc = "publish" /\ ~forge.clash
  /\ Becomes("published", NoDriver)
  /\ forge' = [forge EXCEPT !.published = mem.judged.head]
  /\ Persist(mem)
  /\ UNCHANGED <<disk, seen>>

PublishRound ==
  /\ pc = "publish" /\ mem.liveHead = mem.judged.head /\ ~forge.clash
  /\ Becomes("published", NoDriver)
  /\ forge' = [forge EXCEPT !.published = mem.judged.head]
  /\ Persist(mem)
  /\ UNCHANGED <<disk, seen>>

-----------------------------------------------------------------------------
\* Pauses.

PauseRecord(m, why) ==
  [round |-> m.round, head |-> forge.head, reason |-> why, infra |-> m.infra]

\* The base moved past the driver's own code and the re-exec could not start.
StaleDriver ==
  /\ MayHappen
  /\ pc \in TopOfLoop
  /\ PausesFor("stale_driver", Spent(mem))
  /\ used' = Counted
  /\ UNCHANGED <<store, disk, forge, seen>>

WritePause ==
  /\ pc = "pause"
  /\ Becomes("paused", NoDriver)
  /\ disk' = [disk EXCEPT !.pause = PauseRecord(mem, mem.reason)]
  /\ Persist(mem)
  /\ UNCHANGED <<forge, seen>>

\* The outer catch: any error of a driver that runs.
Crash ==
  /\ MayHappen
  /\ Running
  /\ Becomes("paused", NoDriver)
  /\ disk' = [disk EXCEPT !.pause = PauseRecord(Spent(mem), "infrastructure")]
  /\ PersistAs(Spent(mem), Counted)
  /\ UNCHANGED <<forge, seen>>

-----------------------------------------------------------------------------
\* A driver that starts again.

\* Faulty variant: the repeat memory is not read back.
SeedForgetful(m) ==
  IF store = None THEN m
  ELSE [m EXCEPT !.stalled = store.stalled, !.survives = store.stalled > 0,
                 !.infra = Larger(store.infra, @), !.delivered = store.delivered,
                 !.round = Larger(store.round, @)]

\* Faulty variant: the record's round is not read back.
SeedWithoutRound(m) ==
  IF store = None THEN m
  ELSE [m EXCEPT !.ls = RepeatMemory(@, store.blocking, store.failure),
                 !.stalled = store.stalled, !.survives = store.stalled > 0,
                 !.infra = Larger(store.infra, @), !.delivered = store.delivered]

\* What every start reads back from the loop_state record.
Seed(m) ==
  IF store = None THEN m
  ELSE [m EXCEPT !.ls = RepeatMemory(@, store.blocking, store.failure),
                 !.stalled = store.stalled, !.survives = store.stalled > 0,
                 !.infra = Larger(store.infra, @), !.delivered = store.delivered,
                 !.round = Larger(store.round, @)]

\* The newest held pair, of which only the highest round's is ever read.
Newest == CHOOSE h \in disk.held : \A g \in disk.held : g.round <= h.round
HeldChanges == disk.held # {} /\ ~Newest.clean
HeldClean == disk.held # {} /\ Newest.clean

\* A held approval covers a head that moved with its patch unchanged and no
\* newer ruling: published as it stands.
Carried(m) ==
  /\ HeldClean /\ Newest.round = m.round /\ Newest.head # forge.head
  /\ Newest.head.patch = forge.head.patch /\ Newest.ordinal = forge.ordinal

StartsWith(m, first) ==
  IF Carried(m)
  THEN Becomes("publish",
               [m EXCEPT !.judged = [head |-> Newest.head, ordinal |-> Newest.ordinal]])
  ELSE Becomes(IF first THEN "gate" ELSE "dispatch_developer", m)

Redelivered ==
  \/ Newest.round \in disk.redelivered
  \/ store # None /\ store.delivered = [round |-> Newest.round, head |-> forge.head]

\* Round markers on the pull request number the next round; the control store's
\* round is never gone back from.
Renumbered(m) ==
  LET r == IF forge.marks = {} THEN m.round ELSE Larger(m.round, Max(forge.marks) + 1)
  IN [m EXCEPT !.round = IF store = None THEN r ELSE Larger(r, store.round)]

\* Faulty variant: one retry more than MAX_INFRASTRUCTURE_RETRIES.
BarePastLimit ==
  /\ disk.pause.reason \in Automatic
  /\ Larger(disk.pause.infra, IF store = None THEN 0 ELSE store.infra) <= MaxInfra

\* A bare resume: the driver's own hiccup, while the retries last.
Bare ==
  /\ disk.pause.reason \in Automatic
  /\ Larger(disk.pause.infra, IF store = None THEN 0 ELSE store.infra) < MaxInfra

MayResume == pc = "paused" /\ (Bare \/ forge.ordinal > 0)

\* A resume of an escalation that is already resolved, as one met again after a
\* resume is, or of a bare one that was never recorded, attaches like a start.
Reattaches == MayResume /\ (used.resumes > 0 \/ Bare)

Starting ==
  /\ used.attaches + used.resumes < MaxStarts
  /\ pc = "down" \/ Reattaches

Restarted ==
  [seen EXCEPT !.read = pc = "paused" \/ seen.idle = 0,
               !.idle = IF pc = "paused" THEN 0 ELSE @,
               !.bare = IF pc = "paused" /\ Bare THEN @ + 1 ELSE @]

\* The pause record stays in the folder, but no driver reads it again.
Unpaused == [disk EXCEPT !.pause = None]

CountAttach == [used EXCEPT !.attaches = @ + 1]

\* Attach to the open pull request with nothing to deliver again.
Attach ==
  LET m == Seed(NoDriver)
      moved == [m EXCEPT !.round = Newest.round + 1]
  IN /\ Starting
     /\ HeldChanges => Newest.head # forge.head
     /\ StartsWith(Renumbered(IF HeldChanges THEN moved ELSE m), TRUE)
     /\ seen' = Restarted
     /\ used' = CountAttach
     /\ disk' = Unpaused
     /\ UNCHANGED <<store, forge>>

\* The head the held findings were made on is still there: they are delivered
\* once more, and no more than once.
AttachRedelivers ==
  LET m == [Seed(NoDriver) EXCEPT
              !.round = Newest.round + 1,
              !.delivered = [round |-> Newest.round, head |-> forge.head]]
  IN /\ Starting /\ HeldChanges /\ Newest.head = forge.head /\ ~Redelivered
     /\ Becomes("dispatch_developer", Renumbered(m))
     /\ disk' = [Unpaused EXCEPT !.redelivered = @ \cup {Newest.round}]
     /\ PersistAs(m, CountAttach)
     /\ seen' = Restarted
     /\ UNCHANGED forge

AttachNoProgress ==
  /\ Starting /\ HeldChanges /\ Newest.head = forge.head /\ Redelivered
  /\ PausesFor("no_progress", Renumbered(Seed(NoDriver)))
  /\ seen' = Restarted
  /\ used' = CountAttach
  /\ disk' = Unpaused
  /\ UNCHANGED <<store, forge>>

\* A read that fails before the round is recovered.
AttachFails ==
  LET m == Spent(Seed(NoDriver)) IN
  /\ MayHappen
  /\ Starting
  /\ Becomes("paused", NoDriver)
  /\ disk' = [disk EXCEPT !.pause = PauseRecord(m, "infrastructure")]
  /\ PersistAs(m, [CountAttach EXCEPT !.events = @ + 1, !.failed = @ + 1])
  /\ seen' = Restarted
  /\ UNCHANGED forge

\* --resume at the pause: a ruling followed by a push restarts the round counter
\* at the ruling's ordinal, and a hiccup with nothing to deliver goes straight to
\* the gate.
Resume ==
  LET moved == forge.head # disk.pause.head
      m == Seed([NoDriver EXCEPT
                   !.round = IF moved /\ ~Bare THEN forge.ordinal ELSE disk.pause.round,
                   !.infra = disk.pause.infra])
      first == moved \/ (/\ disk.pause.reason \in Automatic
                         /\ ~(HeldChanges /\ Newest.head = disk.pause.head))
  IN /\ used.attaches + used.resumes < MaxStarts
     /\ MayResume
     /\ StartsWith(m, first)
     /\ disk' = Unpaused
     /\ PersistAs(m, [used EXCEPT !.resumes = @ + 1])
     /\ seen' = Restarted
     /\ UNCHANGED forge

Kill ==
  /\ MayHappen
  /\ Running
  /\ Becomes("down", NoDriver)
  /\ used' = Counted
  /\ UNCHANGED <<store, disk, forge, seen>>

-----------------------------------------------------------------------------
(***************************************************************************)
(* The world around the driver.  Each of its moves is taken where the      *)
(* driver next reads what moved: a move made earlier has the same effect.  *)
(***************************************************************************)
Push(resolves) ==
  /\ pc \in {"turn", "resumed_turn", "dispatch_reviewers", "reviewing", "paused", "down"}
  /\ forge.head.patch < MaxPatch
  /\ forge' = [forge EXCEPT !.head = [patch |-> @.patch + 1, rev |-> @.rev],
                            !.clash = @ /\ ~resolves]
  /\ UNCHANGED <<pc, mem, store, disk, used, seen>>

Rebase ==
  /\ MayHappen
  /\ pc \in {"turn", "reviewing", "paused", "down"}
  /\ forge' = [forge EXCEPT !.head = [patch |-> @.patch, rev |-> @.rev + 1], !.clash = FALSE]
  /\ used' = Counted
  /\ UNCHANGED <<pc, mem, store, disk, seen>>

BaseMoves ==
  /\ MayHappen
  /\ pc \in {"gate", "dispatch_reviewers", "publish"} /\ ~forge.clash
  /\ forge' = [forge EXCEPT !.clash = TRUE]
  /\ used' = Counted
  /\ UNCHANGED <<pc, mem, store, disk, seen>>

Rule ==
  /\ MayHappen
  /\ pc \in {"dispatch_reviewers", "reviewing", "paused"}
  /\ forge' = [forge EXCEPT !.ordinal = @ + 1]
  /\ used' = Counted
  /\ UNCHANGED <<pc, mem, store, disk, seen>>

-----------------------------------------------------------------------------
\* What the driver does by itself while it lives.
DriverStep ==
  \/ BeginTurn \/ ConnectionRetry \/ TurnEnds
  \/ \E sig \in Signature \cup {None}, late \in BOOLEAN :
       UnpushedWork(sig, late) \/ Stall(sig, late) \/ ReadRed(sig, late)
  \/ \E left \in {"nothing", "dirty", "ahead"}, sig \in Signature, late \in BOOLEAN :
       ResumedTurnEnds(left, sig, late)
  \/ RerunChecks \/ GreenAtStall
  \/ GateConflict
  \/ \E c \in {"absent", "low", "high"}, late \in BOOLEAN :
       ReadGreen(c, late) \/ AskConfidence(c, late)
  \/ ReviewConflict \/ StartReview \/ ReviewFails
  \/ \E why \in {"ruling_posted", "inputs_changed"} : InputsMoved(why)
  \/ \E v \in Verdict : HoldVerdicts(v)
  \/ AssessReview \/ LivePassed \/ LiveFailed
  \/ CarriedLivePassed \/ CarriedLiveFailed \/ PublishConflict \/ PublishRound
  \/ StaleDriver \/ WritePause \/ Crash

Next ==
  \/ DriverStep
  \/ Attach \/ AttachRedelivers \/ AttachNoProgress \/ AttachFails \/ Resume \/ Kill
  \/ \E resolves \in BOOLEAN : Push(resolves)
  \/ Rebase \/ BaseMoves \/ Rule

\* A reading of the gate that finds the task's time budget spent.  Active time
\* only grows, so a driver that keeps reading the gate comes to one.
OutOfTime ==
  \/ \E c \in {"absent", "low", "high"} : ReadGreen(c, TRUE) \/ AskConfidence(c, TRUE)
  \/ ReadRed(None, TRUE)

Spec == Init /\ [][Next]_vars /\ WF_vars(DriverStep) /\ SF_vars(OutOfTime)

-----------------------------------------------------------------------------
(***************************************************************************)
(* A driver never works under a round number below the one the last        *)
(* assessed round left the task at, whatever is killed in between: either  *)
(* the control store, or the markers on the pull request, carry it across. *)
(* A resume of a pause whose driver had not read the markers has the       *)
(* control store alone, which falls behind when a write is lost, or when a *)
(* redelivery persists its round before the markers have renumbered it.    *)
(***************************************************************************)
RoundKept ==
  Running /\ used.lost = 0 /\ used.failed = 0 => mem.round >= seen.reached

(***************************************************************************)
(* The round cap: only a restart, which skips a round whose marker was     *)
(* posted before its reviewers were done, or a ruling numbered past the    *)
(* cap, takes the loop past MaxRounds.                                     *)
(***************************************************************************)
RoundBound ==
  mem.round + 1 <= Larger(MaxRounds, forge.ordinal) + Larger(used.attaches, 1)

(***************************************************************************)
(* The Developer gets no more idle turns in one stall episode than         *)
(* MAX_GATE_STALLED_TURNS, and one more for each driver that was killed in *)
(* the middle of it, as long as no loop_state write was lost.  An episode  *)
(* ends with a reading of the gate that is not a driver's first, or with a *)
(* resume.                                                                 *)
(***************************************************************************)
StallBudgetKept ==
  used.lost = 0 => seen.idle < MaxStalled + Larger(used.attaches, 1)

(***************************************************************************)
(* A finding that blocked the last assessed round and blocks this one is   *)
(* not sent to the Developer a second time, across any number of restarts, *)
(* as long as no loop_state write was lost.                                *)
(***************************************************************************)
RepeatFindingPauses ==
  [][/\ pc = "held" /\ pc' = "dispatch_developer" /\ used'.lost = 0
     => mem.verdict.blocking \cap seen.blocking = {}]_vars

(***************************************************************************)
(* What is published is a head both reviewers approved and whose [live]    *)
(* lines passed, a carried approval included.                              *)
(***************************************************************************)
PublishedIsApproved ==
  forge.published # None =>
    /\ forge.published \in seen.cleared
    /\ \E h \in disk.held : h.clean /\ h.head = forge.published

(***************************************************************************)
(* Resumes without a ruling are bounded for the life of the task: each     *)
(* follows a pause that spent a retry, and the pause record keeps the      *)
(* count when the control store lost it; a lost write costs at most one.   *)
(***************************************************************************)
BareResumesBounded == seen.bare < MaxInfra + used.lost

-----------------------------------------------------------------------------
(***************************************************************************)
(* The inductive invariants behind the properties above.                   *)
(***************************************************************************)
\* A record that carries on what the driver knew; an absent one knows nothing.
StoredInfra == IF store = None THEN 0 ELSE store.infra
StoredStalled == IF store = None THEN 0 ELSE store.stalled
StoredBlocking == IF store = None THEN {} ELSE store.blocking

\* An approval on its way to publication is held on disk for the head it judged,
\* and its live check, once done, was passed.
ApprovalInv ==
  /\ pc \in {"reviewing", "held", "publish"} => mem.judged \in Judgement
  /\ pc = "held" =>
       /\ mem.verdict \in Verdict
       /\ \E h \in disk.held : /\ h.round = mem.round /\ h.head = mem.judged.head
                               /\ h.clean = (mem.verdict.verdict = "clean")
  /\ pc = "publish" =>
       /\ \E h \in disk.held : h.clean /\ h.head = mem.judged.head
       /\ mem.liveHead = mem.judged.head => mem.judged.head \in seen.cleared
  /\ forge.published # None => pc = "published"
  /\ pc = "pause" => mem.reason \in Reason
  /\ pc = "paused" => disk.pause \in PauseState

\* No record numbers a round above the cap, and before the first driver there is
\* none: a restart, which adds one to a record, also raises the bound.
Capped(round) == round + 1 <= Larger(MaxRounds, forge.ordinal) + Larger(used.attaches, 1)

NumberInv ==
  /\ store # None => Capped(store.round)
  /\ pc = "paused" => Capped(disk.pause.round)
  /\ \A h \in disk.held : Capped(h.round)
  /\ \A k \in forge.marks : Capped(k)
  /\ used.attaches = 0 =>
       pc = "down" /\ store = None /\ disk.held = {} /\ forge.marks = {}

\* The markers on the pull request lead to the round reached, and what a resume
\* reads back is not behind it.
ReachedInv ==
  /\ \A h \in disk.held : h.round \in forge.marks
  /\ pc \in {"reviewing", "held", "publish"} => mem.round \in forge.marks
  /\ seen.reached <= 1 \/ \E k \in forge.marks : seen.reached <= k + 1
  /\ pc = "paused" /\ used.lost = 0 /\ used.failed = 0 =>
       store # None /\ store.round >= seen.reached

\* The stall count on record is never below the idle turns of the episode, and a
\* driver that recovered one keeps it over its first reading.
StallInv ==
  used.lost = 0 =>
    /\ seen.idle <= StoredStalled
    /\ Running => seen.idle <= mem.stalled
    /\ Running /\ pc # "pause" =>
         /\ seen.read \/ mem.survives
         /\ seen.idle + 1 < MaxStalled + used.attaches
    /\ seen.idle < MaxStalled + used.attaches

\* Every bare resume so far is covered by a retry that is on record, or by a
\* write that was lost; one that may follow is covered already.
BareInv ==
  /\ seen.bare <= StoredInfra + used.lost
  /\ Running => seen.bare <= mem.infra + used.lost
  /\ pc = "pause" /\ mem.reason \in Automatic =>
       mem.infra >= MaxInfra \/ seen.bare + 1 <= mem.infra + used.lost
  /\ pc = "paused" /\ disk.pause.reason \in Automatic =>
       \/ disk.pause.infra >= MaxInfra \/ StoredInfra >= MaxInfra
       \/ seen.bare + 1 <= StoredInfra + used.lost

\* The findings a driver compares the next verdicts with are those of the last
\* assessed round.
BlockingInv ==
  used.lost = 0 =>
    /\ StoredBlocking = seen.blocking
    /\ Running => mem.ls.lastBlockingFindings = seen.blocking

RoundLoopInv ==
  /\ ApprovalInv /\ PublishedIsApproved
  /\ NumberInv /\ RoundBound
  /\ ReachedInv /\ RoundKept
  /\ StallInv
  /\ BareInv /\ BareResumesBounded
  /\ BlockingInv

-----------------------------------------------------------------------------
(***************************************************************************)
(* The loop never runs for ever: every driver ends paused, published or    *)
(* dead, because every way back to the Developer is bounded.               *)
(***************************************************************************)
LoopStops == Running ~> ~Running
=============================================================================
