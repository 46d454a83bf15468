# A TLA+ specification of Vinaya's run control

Vinaya is an engineering harness that drives coding agents through a task: a
*driver* process runs development and review rounds on a pull request, posts
comments and verdicts to the forge, pauses when it needs a decision from the
Principal or when the infrastructure fails, and is resumed, cancelled, restarted
or handed over by other processes. Everything those processes share is a
directory of small JSON files and the forge itself. There is no server and no
transaction: the correctness of a run rests on `link(2)`, `open(O_EXCL)`,
`rename(2)` and `unlink(2)`, on an *epoch* number that fences writers, and on the
order in which the code calls them. This project models that part of Vinaya.

Paths below are relative to `src/`; the dev-review loop's files are under
`harness/processes/vinaya-strict/loops/dev-review/`.

## 1. The system

| Part | State it keeps | Operations | Code |
| --- | --- | --- | --- |
| Control store, ownership | `ownership/epoch-<n>.json` | `acquireOwnership`, `assertCurrentEpoch`, `readCurrentOwnership` | `harness/kernel/connectors/checkpoint/control-store/local.ts` |
| Control store, effect records | one record per effect key: `started`, `verified`, `uncertain` | `writeEffect`, `readEffect`, `listStartedEffectKeys`, `markEffectUncertain` | same |
| Control store, escalations | escalation, resolution and transition records of a pause | `writeEscalation`, `consumeResolutionOnce`, `appendTransition` | same |
| Control store, the rest | run, input, manifest, loop-state, round mirror; migration; outcomes | whole-file replacements | same directory |
| Effect executor | none of its own (an epoch per call) | `execute`, `reconcileExisting`, `postAndRecord` | `harness/kernel/effects/effects.ts` |
| Pause comments | `pause-state.json` | `postWithRetry`, `writeEscalationRecord` | `standalone/dev-review-loop/pause-resume.ts` |
| Driver lock | `driver.pid.json` | entry gate, `acquireDriverLockAtomic`, `clearDriverLock`, `keepDriverLock`, hand-off | `standalone/dev-review-loop.ts`, `pause-resume.ts`, `driver-lifecycle.ts` |
| Watching driver | watch baseline, retry count (in memory) | `runDriverLoop`, `watchPauseThenResume` | `standalone/dev-review-loop.ts` |
| Operator commands | none | `--resume`, `task_cancel`, `cancelDevReviewLoop` | `standalone/dev-review-loop.ts`, `run-control/cancel.ts` |
| Background start | `run/bg-<task>-<epoch>.json`, input and transition records | `startBackgroundRun` and its detached controller | `run-control/task-run-background.ts` |
| Task tools | `start-request-*.json` and `resume-claim-*.json` claim files | `task_start`, `task_resume`, the state gate, the detached launch and its wait | `run-control/start.ts`, `resume.ts`, `task-status.ts`, `detached-launch.ts` |
| Round policy | none (a value passed through) | `assessRound` | `harness/processes/vinaya-strict/tools/dev-review-policy/assess-round.ts` |
| Round loop | `loop_state` record, held verdicts, redelivery and round markers, `pause-state.json` | attach, Developer turn, gate, review, assessment, publication, pause, resume | `standalone/dev-review-loop.ts` |
| Log pipeline | outbox buckets, `.flush-lock`, rejected file | `appendLine`, `drainOutboxToWebhook` | `harness/kernel/log/log-sink.ts`, `client/log-webhook-drain.ts` |
| Log server and follower | `events` and `rejected` tables; the follower's last position | ingest, replay, page, live feed; follow, resync, reconnect | `apps/log-server/src/repo-log.ts`, `harness/kernel/log/client/log-follow.ts` |
| Engine runtime | SQLite checkpoints, run legs | checkpoint, resume of a leg | `harness/kernel/loops/runtimes/atta-engine/` |
| Tool broker, adapters, gates | sessions, versions | dispatch of tool calls | `harness/kernel/tools/`, `adapters/`, `gates/` |
| CLI, portal, packages, scripts | none | parsing, rendering | `apps/`, `packages/`, `scripts/` |

How they interact. A driver passes the *driver-lock gate*, then works. Every
write to the control store claims or asserts an *epoch* of the task. Every
comment goes through the *effect executor*: a `started` record, the post, a
`verified` record. To pause, the driver writes an escalation record and the pause
state; under `runDriverLoop` it keeps the lock and watches the pause, otherwise it
exits. A *resume* (by the watch or an operator) or a *cancel* (by an operator)
first consumes the pause's resolution, exclusively, then appends a transition,
then drives on or fences the unfinished effects as `uncertain`. Drivers are started
from a terminal, by `--background` (which claims an epoch for the controller it
spawns and records it) or by the *task tools*, which write a claim file per request
so that a repeated call finds the process that the first one launched. Between the
gate and the pause the driver runs the *round loop*: a Developer turn, the mechanical
gate, two reviewers, and `assessRound`, which says what comes next. All of them log:
a line goes to an outbox file, a *drain* posts it to the log server, and followers
read the server's stream.

What is hard, and what correctness means:

- **Interleaving of system calls.** Two processes read the same directory, then
  act. Ownership must give an epoch to one of them; the driver lock must leave one
  driver; a pause must be resolved once.
- **Check, then act.** An epoch is asserted before a rename, a dead lock record is
  read before it is unlinked, a ruling is read before it is acted on.
- **Crash between steps.** After a comment was posted and before its record;
  after a resolution was consumed and before anybody follows it; with the lock
  file left behind.
- **The forge.** Posts that throw after landing, that land late, reads that fail.
- **Recovery from partial memory.** A killed driver comes back with a `loop_state`
  that may be one write behind, verdicts on disk that may be of an older head, and
  markers on the pull request; budgets and caps must survive it.
- **Retried requests.** A tool call repeated after a lost answer, a POST repeated after
  a lost acknowledgement, a follower that reconnects.
- **Liveness.** A ruling must be acted on, a cancel must end the watch, a crash
  must not block the next start, a reclaim loop must end, a logged line must arrive,
  the round loop must stop.

PROJECT.json lists every such hazard at its line with the properties that guard it.

## 2. Modules

| Module | Models | Extends / instances |
| --- | --- | --- |
| `Ownership` | epoch files and `acquireOwnership`, one system call per step | instance of `EpochLedger` for the refinement |
| `EpochLedger` | what ownership promises: an append-only ledger of grants | |
| `BackgroundStart` | `startBackgroundRun`: attach, fence, claim, spawn, acknowledge | extends `Ownership` |
| `BackgroundProofs` | proofs about `Ownership` and `BackgroundStart` | `BackgroundStart` |
| `DriverLock` | `driver.pid.json`: gate, release, watch re-entry, hand-off | |
| `DriverLockProofs` | proofs about `DriverLock` | `DriverLock` |
| `EffectExecutor` | effect records, executor, poster retry, cancellation fence | |
| `EffectProofs` | proofs about `EffectExecutor` | `EffectExecutor` |
| `Resolution` | pauses, watch, `--resume`, `task_cancel`, resolutions | |
| `ResolutionProofs` | proofs about `Resolution` | `Resolution` |
| `TaskStart` | `task_start`, `task_resume`, claim files, state gate, launches | |
| `TaskStartProofs` | proofs about `TaskStart` | `TaskStart` |
| `RoundPolicy` | `assessRound` as operators | |
| `RoundLoop` | the rounds of a driver, its recovery, pauses and resumes | extends `RoundPolicy` |
| `RoundLoopProofs` | proofs about `RoundLoop` | `RoundLoop` |
| `DrainLock` | `.flush-lock`: acquire, renew, take over, release | |
| `LogStore` | the server's store of one request body | |
| `LogDrain` | outbox buckets, rotation, drains, the server's side of a POST | extends `DrainLock`, `LogStore` |
| `LogDrainProofs` | proofs about `DrainLock` and `LogDrain` | `LogDrain`, `LogFeedProofs` |
| `LogFeed` | ingest, replay of rejected lines, live feed and one follower | extends `LogStore` |
| `LogFeedProofs` | proofs about `LogStore` and `LogFeed` | `LogFeed` |
| `MC*` | small sets of processes, keys and identities for TLC | the module of that name |

Definitions named "Faulty variant" are plausible mistakes in the code. No
specification uses them; each shows that some property would notice the mistake.
The type invariants (`*TypeOK`) and the inductive invariants of section 4 hold in the
runs of their modules and may be added to their cfgs; the cfgs list what is worth a run
of its own.

### Ownership
`epochFile[e]` is the file of epoch `e`: absent, a process's record, or corrupt.
`acq[p]` is where a call of `acquireOwnership` stands. `ReadCurrent` lists the
directory and aims at the next epoch; `LinkEpoch` is the `link(2)` of a finished
temporary file (an epoch file is never half written); after `EEXIST`, `Reparse`
reads the file, and `UnlinkCorrupt` removes *whatever the name holds by then*.
`GiveUp` is the end of `MAX_ACQUIRE_ATTEMPTS`. `OrphanedClaim` is the fault the
reclaim path exists for, an unreadable file under the next epoch's name;
corruption of an epoch that was already granted is not modelled. `faults` is the set
of epochs whose name ever held such a file; the guarantees are about all the others.
`Forget` covers both a caller that is done and one that dies: the store has no
release.

### BackgroundStart
Composed with `Ownership`: a start claims its epoch by the same steps, among other
processes that claim epochs too. `start[s]` is where an invocation stands, `runFile[e]`
the controller recorded under epoch `e`, `journal[e]` the transition slots of `e`,
`child[s]` the controller it spawned. Each record is an assert and a write in two
steps (`AssertEpoch`, then the write), and an overtaken write ends the controller.
A transition is appended by a probe for a free sequence slot, with a bounded number
of tries. Controllers die and starters are killed at any step.

### DriverLock
`lock` is what the file holds: nothing, an unparsable (empty) file or a process's
record. `opened` is who has a descriptor on the file now at the path, because
`writeFileSync` with `wx` is an open and a write, and a reader in between sees an
empty file. Each process passes the gate as a one-shot call, as the first call of
a watching driver, or again under the token it kept. Exits follow
`keepDriverLock`. The hand-off clears the record, spawns the child and, if that
fails, writes the record back. `PidOf` maps two processes to one pid, so a reissued
pid is part of the model. `MaxGate` bounds the number of processes between their
read and their claim.

### EffectExecutor
`record[k]` is the effect record under a key, `copies[i]` the comments on the forge
that carry identity `i` (operation, target, input version and payload digest are
one value). A call of `execute` acquires an epoch (as `EpochLedger` says), looks at
the record, may reconcile with the forge, and writes in two steps: `AssertEpoch`,
then `Rename`. `Post` has all four outcomes: landed or not, returned or threw.
`Recheck` is the look at the forge between two tries of `postWithRetry`. `Cancel`
and the steps `List`, `Mark` are `fenceStartedEffectsAsUncertain`, which acquires a
new epoch when it is overtaken. `Overtake` is any other holder of the store claiming
the next epoch between two steps of a call. `Crash` may leave a post under way (`late`)
that `LandLate` delivers. `intents` and `blind` are history variables: fresh intents
recorded, and copies that no look at the forge could have prevented (a repeat after an
unreadable forge, a post of a dead process that lands late).

### Resolution
`pause` is the current pause; each pause has a kind (`bare`: infrastructure or stale
driver, resumed without a ruling while retries last; `ruling`: the Principal
decides), an escalation record that may have failed to be written, the ruling known
when it was raised, the retries spent, a resolution and the transitions out of it.
`at[p]` is where a process is, `watch[p]` what its watch remembers. `Check` to
`AppendTransition` are `resolveEscalation` with its two epoch asserts;
`ReplayResume` and `ReplayCancel` are what callers do with a consumed resolution;
`EnterGate` is the rest of the resume, the read of the ruling's text (which may
throw) and the lock gate; `Fail` is the watch's catch block. The driver lock is
taken here as a single holder, and an attempt that loses its epoch claim is one that
is overtaken before its first assert.

Left out of this module: the stale-driver hand-off (in `DriverLock`), host-repair
pauses, rate- and usage-limit waits, the watch of a pause that has no pull request,
the watch of a published pull request, and the text of answers. The stricter ruling
check of `task_resume` admits fewer resumes than `--resume` and adds no behaviour.
The retries a new pause starts from are any number up to the limit. `PauseAgain` is a
resumed run that hits the identical pause and reuses its escalation id; a pause whose
escalation record failed to be written has `esc = 0`.

### TaskStart
`claim[k]` is the claim file under a request id or an escalation id, with its age
(just created and empty, fresh, past the launch window, past the retention) and the
process it records. `call[c]` is a tool call and its place in the handler; a handler
runs without interruption inside its server up to the await of its launch, so two
calls of one server interleave only there, and calls of two servers at every file
operation. `child[p]` is a detached process: it prepares, consumes the pause's
resolution, and takes the driver lock, the last two as one step each (`Resolution` and
`DriverLock` have their details). `newer` abstracts the comparison of times in the
state gate to the claims accepted after the lock on disk was written.

### RoundPolicy and RoundLoop
`RoundPolicy` is `assessRound`: a gate reading, the merged verdict of the two reviewers
or a mechanical failure, to a decision and a new state. `RoundLoop` is the driver
around it. `pc` is the decision at the top of the loop or the place inside its handler;
`mem` the driver's variables, `store` the `loop_state` record, `disk` the run folder,
`forge` the branch and pull request with its round markers. `Attach` recovers a round
from store, held verdicts and markers; `Kill` drops `mem`. A write of `loop_state` may
be lost, since the code swallows its error.

What is abstracted. The faults and moves of the world share one budget (`MaxEvents`),
so a run with two of them contains every pair. A head is a patch and a revision (a
rebase keeps the patch). Moves of the branch and of its base happen where the driver
next reads them. A successful re-exec onto a moved base is a kill followed by an attach.
An attach is allowed after any resume, as the identity of the escalation is not part
of this module (it is of `Resolution`). The infrastructure count is capped at its limit,
and values nobody reads any more are cleared. Left out: rate-limit, sign-in and sandbox
refusals, a Developer's own stop, the phase before the pull request exists,
`pauseOnConflict`, a corrupt `loop_state`, and the kept verdict of a sibling reviewer.

### DrainLock and LogDrain
`lockFile` is the `.flush-lock` with the token of one acquisition and a stamp for its
modification time. Taking over a stale lock is a rename to a private name, a comparison
with what was judged stale, and either a drop or a link back. `lapses` counts how often a
live holder lost its lock to time or to a contender that died (`Lapse`): the holder did not
renew it for the whole stale age, or the contender had moved it aside and not yet put it
back. In `LogDrain` files are
inodes (`name`, `data`), because a producer that has the live file open keeps writing
to it after a rename. A drain takes the buckets in the code's order (what an earlier
drain left, the backup, the live file), posts chunks from the head, renews the lock
between them, and cuts each acknowledged chunk off in two steps (truncate, write). A
POST may fail, be answered late, or arrive although it was given up. `excused` and
`mates` are history variables: events given up by a rotation, by a write to a file that a
drain has taken or by a crash inside a rewrite, and pairs written one behind the other in
one file.

### LogStore and LogFeed
`StoreBatch` is `INSERT OR IGNORE` by event identity, one `StoreLine` after the other;
`Among` is the part of a body that the validator reads, or refuses. Both are recursive
functions over the places of a sequence, so that they can be reasoned about. The server is a durable object, so
a request is one step. The follower dials after the last position it handed over, pages
when told to resync, and reconnects after a drop; a connection delivers in order until
it drops and loses what is in it. `Redeploy` is a newer validator, after which
`ReplayRejected` re-reads the newest part of the rejected lines.

## 3. Runs

Bounds are constants of the modules. Deadlock is not checked: every model may stop,
because its processes may all be done and its bounds used up.

| Run | Instance | Shows |
| --- | --- | --- |
| `ownership_safety` | 3 callers, 3 epochs, 2 attempts, 1 epoch that may get a corrupt file; 187,000 states | one winner per epoch and immutable records for every epoch never corrupt; until a corruption the directory implements `EpochLedger` |
| `background_start` | 2 starts, 1 other claimer, 3 epochs, 1 corrupt file; 260,000 states | a handle given back names a recorded run, no controller lives unrecorded, no transition is overwritten, every start and every acquisition returns |
| `driverlock_serial` | 4 processes, one under a reissued pid, 1 kill, starts do not overlap at the gate | one driver, which owns the record on disk; a stale record never blocks |
| `effect_calls` | 1 call at a time, overtaken by others; 2 keys, 2 identities, 3 epochs, 2 post tries, 2 reconcile tries, 1 late post, 1 corrupt record, crashes at every step; 409,000 states | verified means landed, one copy per intent, uncertain is final, a fence leaves nothing started, every call ends |
| `resolution_race` | a watch and an operator, 2 pauses, 2 rulings, 4 epochs, 1 crash, 1 failed read; 1.3 million states | the journal matches the resolution, no run from a cancelled pause, drivers and watches hold the lock, a cancel ends the watch |
| `resolution_watch` | a watch alone, 3 pauses, 2 rulings, 7 epochs, 2 retries, 1 crash, 1 failed read; 909,000 states | a ruling after the baseline is acted on, a bare pause is resumed while its retries last |
| `log_drain` | 2 processes, 2 lines, a file full after one, chunks of one line, 1 line that may be undeliverable, 1 crash, 1 failed POST; 651,000 states | one drain at a time, no line unaccounted for, the order of a file kept at the server, everything delivered in the end |
| `log_feed` | bodies of 2 lines, 3 posts, pages of 1, catch-up of 1, 2 drops, a replay window of 2; 45,000 states | the follower hands over every position once and in order, a replay recovers what its window reaches, the follower catches up |
| `start_safety` | 1 server, 2 calls at once, 2 request ids, 2 processes, 1 pause; 1.3 million states up to symmetry | one live launch per claim, every live launch claimed, no empty claim left by a finished call |
| `start_retry` | 2 servers, 1 request id, 1 process, 1 crash, 1 failed read or spawn; 523,000 states | a caller that repeats `task_start` is not locked out by a leftover claim |
| `round_restart` | 2 rounds, 3 starts, any 2 faults or moves of the world, 5 verdicts; the branch moves by rebases (pushes are in `round_stops`); 2.1 million states | the round number, the round cap, the stall budget and the retry budget survive restarts; what is published was approved |
| `round_stops` | 3 rounds, 2 starts, 1 fault, 3 verdicts, 1 retry after a failed connection; 267,000 states | a finding that comes back is not sent to the Developer again, and the loop stops |

Why the bounds are enough to be interesting. Three callers are the least in which a
loser and a bystander race a winner; three epochs let a winner be overtaken twice, one
of them under a name that was corrupt. Two starts and a third claimer let a start be
overtaken between any two of its three records by either kind. Four processes, two of
one pid, let a driver die, be taken over, hand off, and let the dead pid come back. Two
keys and two identities let a key change its identity and change back and let a fence
find one of two records finished. Two pauses let an attempt on the first survive into
the second; two rulings let the second pause be cancelled by a ruling newer than
itself, or one be posted before a watch's baseline and one after it; four epochs let an
attempt be overtaken at either of its asserts. Two lines with a rotation after one fill all three buckets of the outbox, and chunks of one line
let a drain die between any two of them. Three posts of two lines exceed both the
catch-up and the page, so a follower is told to resync and pages more than once. Two
request ids and two processes let a claim be superseded while the process of the other
one lives. Two rounds are the least with a cap reached after a round that went back to
the Developer, and three the least in which a finding is seen, fixed and seen again;
two events put a second fault into the recovery from a first.

`driverlock_serial` and `effect_calls` exclude overlapping calls on purpose: the
overlapping cases break these properties (section 5), so the runs say how far the
guarantee goes. For the same reasons `RulingIsServed` is about rulings
after which no more reads fail, `start_safety` has one server, and
`log_drain` has `MaxLapses = 0`: a live holder that does not renew its lock for its
whole stale age is outside the guarantee the code's comments give, and one crash is too few
for a lapse of the other kind. `NeverWedged` also
passes with one server, two request ids and one call at a time.

Fairness. Weak fairness is assumed for the straight-line code of a live process
(`AcquireStep`, `StartStep`, `GateStep`, `HandOffStep`, `CallStep`, `AttemptStep`,
`AppendStep`, `DrainStep`, `LockStep`, `DriverStep`, `Follow`) and for the poll of a
watch (`StartWatch`, `WatchCancelled`, `WatchResume`): these are synchronous
statements, awaited calls with a timeout, or a timer loop, and nothing in them waits
for another process. A process that dies leaves the place that would have to go on.
Time passes, so a claim ages (`ClaimAges`) and an abandoned lock does (`Ages`); the log
server stores what reaches it (`ServerStores`). Strong fairness is assumed twice. Of
`DrainStart`, because every log call schedules a drain and there is no retry timer: the
delivery promise is that of a task that keeps logging. Of `OutOfTime`, because a
driver's active time only grows, so a loop that keeps taking turns exceeds its time
budget at one of them. No fairness is assumed of starts, crashes, kills, corruptions,
late posts, drops, operators, the Principal, or of when a driver pauses or ends.
Properties that a bound of the model could block say so (`Served`, `AcquireReturns`,
`CallEnds`).

## 4. Proofs

The theorems hold for every value of the constants: any number of processes, starters,
calls, keys, epochs, rounds, retries and faults. Each is `Spec => []P` (or an action
property of it), by an inductive invariant `Inv` with one step of the proof per action.
The type invariant of the module is part of every induction.

What is assumed of the constants is in the named `ASSUME`s, which TLC evaluates on each
run: sets of values that stand for "none" are apart from the values, bounds are natural
numbers, `MaxRounds`, `MaxStalled`, `MaxInfra`, `MaxAttempts` and the page size at least
1, the set of starters and that of draining processes finite, and a verdict that approves has no blocking finding (the
code derives the one from the other).

Some theorems have a hypothesis, because without it the property is false of the code
(section 5 gives the counterexamples). Each hypothesis is met by the specification of
the run that checks the property, and none excludes the faults it is about.

| Theorems | Hypothesis | What it leaves out |
| --- | --- | --- |
| `LockInvariant`, `OneDriverHolds`, `DriverOwnsLockHolds` | `MaxGate = 1` | two starts between their read of the lock and their claim at once |
| `SoloInvariant`, `OneCopyPerIntentHolds`, `UncertainIsFinalHolds`, `FenceLeavesNothingStartedHolds` | at most one call of the executor at a time; other holders still overtake it | two executors between assert and rename |
| `LogDrainInvariant`, `OneDrainerHolds`, `EveryLineAccountedHolds`, `FileOrderKeptHolds` | `Undisturbed`: `Steady` (no live holder's lock has lapsed) and `TwoContend` (at most two callers are between the start of an acquisition and its end); dead holders, takeovers, failed and late POSTs stay in | a holder that stalls past the stale age; a contender killed with a live holder's lock aside; three contenders for one stale lock |
| `StartInvariant`, `OneLaunchPerClaimHolds`, `LiveLaunchIsClaimedHolds`, `NoEmptyClaimHolds` | `OneServer`, `ServersLive`: one server, which does not die; drivers die and reads fail | two servers superseding one dead claim; a claim left empty by a dead server |

**Ownership.** `OwnershipInvariant` proves `OwnershipInv`, for any `MaxFaults`.
`SingleWinner` alone is not inductive: a caller about to link must be known to aim just
above a complete history, a caller past its link must own the file it believes in, and a
caller on the reclaim path must be at an epoch in `faults`, since its unlink removes
whatever is there. `SingleWinnerHolds`, `LoserAndContiguity` and `OwnerImmutableHolds`
follow. The restriction to epochs outside `faults` is needed: an epoch that was reclaimed
may be held twice. `ImplementsLedgerHolds` is the refinement: until the first corrupt
file, the directory is an append-only ledger, and every system call is a grant or a
stutter.

**Background starts.** `BackgroundInvariant` composes `OwnershipInv` with `BackgroundInv`:
as long as no file is corrupt a run record is written by the holder of its epoch alone, so
nobody replaces it, and a start past its run record finds it under its own epoch. A slot
of the journal is free when it is probed, because a journal is finite.
`HandleIsDurableHolds`, `NoUnrecordedControllerHolds`, `TransitionKeptHolds`.

**Effects.** `EffectTypeCorrect` proves types and `LandedInv` for overlapping calls, crashes,
late posts, corrupt records and fences: whoever is between deciding on `verified` and
renaming it into place has seen or made a copy, and copies are never removed. Its
consequence is `VerifiedMeansLandedHolds`. For calls one at a time `SoloInv` adds the
accounting of copies: a call that has not posted yet is *credited* with one more intent
than there are copies, what a call saw of the record is still so, and what a fence has
marked stays marked while what is still started is on its list.

**Driver lock.** `LockInv`: whoever drives owns the record, at most one process is between
its read and its claim, past the read only when nobody drives, it writes its record to an
empty file that is still its own, and a watch that re-enters finds its own record. Pids
may be reissued (`PidOf` is any function).

**Pauses.** `ResolutionInv`: an attempt past the exclusive create carries the decision it
wrote there, a run that was let through follows a resume, a watching driver holds the lock
through all its attempts. `JournalMatchesResolutionHolds`, `CancelledNeverResumedHolds` and
`WorkerHoldsLockHolds` need no hypothesis: any number of watchers and operators.

**Task tools.** `StartInv`: a handler runs alone in its server up to its wait (`OneTurn`); a
claim in flight belongs to one call, is not stale and names no process before its launch
has joined it (`FlightInv`); what a call has found dead stays dead until it has removed it
(`DeadInv`); a live process is awaited by its call or named by its claim (`LaunchInv`).

**Round loop.** `RoundLoopInv` has one part per property. `ApprovalInv`: an approval on its
way to publication is held on disk for the head it judged. `NumberInv`: no record numbers
a round above the bound. `ReachedInv`: the markers lead to the round reached, and what a
resume reads back is not behind it. `StallInv`, `BareInv`, `BlockingInv`: what is on record
is never below what the Developer has used up. The theorems are `PublishedIsApprovedHolds`,
`RoundBoundHolds`, `RoundKeptHolds`, `StallBudgetKeptHolds`, `BareResumesBoundedHolds` and
the action property `RepeatFindingPausesHolds`. Two properties were corrected on the way,
where the induction failed and the failing step was a behaviour of the code outside the
instance of the run: `RoundKept` excludes lost writes of `loop_state` *and* failed
attaches (it excluded only the two together), and `StallBudgetKept` excludes a lost write (every lost write could
cost a whole budget). TLC shows both halves of the first with three rounds and four
starts (section 5).

**Log feed.** `FeedInv`: what is under way to an open connection is exactly the run of
positions after the last one handed over, a request carries that last position, and no
event is stored twice. The lemmas say what `StoreBatch` and `Among` do to every sequence
(rows are only added, a body is stored whole, no row twice; an element is kept when it is
in the set). Both are recursive functions over the places of a sequence, and the
induction along it is carried out by hand: a least counterexample exists
(`LeastElement`, from the well-foundedness of the natural numbers) and its predecessor
contradicts it (`BoundedInduction`). `NoGapNoRepeatHolds` and the action property
`ReplayRecoversHolds` follow, for any sizes of bodies, pages, catch-up and replay window.

**Log drain.** `LogDrainInv` has a part for the lock, one for the drains' places and one for
the queue. `DrainLockInv`: a file that is stale, or was judged stale under the stamp it now
carries, is that of an acquisition that is over (`FileInv`); no two files carry one stamp
(`StampsDiffer`), so a comparison tells a stale file from a newer one that was moved aside
by mistake; and whoever owns the lock finds its file under the name, or the name is free and
a contender has that file aside and will put it back (`OwnersFile`). With at most two
contenders nobody is left to take the free name, and `OneDrainerHolds` follows. `BucketInv`
rests on it: what a drain holds in memory is the head of the file under the draining name,
and what it cuts off next is stored or set aside (`Mirrors`, `BucketOK`), which is false as
soon as a second drain works on the file. From it come `EveryLineAccountedHolds` and, with
`OrderInv` (in every file, rewrite and body a line stands behind the one it was written
behind, unless that one is stored, unfit or given up), `FileOrderKeptHolds`. `KnownInv` bounds
the lines, so that each append under way has one left; `NamesInv` keeps two names off one
file; `FitInv` keeps unfit lines out of every body. The theorems hold for any number of
processes that append and drain, and of lines, crashes and failures. TLC has checked
`LogDrainInv` on the instance of `log_drain`, with three lines and chunks of two, with two
crashes, and with three processes of which two contend (`CONSTRAINT TwoContend`).

Only model-checked:

- Liveness (`AcquireReturns`, `StartReturns`, `StaleLockNeverBlocks`, `CallEnds`, `CancelEndsWatch`,
  `RulingIsServed`, `BareRetryRecovers`, `NeverWedged`, `LoopStops`, `EventuallyDelivered`,
  `FollowerCatchesUp`): fairness and `ENABLED` are out of the prover's reach.

## 5. Where the guarantees end

Cases in which the code does less than a comment or a doc says of it, or than a reader
would expect. Those marked with an instance are counterexamples that TLC gives for the
named property with these constants; the others follow from the code as modelled, or
lie outside the models where it is said.

Ownership and background starts

- *Reclaiming a corrupt epoch.* Two callers find the corrupt file; one unlinks it and
  links its record; the other unlinks that record and links its own. Both hold the epoch,
  which `records.ts:79` excludes. (`SingleWinner` without its restriction to epochs
  outside `faults`.)
- A granted epoch file that became unreadable would make an older epoch current again
  (`local.ts:605`). No step of the code does this; outside the model.
- A second `--background` attaches to the first run only while the current epoch is the
  one under which that run was recorded. After any later claim, or when it reads before
  the first start's record, it starts a second controller, which the driver lock then
  stops. The header says it "attaches to that SAME run". The loser of an epoch race
  attaches to the winner's run without looking whether it lives. Under a reclaimed epoch
  the second start overwrites the first one's run record.

Driver lock

- *A fresh lock is empty for a moment.* The loser of the exclusive create re-reads an
  empty file, takes it for no lock and overwrites it; the comment at `pause-resume.ts:895`
  and the loop's documentation promise one driver. (`OneDriver` with `MCProc3`,
  `MCPidDistinct`, `MaxGate = 2`, `MaxKills = 0`.)
- With `MaxGate = 2` and a kill, the slower of two starts over a dead record unlinks the
  live winner's.

Effects

- *The epoch is asserted before the rename.* With two callers at once an executor that
  passed the assert replaces the `uncertain` record after a cancellation fenced it
  (`UncertainIsFinal`; comment at `pause-resume.ts:1443`).
- With two callers at once `OneCopyPerIntent` fails: both read no record before either
  writes (`effects.ts:189`).
- (Outside the model.) A cancel that died before its fence is answered `confirmed` when it
  is repeated, from the resolution record alone (`cancel.ts:286`).

Pauses

- *A failed read after the resolution is consumed.* The watch of a ruling pause is refused
  ever after, since the live driver is itself (`dev-review-loop.ts:9170`; `RulingIsServed`
  without its premise, one failed read). A refused replay is thrown as a plain `Error`, so
  the watch's `instanceof` test never matches and it tries again, which the comment at
  `dev-review-loop.ts:9153` rules out.
- `RulingIsServed` fails with an operator: his `--resume` consumes the resolution before
  the lock refuses him, and the watch may not follow it.
- A ruling posted between the pause record and the baseline read of `StartWatch` is older
  than the baseline and never acted on; a baseline that could not be read is 0, so a ruling
  the pause already knew resumes it.
- A resumed run that hits the identical pause reuses the escalation id, whose resolution is
  consumed: a live watch is refused as a replay, and a cancel is answered "already resolved
  as resume" (`pause-resume.ts:1145`, `cancel.ts:297`). An attempt that attached without a
  record, and stalled until the identical pause was recorded and cancelled, can still
  drive it.
- (Outside the model.) `writeEscalation` reads, then overwrites; an overtaken writer may
  overwrite a newer record (`local.ts:1053`). A migration that stops midway leaves an epoch
  behind and the next run refuses to migrate (`migration.ts:173`).

Task tools

- A claim file created but never written (its server died in between) answers every repeat
  with `started: false`.
- A server that dies after the launch and before the claim is updated is superseded, and a
  second process is launched; two servers that supersede one dead claim both launch. The
  driver lock stops the second in each case.
- In one server a second call can launch a second process while the first call's claim is
  fresh, because a published or paused record masks `starting` in the state gate; the
  header of `resume.ts` says a pause is "never handed to two concurrent continuations".
- The wait for a live driver confirms with any live pid; a resume's supersede tests the
  liveness of a pid without its identity; and a claim past its ten-minute window whose
  process still prepares no longer reads `starting`.

Round loop

- A ruling restarts the round counter at its ordinal (comment at
  `dev-review-loop.ts:3300`), but the maximum with the control store's round at the attach
  undoes it, so a `max_rounds` pause comes back after one round.
- The marker of round *k* is posted before its reviewers run, so a driver killed in the
  review attaches at *k + 1*, and at the cap a round above it runs. (`RoundBound` states
  the bound that does hold.)
- The carry of held clean verdicts has no effect on an attach whose markers are readable.
- The head is resolved again when the reviewers are dispatched, without another gate
  reading: a push in between is reviewed ungated. A dispatch for low confidence sends the
  previous round's findings again.
- A kill after the stall bound is reached and before the pause is recorded gives one more
  idle turn; a kill between holding and assessing a round loses its memory of repeats; the
  extra turn and the memory of resolved findings are not persisted at all; the replay of a
  bare attach ignores the retry count of the pause record.
- The round number can go back. A lost write of `loop_state`, a ruling and a moved head are
  enough: the resume starts at the ruling's ordinal. Without a lost write, an attach that
  redelivers findings persists the held round plus one before the markers renumber it
  (`dev-review-loop.ts:6417`, `dev-review-loop.ts:6641`); killed there and followed by an
  attach whose first reads fail, it leaves a pause that resumes one round back.
  (`RoundKept` without one half of its premise, `MaxRounds = 3`, `MaxStarts = 4`.)
- A turn that leaves a dirty worktree which its extra turn cleans resets the stall counter.
  With failures that have no name, or a new one each time, only the time budget ends this;
  a Developer who keeps pushing without resolving a conflict consults neither.
- (Outside the model.) With a corrupt `loop_state` the catch block writes round 1 over it.

Logs

- The order of lines is that of a file, not of the task: when the live file rotates while a
  drain posts the old backup, the server stores lines 1, 3, 2. (`FileOrderKept` is the
  order that does hold.)
- Lines are lost when a producer holds the live file open across a drain's rename and writes
  after its unlink; when a drain dies between the truncation and the write of the rest; when
  two producers rotate and the second overwrites a full backup; when a rotation finds the
  live file taken. `EveryLineAccounted` counts these as `excused` and excludes all others.
- Three contenders for one stale lock can end with two holders (`OneDrainer` with three
  processes), and a live holder that stalls past the stale age breaks `EveryLineAccounted`
  (`MaxLapses = 1`).
- A contender that judged a dead holder's lock stale may move aside the lock of the drain
  that has taken over since, and puts it back after the comparison
  (`log-webhook-drain.ts:163`). Killed in between, it leaves the name free under a live
  drain, and a second drain starts beside it. (`OneDrainer` with `MaxCrashes = 2`, when such
  a death is not counted as a lapse.)
- A replay reaches the newest `REJECTED_GROUP_WINDOW` lines; older ones stay rejected.

## 6. Not modelled, and the plan

The repository has some 240,000 lines of implementation, most of them without state that
another process or a crash could disturb: adapters to agents and git, the command line, the
portal, issue and contract validation, prompt and comment rendering, gate selectors,
evaluation scripts. A model of those would repeat their text. This project models the part
in which several processes share files, and that part is a small share of the lines.

Not modelled: directory-trust checks, identifier and schema validation, rendering of
comments, prompts and answers, the CLI, the portal, log wording, adapters to agents and
git, `dispatch.ts` (the running of one agent turn, whose outcomes are choices of
`RoundLoop`), issue validation, and the tool broker.

Planned, in this order:

1. Proofs: what holds of `TaskStart` with several servers; `OneDriver` under the weakest
   condition on overlapping starts; what a drain still promises with three contenders.
2. The remaining watches: a published pull request, a pause without one, rate and usage
   limits; the phase of a task before its pull request.
3. Escalation suffixes: two writers after one free name.
4. Engine runtime: run legs, the checkpoint barrier and the round mirror.
5. Migration that stops midway, and outcomes.
6. The folder follower and the sync cursor of the log client.
7. An abstract lock that `DriverLock` implements and `Resolution` and `TaskStart` use.
