----------------------------- MODULE Resolution -----------------------------
(***************************************************************************)
(* Pauses and their resolutions: a driver that pauses, the watch that      *)
(* waits for a ruling (runDriverLoop, watchPauseThenResume), operators     *)
(* that resume (devReviewLoop --resume) or cancel (task_cancel,            *)
(* cancelDevReviewLoop) the same pause, and the exclusive consumption of   *)
(* the pause's resolution (resolveEscalation, consumeResolutionOnce).      *)
(*                                                                         *)
(* The driver lock is the abstract one of DriverLock, a single live        *)
(* holder; epochs are granted as EpochLedger says.                         *)
(***************************************************************************)
EXTENDS Naturals, FiniteSets

CONSTANTS
  Watcher,     \* processes that run runDriverLoop
  Operator,    \* one-shot processes: dev-review-loop --resume, task_cancel
  MaxPauses,   \* bound: pauses of the task
  MaxRulings,  \* bound: Principal rulings posted
  MaxEpoch,    \* bound: epochs claimed
  MaxRetries,  \* MAX_INFRASTRUCTURE_RETRIES
  MaxCrashes,  \* bound: processes that die
  MaxHiccups,  \* bound: forge reads that fail where the code goes on
  Nobody       \* no live process holds the driver lock

Proc == Watcher \cup Operator
Pause == 1..MaxPauses

ASSUME ResolutionAssumption ==
  /\ MaxPauses \in Nat
  /\ MaxRulings \in Nat
  /\ MaxEpoch \in Nat
  /\ MaxRetries \in Nat
  /\ MaxCrashes \in Nat
  /\ MaxHiccups \in Nat
  /\ Watcher \cap Operator = {}
  /\ Nobody \notin Proc

VARIABLES
  pause,       \* the pause pause-state.json holds, 0 before the first
  kind,        \* kind[n]: "bare" (infrastructure, stale_driver) or "ruling"
  recorded,    \* recorded[n]: the escalation record of pause n was written
  raised,      \* raised[n]: its rulingOrdinal, the newest ruling at the time
  spent,       \* spent[n]: infrastructureRetries of the pause record
  resolution,  \* resolution[n]: "none", "resume" or "cancel"
  journal,     \* journal[n]: transitions appended out of pause n
  ruling,      \* ordinal of the newest Principal ruling
  epoch,       \* highest control-store epoch
  concluded,   \* the review is concluded: summary posted, gate passing
  holder,      \* the live process that holds the driver lock
  at,          \* at[p]: where p is
  watch,       \* watch[p]: what p's watch loop remembers of the pause
  crashes,     \* processes that died so far
  hiccups      \* failed reads so far

escalation == <<kind, recorded, raised>>
store == <<escalation, spent, resolution, journal, epoch>>
faults == <<crashes, hiccups>>
review == <<ruling, concluded>>
vars == <<pause, store, review, holder, at, watch, faults>>

Decision == {"resume", "cancel"}
Stepping == {"check", "acquire", "assert", "link", "assertlog", "log",
             "replay", "gate", "fence"}
Place == Stepping \cup {"out", "driving", "paused", "watching"}

\* esc is the pause whose resolution the attempt is bound to, 0 once it attaches
\* without a record; mine is the epoch it acquired.
Attempt == [pc : Place, op : Decision, esc : 0..MaxPauses, mine : 0..MaxEpoch]
Out == [pc |-> "out", op |-> "resume", esc |-> 0, mine |-> 0]

\* baseline: the newest ruling when the watch began; bare: the attempt under way is
\* a bare retry; exhausted: no bare retry is left to this watch.
Watch == [baseline : 0..MaxRulings, bare : BOOLEAN, exhausted : BOOLEAN]
FreshWatch == [baseline |-> 0, bare |-> FALSE, exhausted |-> FALSE]

-----------------------------------------------------------------------------
\* A watching driver has passed its gate and runs its first round.
Init ==
  /\ pause = 0
  /\ kind = [n \in Pause |-> "ruling"]
  /\ recorded = [n \in Pause |-> FALSE]
  /\ raised = [n \in Pause |-> 0]
  /\ spent = [n \in Pause |-> 0]
  /\ resolution = [n \in Pause |-> "none"]
  /\ journal = [n \in Pause |-> {}]
  /\ ruling = 0
  /\ epoch = 0
  /\ concluded = FALSE
  /\ \E w \in Watcher :
       /\ holder = w
       /\ at = [p \in Proc |-> IF p = w THEN [Out EXCEPT !.pc = "driving"] ELSE Out]
  /\ watch = [p \in Watcher |-> FreshWatch]
  /\ crashes = 0
  /\ hiccups = 0

Go(p, place) == at' = [at EXCEPT ![p].pc = place]
Leave(p) == at' = [at EXCEPT ![p] = Out]

\* An attempt to resume or cancel the pause that pause-state.json holds begins.
Begin(p, op) ==
  at' = [at EXCEPT ![p] = [Out EXCEPT !.pc = "check", !.op = op, !.esc = pause]]

\* A watching driver keeps the lock through its pause, any other leaves it.
Paused(p) ==
  \/ p \in Watcher /\ Go(p, "paused") /\ UNCHANGED holder
  \/ p \in Operator /\ Leave(p) /\ holder' = Nobody

\* The driver pauses: writeEscalationRecord claims an epoch and may fail (the
\* caller goes on), and the pause state names the new pause and the retries it has
\* behind it.
PauseRun(p) ==
  /\ at[p].pc = "driving"
  /\ pause < MaxPauses
  /\ epoch < MaxEpoch
  /\ pause' = pause + 1
  /\ epoch' = epoch + 1
  /\ \/ kind' = [kind EXCEPT ![pause + 1] = "ruling"] /\ UNCHANGED spent
     \/ /\ kind' = [kind EXCEPT ![pause + 1] = "bare"]
        /\ \E n \in 0..MaxRetries : spent' = [spent EXCEPT ![pause + 1] = n]
  /\ \E b \in BOOLEAN : recorded' = [recorded EXCEPT ![pause + 1] = b]
  /\ raised' = [raised EXCEPT ![pause + 1] = ruling]
  /\ concluded' = FALSE
  /\ Paused(p)
  /\ UNCHANGED <<resolution, journal, ruling, watch, faults>>

\* The driver pauses where it paused before: the same round, head, reason and
\* detail make the same escalation id, so the record of the earlier pause is
\* written over, and a resolution it has stays.
PauseAgain(p) ==
  /\ at[p].pc = "driving"
  /\ pause > 0
  /\ epoch < MaxEpoch
  /\ epoch' = epoch + 1
  /\ \/ kind[pause] = "ruling" /\ UNCHANGED spent
     \/ /\ kind[pause] = "bare"
        /\ \E n \in 0..MaxRetries : spent' = [spent EXCEPT ![pause] = n]
  /\ \/ UNCHANGED <<recorded, raised>>
     \/ /\ recorded' = [recorded EXCEPT ![pause] = TRUE]
        /\ raised' = [raised EXCEPT ![pause] = ruling]
  /\ concluded' = FALSE
  /\ Paused(p)
  /\ UNCHANGED <<pause, kind, resolution, journal, ruling, watch, faults>>

\* The run is over: its review concluded, merged, closed, or a pause its driver
\* does not watch.
EndRun(p) ==
  /\ at[p].pc \in {"driving", "watching"}
  /\ Leave(p)
  /\ holder' = Nobody
  /\ concluded' \in {concluded, concluded \/ at[p].pc = "driving"}
  /\ UNCHANGED <<pause, store, ruling, watch, faults>>

\* The Principal posts a ruling.
PostRuling ==
  /\ ruling < MaxRulings
  /\ ruling' = ruling + 1
  /\ UNCHANGED <<pause, store, concluded, holder, at, watch, faults>>

-----------------------------------------------------------------------------
(***************************************************************************)
(* The watch loop.                                                         *)
(***************************************************************************)
Hiccup == hiccups < MaxHiccups /\ hiccups' = hiccups + 1

\* watchPauseThenResume begins once devReviewLoop has returned: the newest ruling
\* is the baseline, 0 when it cannot be read.
StartWatch(p) ==
  /\ at[p].pc = "paused"
  /\ Go(p, "watching")
  /\ \/ /\ watch' = [watch EXCEPT ![p] = [FreshWatch EXCEPT !.baseline = ruling]]
        /\ UNCHANGED hiccups
     \/ watch' = [watch EXCEPT ![p] = FreshWatch] /\ Hiccup
  /\ UNCHANGED <<pause, store, review, holder, crashes>>

\* Faulty variant: the cancel check is made for bare pauses only.
WatchCancelledBareOnly(p) ==
  /\ at[p].pc = "watching"
  /\ kind[pause] = "bare"
  /\ resolution[pause] = "cancel"
  /\ Leave(p)
  /\ holder' = Nobody
  /\ UNCHANGED <<pause, store, review, watch, faults>>

\* The watched pause was cancelled by someone else: the driver ends.
WatchCancelled(p) ==
  /\ at[p].pc = "watching"
  /\ resolution[pause] = "cancel"
  /\ Leave(p)
  /\ holder' = Nobody
  /\ UNCHANGED <<pause, store, review, watch, faults>>

\* An infrastructure or stale_driver pause resumes without a ruling while its
\* retries last.
BareAutomatic(n) == kind[n] = "bare" /\ spent[n] < MaxRetries

\* Faulty variant: off by one against the baseline.
RulingReadyLate(p) == ruling > watch[p].baseline + 1
RulingReady(p) == ruling > watch[p].baseline

\* devReviewLoop --resume, before anything is consumed: a bare resume needs
\* nothing, any other needs some ruling and the pause's escalation record.
Admitted(n) == BareAutomatic(n) \/ (ruling > 0 /\ recorded[n])

\* A failed bare retry is counted in the watch and written back to the pause
\* record (a connection failure costs nothing); at the bound the watch stops them.
CountRetry(p, n, w, cost) ==
  LET c == IF w.bare THEN cost ELSE 0 IN
  /\ spent' = [spent EXCEPT ![n] = @ + c]
  /\ watch' = [watch EXCEPT ![p] =
       [w EXCEPT !.exhausted = @ \/ (w.bare /\ spent[n] + c >= MaxRetries)]]

\* One poll that says continue: the task is resumed as --resume resumes it, and an
\* attempt that is not admitted fails at once.  A cancel is only overlooked when
\* the resolution cannot be read.
WatchResume(p) ==
  LET w == [watch[p] EXCEPT !.bare = ~RulingReady(p)] IN
  /\ at[p].pc = "watching"
  /\ \/ resolution[pause] # "cancel" /\ UNCHANGED hiccups
     \/ resolution[pause] = "cancel" /\ Hiccup
  /\ (kind[pause] = "bare" /\ ~watch[p].exhausted) \/ RulingReady(p)
  /\ \/ /\ Admitted(pause)
        /\ Begin(p, "resume")
        /\ watch' = [watch EXCEPT ![p] = w]
        /\ UNCHANGED spent
     \/ ~Admitted(pause) /\ CountRetry(p, pause, w, 1) /\ UNCHANGED at
  /\ UNCHANGED <<pause, escalation, resolution, journal, epoch, review, holder, crashes>>

-----------------------------------------------------------------------------
(***************************************************************************)
(* An operator's one-shot commands.                                        *)
(***************************************************************************)
\* dev-review-loop --resume.
OperatorResume(p) ==
  /\ at[p].pc = "out"
  /\ pause > 0
  /\ Admitted(pause)
  /\ Begin(p, "resume")
  /\ UNCHANGED <<pause, store, review, holder, watch, faults>>

\* task_cancel: a ruling newer than the pause's record authenticates it.
OperatorCancel(p) ==
  /\ at[p].pc = "out"
  /\ pause > 0
  /\ recorded[pause]
  /\ ruling > raised[pause]
  /\ Begin(p, "cancel")
  /\ UNCHANGED <<pause, store, review, holder, watch, faults>>

-----------------------------------------------------------------------------
(***************************************************************************)
(* resolveEscalation, and what its callers do with its outcome.            *)
(***************************************************************************)
\* The attempt throws: a watcher reports it and watches on, an operator's process
\* exits.
Fail(p, cost) ==
  \/ p \in Watcher /\ Go(p, "watching") /\ CountRetry(p, pause, watch[p], cost)
  \/ p \in Operator /\ Leave(p) /\ UNCHANGED <<spent, watch>>

\* The checks before any epoch is claimed.  Without an escalation record only a
\* bare resume goes on, attaching to the task's current state.
Check(p) ==
  LET n == at[p].esc IN
  /\ at[p].pc = "check"
  /\ CASE ~recorded[n] -> at' = [at EXCEPT ![p] = [@ EXCEPT !.pc = "gate", !.esc = 0]]
       [] recorded[n] /\ resolution[n] # "none" -> Go(p, "replay")
       [] recorded[n] /\ resolution[n] = "none" -> Go(p, "acquire")
  /\ UNCHANGED <<pause, store, review, holder, watch, faults>>

\* acquireOwnership.  A caller that loses to one that listed the directory with
\* it throws, as it does when it is overtaken before its first assert below.
AcquireEpoch(p) ==
  /\ at[p].pc = "acquire"
  /\ epoch < MaxEpoch
  /\ epoch' = epoch + 1
  /\ at' = [at EXCEPT ![p] = [@ EXCEPT !.pc = "assert", !.mine = epoch + 1]]
  /\ UNCHANGED <<pause, escalation, spent, resolution, journal, review, holder,
                 watch, faults>>

\* assertCurrentEpoch before the resolution and again before the transition: an
\* epoch claimed by anyone else in between makes the attempt throw.
AssertEpoch(p) ==
  /\ at[p].pc \in {"assert", "assertlog"}
  /\ \/ /\ at[p].mine = epoch
        /\ Go(p, IF at[p].pc = "assert" THEN "link" ELSE "log")
        /\ UNCHANGED <<spent, watch>>
     \/ at[p].mine # epoch /\ Fail(p, 1)
  /\ UNCHANGED <<pause, escalation, resolution, journal, epoch, review, holder, faults>>

\* Faulty variant: the resolution is written over an earlier one.
ConsumeByOverwrite(p) ==
  /\ at[p].pc = "link"
  /\ resolution' = [resolution EXCEPT ![at[p].esc] = at[p].op]
  /\ Go(p, "assertlog")
  /\ UNCHANGED <<pause, escalation, spent, journal, epoch, review, holder,
                 watch, faults>>

\* consumeResolutionOnce: an exclusive create decides who resolves the pause.
ConsumeResolution(p) ==
  LET n == at[p].esc IN
  /\ at[p].pc = "link"
  /\ \/ /\ resolution[n] = "none"
        /\ resolution' = [resolution EXCEPT ![n] = at[p].op]
        /\ Go(p, "assertlog")
     \/ /\ resolution[n] # "none"
        /\ Go(p, "replay")
        /\ UNCHANGED resolution
  /\ UNCHANGED <<pause, escalation, spent, journal, epoch, review, holder,
                 watch, faults>>

\* appendTransition: paused to resumed or cancelled.
AppendTransition(p) ==
  /\ at[p].pc = "log"
  /\ journal' = [journal EXCEPT ![at[p].esc] = @ \cup {at[p].op}]
  /\ Go(p, IF at[p].op = "resume" THEN "gate" ELSE "fence")
  /\ UNCHANGED <<pause, escalation, spent, resolution, epoch, review, holder,
                 watch, faults>>

\* Faulty variant: the run's own retry is only recognised once nobody drives.
OwnBareRetryUnheld(p) == BareAutomatic(at[p].esc) /\ p \in Watcher /\ holder = Nobody

\* The watching driver that consumed a bare pause's resolution itself and failed
\* afterwards follows its own resolution.
OwnBareRetry(p) == BareAutomatic(at[p].esc) /\ p \in Watcher /\ holder = p

\* Faulty variant: a consumed cancel lets the resume attach.
ReplayResumeAttaches(p) ==
  /\ at[p].pc = "replay"
  /\ at[p].op = "resume"
  /\ IF holder # Nobody /\ ~OwnBareRetry(p)
       THEN Fail(p, 1)
       ELSE Go(p, "gate") /\ UNCHANGED <<spent, watch>>
  /\ UNCHANGED <<pause, escalation, resolution, journal, epoch, review, holder, faults>>

\* --resume of a consumed resolution: refused while a driver lives, when the
\* decision was to cancel, or when the review is concluded; otherwise the run
\* attaches.  The refusal is rethrown as a plain error, so the watch does not tell
\* it from any other failure.
ReplayResume(p) ==
  LET refused == \/ holder # Nobody /\ ~OwnBareRetry(p)
                 \/ resolution[at[p].esc] # "resume"
                 \/ concluded IN
  /\ at[p].pc = "replay"
  /\ at[p].op = "resume"
  /\ \/ ~refused /\ Go(p, "gate") /\ UNCHANGED <<spent, watch>>
     \/ refused /\ Fail(p, 1)
  /\ UNCHANGED <<pause, escalation, resolution, journal, epoch, review, holder,
                 faults>>

\* task_cancel of a consumed resolution answers, a cancel confirmed again or a
\* resume refused, and changes nothing.
ReplayCancel(p) ==
  /\ at[p].pc = "replay"
  /\ at[p].op = "cancel"
  /\ Leave(p)
  /\ UNCHANGED <<pause, store, review, holder, watch, faults>>

\* Faulty variant: the gate takes the lock from a live driver.
EnterGateForced(p) ==
  /\ at[p].pc = "gate"
  /\ holder' = p
  /\ Go(p, "driving")
  /\ UNCHANGED <<pause, escalation, spent, resolution, journal, epoch, review,
                 watch, faults>>

\* What is left of devReviewLoop's entry after the resolution is consumed: a
\* read of the ruling's text, which may throw, and the driver-lock gate.
EnterGate(p) ==
  /\ at[p].pc = "gate"
  /\ \/ /\ holder \in {Nobody, p}
        /\ holder' = p
        /\ Go(p, "driving")
        /\ UNCHANGED <<spent, watch, hiccups>>
     \/ holder \notin {Nobody, p} /\ Fail(p, 1) /\ UNCHANGED <<holder, hiccups>>
     \/ Hiccup /\ (\E cost \in 0..1 : Fail(p, cost)) /\ UNCHANGED holder
  /\ UNCHANGED <<pause, escalation, resolution, journal, epoch, review, crashes>>

\* cancelDevReviewLoop ends the running roles and fences the started effects, as
\* EffectExecutor says; overtaken half way, the fence claims a new epoch.
FenceEffects(p) ==
  /\ at[p].pc = "fence"
  /\ \/ UNCHANGED epoch
     \/ at[p].mine # epoch /\ epoch < MaxEpoch /\ epoch' = epoch + 1
  /\ Leave(p)
  /\ UNCHANGED <<pause, escalation, spent, resolution, journal, review, holder,
                 watch, faults>>

AttemptStep(p) ==
  \/ Check(p)
  \/ AcquireEpoch(p)
  \/ AssertEpoch(p)
  \/ ConsumeResolution(p)
  \/ AppendTransition(p)
  \/ ReplayResume(p)
  \/ ReplayCancel(p)
  \/ EnterGate(p)
  \/ FenceEffects(p)

\* The process dies; a lock it held names a dead pid and holds nobody back.
Crash(p) ==
  /\ at[p].pc # "out"
  /\ crashes < MaxCrashes
  /\ crashes' = crashes + 1
  /\ Leave(p)
  /\ holder' = IF holder = p THEN Nobody ELSE holder
  /\ UNCHANGED <<pause, store, review, watch, hiccups>>

Next ==
  \/ \E p \in Proc : PauseRun(p) \/ PauseAgain(p) \/ EndRun(p) \/ AttemptStep(p) \/ Crash(p)
  \/ \E p \in Watcher : StartWatch(p) \/ WatchCancelled(p) \/ WatchResume(p)
  \/ \E p \in Operator : OperatorResume(p) \/ OperatorCancel(p)
  \/ PostRuling

\* A live process goes on with its attempt, and a watch keeps polling.
Fairness ==
  /\ \A p \in Proc : WF_vars(AttemptStep(p))
  /\ \A p \in Watcher :
       WF_vars(StartWatch(p)) /\ WF_vars(WatchCancelled(p)) /\ WF_vars(WatchResume(p))

Spec == Init /\ [][Next]_vars /\ Fairness
-----------------------------------------------------------------------------
(***************************************************************************)
(* Properties                                                              *)
(***************************************************************************)
\* Every record, and every process's memory of it, has its type.
ResolutionTypeOK ==
  /\ pause \in 0..MaxPauses
  /\ kind \in [Pause -> {"bare", "ruling"}]
  /\ recorded \in [Pause -> BOOLEAN]
  /\ raised \in [Pause -> 0..MaxRulings]
  /\ spent \in [Pause -> Nat]
  /\ resolution \in [Pause -> Decision \cup {"none"}]
  /\ journal \in [Pause -> SUBSET Decision]
  /\ ruling \in 0..MaxRulings
  /\ epoch \in 0..MaxEpoch
  /\ concluded \in BOOLEAN
  /\ holder \in Proc \cup {Nobody}
  /\ at \in [Proc -> Attempt]
  /\ watch \in [Watcher -> Watch]
  /\ crashes \in 0..MaxCrashes
  /\ hiccups \in 0..MaxHiccups

\* The journal never contradicts the resolution: racing resumes and cancels of
\* one pause leave at most one transition out of it, the consumed decision's.
JournalMatchesResolution == \A n \in Pause : journal[n] \subseteq {resolution[n]}

\* A pause that was cancelled is never the one a run resumes from, whoever was
\* half-way through resuming it: the run's resolution says 'resume', a pause that
\* is met again included, or the pause had no record when the run attached.
CancelledNeverResumed ==
  \A p \in Proc : at[p].pc \in {"gate", "driving"} /\ at[p].esc > 0 =>
    resolution[at[p].esc] = "resume"

\* A process that drives or watches the task is the one that holds its lock.
WorkerHoldsLock ==
  \A p \in Proc : at[p].pc \in {"driving", "paused", "watching"} => holder = p

\* The inductive invariant behind the three: an attempt past the exclusive create
\* carries the decision it wrote there, a run that was let through follows a
\* resume, and a watching driver holds the lock through all its attempts.
ResolutionInv ==
  /\ JournalMatchesResolution
  /\ CancelledNeverResumed
  /\ WorkerHoldsLock
  /\ \A p \in Proc :
       /\ at[p].pc \in {"check", "acquire", "assert", "link", "assertlog", "log", "replay"}
            => at[p].esc \in Pause
       /\ at[p].pc \in {"assertlog", "log"} => resolution[at[p].esc] = at[p].op
       /\ p \in Watcher /\ at[p].pc # "out" => holder = p
       /\ p \in Watcher /\ at[p].pc \notin {"out", "driving"} => pause \in Pause
       /\ p \in Operator => at[p].pc \notin {"paused", "watching"}

\* A cancel stops the watch: a driver watching a cancelled pause ends.
CancelEndsWatch ==
  \A p \in Watcher :
    at[p].pc = "watching" /\ resolution[pause] = "cancel" ~> holder # p

Served(p) == at[p].pc \in {"driving", "out"} \/ epoch = MaxEpoch

\* A ruling newer than the watch's baseline is acted on: the watching driver
\* drives again, unless it dies, the pause was cancelled, no record binds a
\* ruling to it, or a forge read fails once its resolution is consumed.
RulingIsServed ==
  \A p \in Watcher :
    /\ at[p].pc = "watching" /\ ruling > watch[p].baseline
    /\ recorded[pause] /\ resolution[pause] = "none"
    /\ hiccups = MaxHiccups
    ~> Served(p)

\* A bare pause with more retries left than reads can still fail is resumed by
\* its watch, a retry that failed after consuming the resolution included.
BareRetryRecovers ==
  \A p \in Watcher :
    at[p].pc = "watching" /\ kind[pause] = "bare"
      /\ spent[pause] + (MaxHiccups - hiccups) < MaxRetries ~> Served(p)
=============================================================================
