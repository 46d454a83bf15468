------------------------------ MODULE TaskStart ------------------------------
(***************************************************************************)
(* The Operator's task_start and task_resume handlers                      *)
(* (run-control/start.ts, run-control/resume.ts), the claim files that     *)
(* make them idempotent, the state gate they read (task-status.ts) and the *)
(* detached processes they launch (run-control/detached-launch.ts).        *)
(*                                                                         *)
(* A handler runs without interruption inside its server up to the await   *)
(* of its launch, so two calls of one server only interleave there; calls  *)
(* of two servers interleave at every file operation.  The launched        *)
(* process prepares, consumes the pause's resolution (see Resolution) and  *)
(* takes the driver lock (see DriverLock), here in one step.               *)
(***************************************************************************)
EXTENDS Naturals, FiniteSets

CONSTANTS
  Call,        \* call slots: each serves one tool call after another
  Server,      \* task-tools server processes
  ServerOf,    \* ServerOf[c]: the server that serves c
  Request,     \* request identities of task_start calls for the task
  Child,       \* slots for live detached processes
  MaxPauses,   \* bound: pauses of the task
  MaxCrashes,  \* bound: servers, and drivers writing a pause, that die
  MaxHiccups,  \* bound: forge reads and spawns that fail
  NoClaim,     \* no claim file under the key
  NoChild,     \* no pid is recorded
  GoneChild,   \* the recorded pid is a process that has ended
  NoLock,      \* driver.pid.json does not exist
  DeadLock,    \* it names a dead pid
  NoKey        \* the process was started from a terminal

Pause == 1..MaxPauses
\* start-request-<requestId>.json and resume-claim-<escalationId>.json.
Key == Request \cup Pause

\* A torn file is created but not yet written.
Age == {"torn", "fresh", "stale", "past"}
Claim ==
  [age : Age, child : Child \cup {NoChild, GoneChild}, confirmed : BOOLEAN]

ASSUME TaskStartAssumption ==
  /\ ServerOf \in [Call -> Server]
  /\ {MaxPauses, MaxCrashes, MaxHiccups} \subseteq Nat
  /\ Request \cap Nat = {}
  /\ NoKey \notin Key /\ NoClaim \notin Claim
  /\ {NoChild, GoneChild, NoLock, DeadLock} \cap Child = {}
  /\ NoChild # GoneChild /\ NoLock # DeadLock

VARIABLES
  claim,    \* claim[k]: the claim file under key k
  call,     \* call[c]: the tool call in slot c
  child,    \* child[p]: a detached process and the key it was launched under
  lock,     \* the driver lock
  traced,   \* the loop log holds a driver_exited trace
  newer,    \* request claims accepted after the lock that is there was written
  hold,     \* the pause or publication that describes the task
  crashes,
  hiccups

vars == <<claim, call, child, lock, traced, newer, hold, crashes, hiccups>>
task == <<lock, traced, hold>>
bounds == <<crashes, hiccups>>

Place == {"idle", "prune", "unlink", "claim", "fill", "back", "release", "again",
          "target", "state", "dispose", "check", "consume", "launch", "wait",
          "join", "confirm", "drop"}

\* via is the tool that was called, tool the handler it is in (task_start hands a
\* ruled pause to task_resume), request and pause the claims each of them is about,
\* and mine the claims on disk that this call wrote.
Tool == {"start", "resume"}
CallState ==
  [pc : Place, via : Tool, tool : Tool,
   request : Request \cup {NoKey}, pause : Pause \cup {NoKey},
   child : Child \cup {NoChild, GoneChild}, confirmed : BOOLEAN,
   mine : SUBSET Key, doomed : SUBSET Request]

Idle == [pc |-> "idle", via |-> "start", tool |-> "start",
         request |-> NoKey, pause |-> NoKey,
         child |-> NoChild, confirmed |-> FALSE, mine |-> {}, doomed |-> {}]

\* What the pause record, its resolution and the rulings say of the task: "self" is
\* a pause the loop resumes by itself, "resumed" and "cancelled" a consumed
\* resolution, "ruled" a newer ruling not consumed yet.
Disposition == {"none", "published", "awaiting", "ruled", "self", "resumed",
                "cancelled", "unreadable"}

-----------------------------------------------------------------------------
Init ==
  /\ claim = [k \in Key |-> NoClaim]
  /\ call = [c \in Call |-> Idle]
  /\ child = [p \in Child |-> [at |-> "gone", key |-> NoKey]]
  /\ lock = NoLock
  /\ traced = FALSE
  /\ newer = {}
  /\ hold = [n |-> 0, is |-> "none", pr |-> FALSE]
  /\ crashes = 0
  /\ hiccups = 0

Held(k) == claim[k] # NoClaim
Live(p) == child[p].at # "gone"
RunAlive == lock \in Child

\* The call that wrote the claim has not answered yet.
InFlight(k) == \E c \in Call : k \in call[c].mine

\* Faulty variant: a recorded pid is a live run.
LaunchAliveByRecord(k) == claim[k].child # NoChild

\* claimLaunchIsAlive: the recorded process, its identity included, still runs.
LaunchAlive(k) == claim[k].child \in Child

KeyOf(c) == IF call[c].tool = "start" THEN call[c].request ELSE call[c].pause

\* The server runs one handler at a time between two awaits.
Synchronous == Place \ {"idle", "wait"}
Turn(c) ==
  \A d \in Call \ {c} : ServerOf[d] = ServerOf[c] => call[d].pc \notin Synchronous

At(c, place) == Turn(c) /\ call[c].pc = place
Goto(c, place) == call' = [call EXCEPT ![c].pc = place]
Hiccup == hiccups < MaxHiccups /\ hiccups' = hiccups + 1

\* A resume answers its caller: the Operator, or the start that handed it the
\* pause and now marks its own claim confirmed or drops it.
ResumeAnswers(c, place) ==
  call' = [call EXCEPT ![c] =
    IF @.via = "start" THEN [@ EXCEPT !.tool = "start", !.pc = place] ELSE Idle]

\* The call answers from a claim it does not hold: started: false, already_resumed.
Replay(c) ==
  IF call[c].tool = "start"
    THEN call' = [call EXCEPT ![c] = Idle]
    ELSE ResumeAnswers(c, "confirm")

-----------------------------------------------------------------------------
(***************************************************************************)
(* The claim store, shared by both tools.                                  *)
(***************************************************************************)
\* RequestStore.release removes the file under a key, whoever wrote it.
Unclaim(ks) ==
  /\ claim' = [k \in Key |-> IF k \in ks THEN NoClaim ELSE claim[k]]
  /\ newer' = newer \ ks

Bereft(ks) == [c \in Call |-> [call[c] EXCEPT !.mine = @ \ ks]]

\* A task_start under request identity r.
StartCall(c, r) ==
  /\ At(c, "idle")
  /\ call' = [call EXCEPT ![c].pc = "prune", ![c].request = r]
  /\ UNCHANGED <<claim, child, task, newer, bounds>>

\* pruneDeadStartClaims: list the claims past reporting with no live launch ...
PruneRead(c) ==
  LET dead == {r \in Request : Held(r) /\ claim[r].age = "past" /\ ~LaunchAlive(r)} IN
  /\ At(c, "prune")
  /\ call' = [call EXCEPT ![c].doomed = dead,
                          ![c].pc = IF dead = {} THEN "claim" ELSE "unlink"]
  /\ UNCHANGED <<claim, child, task, newer, bounds>>

\* ... and remove their files, whatever they hold by now.
PruneUnlink(c) ==
  /\ At(c, "unlink")
  /\ Unclaim(call[c].doomed)
  /\ call' = [Bereft(call[c].doomed) EXCEPT ![c].pc = "claim", ![c].doomed = {}]
  /\ UNCHANGED <<child, task, bounds>>

\* RequestStore.claim: O_EXCL creates the file, or its holder is read back.
ClaimCreate(c) ==
  LET k == KeyOf(c) IN
  /\ At(c, "claim") \/ At(c, "again")
  /\ \/ /\ ~Held(k)
        /\ claim' = [claim EXCEPT ![k] =
             [age |-> "torn", child |-> NoChild, confirmed |-> FALSE]]
        /\ call' = [call EXCEPT ![c].pc = "fill", ![c].mine = @ \cup {k}]
     \/ /\ Held(k)
        /\ IF call[c].pc = "claim" THEN Goto(c, "back") ELSE Replay(c)
        /\ UNCHANGED claim
  /\ UNCHANGED <<child, task, newer, bounds>>

\* The record is written into the file this call created.
ClaimFill(c) ==
  LET k == KeyOf(c) IN
  /\ At(c, "fill")
  /\ \/ /\ k \in call[c].mine
        /\ claim' = [claim EXCEPT ![k].age = "fresh"]
        /\ newer' = IF lock = NoLock THEN newer ELSE newer \cup (Request \cap {k})
     \/ k \notin call[c].mine /\ UNCHANGED <<claim, newer>>
  /\ Goto(c, IF call[c].tool = "start" THEN "target" ELSE "consume")
  /\ UNCHANGED <<child, task, bounds>>

\* Faulty variant: age alone supersedes a claim.
SupersededByAge(c) ==
  LET k == KeyOf(c) IN
  /\ Held(k)
  /\ claim[k].age \in {"stale", "past"}
  /\ call[c].tool = "start" => ~RunAlive

\* A claim that can be superseded: its launch has concluded and nothing of it
\* lives.  A file that does not parse reads as the caller's own, fresh record.
Superseded(c) ==
  LET k == KeyOf(c) IN
  /\ Held(k)
  /\ claim[k].age \in {"stale", "past"}
  /\ ~LaunchAlive(k)
  /\ call[c].tool = "start" => ~RunAlive

\* The claim is another call's: replayed, or superseded when it is dead.  A start
\* whose Issue cannot be resolved takes it for alive.
ReadBack(c) ==
  /\ At(c, "back")
  /\ \/ Superseded(c) /\ Goto(c, "release") /\ UNCHANGED hiccups
     \/ ~Superseded(c) /\ Replay(c) /\ UNCHANGED hiccups
     \/ Superseded(c) /\ call[c].tool = "start" /\ Hiccup /\ Replay(c)
  /\ UNCHANGED <<claim, child, task, newer, crashes>>

Supersede(c) ==
  /\ At(c, "release")
  /\ Unclaim({KeyOf(c)})
  /\ call' = [Bereft({KeyOf(c)}) EXCEPT ![c].pc = "again"]
  /\ UNCHANGED <<child, task, bounds>>

\* A refused or failed call releases the claim it wrote and answers an error.
Drop(c) ==
  /\ At(c, "drop")
  /\ Unclaim({KeyOf(c)})
  /\ call' = [Bereft({KeyOf(c)}) EXCEPT ![c] =
       IF @.tool = "resume" /\ @.via = "start" THEN [@ EXCEPT !.tool = "start"] ELSE Idle]
  /\ UNCHANGED <<child, task, bounds>>

-----------------------------------------------------------------------------
(***************************************************************************)
(* task_start: the target, the state gate and the launch.                  *)
(***************************************************************************)
\* resolveStartTarget: an Issue the forge does not show open drops the claim.
ResolveTarget(c) ==
  /\ At(c, "target")
  /\ \/ Goto(c, "state") /\ UNCHANGED hiccups
     \/ Hiccup /\ Goto(c, "drop")
  /\ UNCHANGED <<claim, child, task, newer, crashes>>

\* The newest claim of another request that readStartClaim may pick: a torn file
\* is skipped.
Younger(a) ==
  CASE a = "fresh" -> {} [] a = "stale" -> {"fresh"} [] OTHER -> {"fresh", "stale"}

NewestOther(c) ==
  LET others == {r \in Request \ {KeyOf(c)} : Held(r) /\ claim[r].age # "torn"} IN
  {r \in others : \A s \in others : claim[s].age \notin Younger(claim[r].age)}

\* readStartClaim: neither confirmed nor past reporting, and fresh or alive.
Starting(r) ==
  /\ ~claim[r].confirmed
  /\ claim[r].age # "past"
  /\ claim[r].age = "fresh" \/ LaunchAlive(r)

\* deriveLoopState reports a start coming up: the claim is newer than the lock, and
\* no live driver, pause or publication speaks first (a dead driver's exit trace
\* does not).
ReportsStarting(c) ==
  /\ \E r \in NewestOther(c) : Starting(r) /\ (lock = NoLock \/ r \in newer)
  /\ (lock = DeadLock /\ traced) \/ hold.is \in {"none", "unreadable"}

\* Faulty variant: a refusal keeps the claim.
ReadStateKeepsClaim(c) ==
  /\ At(c, "state")
  /\ call' = [call EXCEPT ![c] =
       IF RunAlive \/ ReportsStarting(c) THEN Idle ELSE [@ EXCEPT !.pc = "dispose"]]
  /\ UNCHANGED <<claim, child, task, newer, bounds>>

\* startRefusalForState, the part the derived state decides.
ReadState(c) ==
  /\ At(c, "state")
  /\ \/ Goto(c, IF RunAlive \/ ReportsStarting(c) THEN "drop" ELSE "dispose")
        /\ UNCHANGED hiccups
     \/ Hiccup /\ Goto(c, "drop")
  /\ UNCHANGED <<claim, child, task, newer, crashes>>

\* ... and the part the pause's disposition decides: a ruled pause is task_resume's,
\* and a ruling that cannot be read is none.
ReadDisposition(c) ==
  /\ At(c, "dispose")
  /\ \/ hold.is \in {"awaiting", "ruled", "cancelled", "unreadable"} /\ Goto(c, "drop")
     \/ /\ hold.is = "ruled"
        /\ call' = [call EXCEPT ![c].pc = "check", ![c].tool = "resume"]
     \/ hold.is \in {"none", "published", "self", "resumed"} /\ Goto(c, "launch")
  /\ UNCHANGED <<claim, child, task, newer, bounds>>

\* launchDetached: the spawn succeeds or throws.
Launch(c) ==
  /\ At(c, "launch")
  /\ \/ \E p \in Child :
          /\ ~Live(p)
          /\ child' = [child EXCEPT ![p] = [at |-> "prep", key |-> KeyOf(c)]]
          /\ call' = [call EXCEPT ![c].pc = "wait", ![c].child = p]
          /\ UNCHANGED hiccups
     \/ Hiccup /\ Goto(c, "drop") /\ UNCHANGED child
  /\ UNCHANGED <<claim, task, newer, crashes>>

\* Faulty variant: a wait that runs out drops the claim.
WaitEndsDropping(c) ==
  /\ At(c, "wait")
  /\ \/ RunAlive /\ call' = [call EXCEPT ![c].pc = "join", ![c].confirmed = TRUE]
     \/ Goto(c, "drop")
  /\ UNCHANGED <<claim, child, task, newer, bounds>>

\* waitForLiveDriver: the first of a lock that names some live pid, the end of the
\* wait, and the exit of the launched process.
WaitEnds(c) ==
  /\ At(c, "wait")
  /\ \/ RunAlive /\ call' = [call EXCEPT ![c].pc = "join", ![c].confirmed = TRUE]
     \/ call' = [call EXCEPT ![c].pc = "join"]
     \/ call[c].child = GoneChild /\ Goto(c, "drop")
  /\ UNCHANGED <<claim, child, task, newer, bounds>>

\* RequestStore.update writes this call's record over an existing file, with the
\* acceptance time it had: the age of a claim replaced meanwhile is "stale".
Rewrite(c, k, proc, conf) ==
  claim' = IF Held(k)
    THEN [claim EXCEPT ![k] =
            [age |-> IF k \in call[c].mine THEN @.age ELSE "stale",
             child |-> proc, confirmed |-> conf]]
    ELSE claim

\* The launched pid joins the claim, which stays.
Join(c) ==
  /\ At(c, "join")
  /\ Rewrite(c, KeyOf(c), call[c].child, call[c].tool = "start" /\ call[c].confirmed)
  /\ IF call[c].tool = "start"
       THEN call' = [call EXCEPT ![c] = Idle]
       ELSE ResumeAnswers(c, "confirm")
  /\ UNCHANGED <<child, task, newer, bounds>>

\* The start whose pause task_resume continued keeps its claim, marked confirmed.
ConfirmHandOff(c) ==
  /\ At(c, "confirm")
  /\ Rewrite(c, KeyOf(c), NoChild, TRUE)
  /\ call' = [call EXCEPT ![c] = Idle]
  /\ UNCHANGED <<child, task, newer, bounds>>

-----------------------------------------------------------------------------
(***************************************************************************)
(* task_resume, before and after its claim.                                *)
(***************************************************************************)
ResumeCall(c) ==
  /\ At(c, "idle")
  /\ call' = [call EXCEPT ![c] =
       [Idle EXCEPT !.pc = "check", !.via = "resume", !.tool = "resume"]]
  /\ UNCHANGED <<claim, child, task, newer, bounds>>

\* The checks before the claim.  A consumed resume answers already_resumed, or is
\* refused when the pause had no pull request; without one, a pause that asks for a
\* wider Surface is refused too.
ResumeCheck(c) ==
  LET claimable == hold.is = "ruled" /\ ~RunAlive
      replayed == hold.is = "resumed" /\ hold.pr IN
  /\ At(c, "check")
  /\ \/ claimable /\ call' = [call EXCEPT ![c].pc = "claim", ![c].pause = hold.n]
     \/ replayed /\ ResumeAnswers(c, "confirm")
     \/ ~claimable /\ ~replayed /\ ResumeAnswers(c, "drop")
     \/ claimable /\ ~hold.pr /\ ResumeAnswers(c, "drop")
  /\ UNCHANGED <<claim, child, task, newer, bounds>>

\* A pause without a pull request is resolved here, before the launch; any other
\* by the continuation.
ConsumeRuling(c) ==
  LET consumable == hold.is = "ruled" /\ hold.n = KeyOf(c) IN
  /\ At(c, "consume")
  /\ \/ hold.pr /\ Goto(c, "launch") /\ UNCHANGED hold
     \/ ~hold.pr /\ consumable /\ Goto(c, "launch") /\ hold' = [hold EXCEPT !.is = "resumed"]
     \/ ~hold.pr /\ ~consumable /\ Goto(c, "drop") /\ UNCHANGED hold
  /\ UNCHANGED <<claim, child, lock, traced, newer, bounds>>

CallStep(c) ==
  \/ PruneRead(c) \/ PruneUnlink(c)
  \/ ClaimCreate(c) \/ ClaimFill(c) \/ ReadBack(c) \/ Supersede(c) \/ Drop(c)
  \/ ResolveTarget(c) \/ ReadState(c) \/ ReadDisposition(c)
  \/ Launch(c) \/ WaitEnds(c) \/ Join(c) \/ ConfirmHandOff(c)
  \/ ResumeCheck(c) \/ ConsumeRuling(c)

-----------------------------------------------------------------------------
(***************************************************************************)
(* The launched processes, the Principal, time and crashes.                *)
(***************************************************************************)
\* vinaya task run in a terminal.
Foreground(p) ==
  /\ ~Live(p)
  /\ child' = [child EXCEPT ![p] = [at |-> "prep", key |-> NoKey]]
  /\ UNCHANGED <<claim, call, task, newer, bounds>>

\* p is gone: whoever recorded its pid finds it dead.
Gone(p) ==
  /\ child' = [child EXCEPT ![p] = [at |-> "gone", key |-> NoKey]]
  /\ claim' = [k \in Key |-> IF Held(k) /\ claim[k].child = p
                               THEN [claim[k] EXCEPT !.child = GoneChild] ELSE claim[k]]
  /\ call' = [c \in Call |-> IF call[c].child = p
                               THEN [call[c] EXCEPT !.child = GoneChild] ELSE call[c]]

\* The preparation refuses, the driver lock does, or the process dies.
PreparationEnds(p) ==
  /\ child[p].at = "prep"
  /\ Gone(p)
  /\ UNCHANGED <<task, newer, bounds>>

\* The run consumes the pause's resolution, before it has the driver lock.
ConsumeResolution(p) ==
  /\ Live(p)
  /\ hold.is \in {"ruled", "self"}
  /\ hold' = [hold EXCEPT !.is = "resumed"]
  /\ UNCHANGED <<claim, call, child, lock, traced, newer, bounds>>

EnterGate(p) ==
  /\ child[p].at = "prep"
  /\ hold.is \in {"none", "published", "resumed", "unreadable"}
  /\ ~RunAlive
  /\ lock' = p
  /\ newer' = {}
  /\ child' = [child EXCEPT ![p].at = "drive"]
  /\ UNCHANGED <<claim, call, traced, hold, bounds>>

\* The driver pauses, and watches on.
DriverPauses(p) ==
  /\ child[p].at = "drive"
  /\ hold.is \in {"none", "published", "resumed", "unreadable"}
  /\ hold.n < MaxPauses
  /\ \E is \in {"awaiting", "self"}, pr \in BOOLEAN :
       hold' = [n |-> hold.n + 1, is |-> is, pr |-> pr]
  /\ UNCHANGED <<claim, call, child, lock, traced, newer, bounds>>

\* Both verdicts of the round are verified: a pause before it is history.
DriverPublishes(p) ==
  /\ child[p].at = "drive"
  /\ hold.is \in {"none", "resumed", "unreadable"}
  /\ hold' = [hold EXCEPT !.is = "published"]
  /\ UNCHANGED <<claim, call, child, lock, traced, newer, bounds>>

\* The driver ends with its lock cleared or left behind, traced in the loop log by
\* a signal; one that dies while it writes a pause leaves a record that does not
\* parse.
DriverEnds(p) ==
  /\ child[p].at = "drive"
  /\ Gone(p)
  /\ \/ lock' = NoLock /\ newer' = {} /\ UNCHANGED <<traced, hold, crashes>>
     \/ /\ lock' = DeadLock
        /\ traced' \in {traced, TRUE}
        /\ UNCHANGED <<newer, hold, crashes>>
     \/ /\ crashes < MaxCrashes
        /\ crashes' = crashes + 1
        /\ lock' = DeadLock
        /\ hold' = [hold EXCEPT !.is = "unreadable"]
        /\ UNCHANGED <<newer, traced>>
  /\ UNCHANGED hiccups

PostRuling ==
  /\ hold.is = "awaiting"
  /\ hold' = [hold EXCEPT !.is = "ruled"]
  /\ UNCHANGED <<claim, call, child, lock, traced, newer, bounds>>

CancelRun ==
  /\ hold.is = "ruled"
  /\ hold' = [hold EXCEPT !.is = "cancelled"]
  /\ UNCHANGED <<claim, call, child, lock, traced, newer, bounds>>

\* Time passes.  START_STALE_CLAIM_GRACE_MS is longer than the wait of the call
\* that wrote the claim, and START_CLAIM_REPORTING_WINDOW_MS comes after it.
ClaimAges(k) ==
  /\ Held(k)
  /\ \/ /\ claim[k].age = "fresh"
        /\ ~InFlight(k)
        /\ claim' = [claim EXCEPT ![k].age = "stale"]
     \/ /\ claim[k].age = "stale"
        /\ k \in Request
        /\ claim' = [claim EXCEPT ![k].age = "past"]
  /\ UNCHANGED <<call, child, task, newer, crashes, hiccups>>

\* A server dies with the calls it serves; the processes it launched run on.
ServerDies(s) ==
  /\ crashes < MaxCrashes
  /\ crashes' = crashes + 1
  /\ \E c \in Call : ServerOf[c] = s /\ call[c].pc # "idle"
  /\ call' = [c \in Call |-> IF ServerOf[c] = s THEN Idle ELSE call[c]]
  /\ UNCHANGED <<claim, child, task, newer, hiccups>>

Next ==
  \/ \E c \in Call : (\E r \in Request : StartCall(c, r)) \/ ResumeCall(c) \/ CallStep(c)
  \/ \E p \in Child :
       \/ Foreground(p) \/ PreparationEnds(p) \/ ConsumeResolution(p) \/ EnterGate(p)
       \/ DriverPauses(p) \/ DriverPublishes(p) \/ DriverEnds(p)
  \/ \E k \in Key : ClaimAges(k)
  \/ \E s \in Server : ServerDies(s)
  \/ PostRuling
  \/ CancelRun

\* A handler goes on and time passes.
Fairness ==
  /\ \A c \in Call : WF_vars(CallStep(c))
  /\ \A k \in Key : WF_vars(ClaimAges(k))

Spec == Init /\ [][Next]_vars /\ Fairness
-----------------------------------------------------------------------------
(***************************************************************************)
(* Properties                                                              *)
(***************************************************************************)
\* Claims, calls, processes and the task's records have their types.
StartTypeOK ==
  /\ claim \in [Key -> Claim \cup {NoClaim}]
  /\ call \in [Call -> CallState]
  /\ child \in [Child -> [at : {"gone", "prep", "drive"}, key : Key \cup {NoKey}]]
  /\ lock \in Child \cup {NoLock, DeadLock}
  /\ traced \in BOOLEAN
  /\ newer \subseteq Request
  /\ hold \in [n : 0..MaxPauses, is : Disposition, pr : BOOLEAN]
  /\ crashes \in 0..MaxCrashes
  /\ hiccups \in 0..MaxHiccups

\* One request identity never has two live runs, and one pause never two live
\* continuations: repeats, supersedes of dead claims, hand-offs from task_start and
\* waits that end before the driver is up included.
OneLaunchPerClaim ==
  \A p, q \in Child :
    Live(p) /\ Live(q) /\ child[p].key = child[q].key /\ child[p].key # NoKey => p = q

\* While a launched process lives, the claim it was launched under stays and names
\* it, once its call has answered: nothing drops, prunes or overwrites it.
LiveLaunchIsClaimed ==
  \A p \in Child : Live(p) /\ child[p].key # NoKey /\ ~InFlight(child[p].key) =>
    Held(child[p].key) /\ claim[child[p].key].child = p

\* A call that answered leaves no claim behind for a run that never began: the
\* claim names a process that was launched, or the continuation was handed on.
NoEmptyClaim ==
  \A k \in Key : Held(k) /\ ~InFlight(k) =>
    claim[k].child # NoChild \/ claim[k].confirmed

-----------------------------------------------------------------------------
(***************************************************************************)
(* The inductive invariant behind them, for one server that does not die.  *)
(***************************************************************************)
\* Between two awaits one handler runs at a time.
OneTurn ==
  \A c, d \in Call : call[c].pc \in Synchronous /\ call[d].pc \in Synchronous => c = d

\* The claims a call holds at each place: a start's from its creation on, through
\* the resume it hands its pause to, and that resume's own.
Claimed(s) ==
  LET started == s.tool = "resume" \/ s.pc \in {"fill", "target", "state", "dispose",
                                                "launch", "wait", "join", "drop"}
      resumed == s.tool = "resume" /\ s.pc \in {"fill", "consume", "launch", "wait",
                                                "join", "drop"} IN
  {k \in {s.request} : s.via = "start" /\ started} \cup {k \in {s.pause} : resumed}

Coherent(s) ==
  /\ s.pc = "idle" => s = Idle
  /\ s.tool = "start" => s.via = "start" /\ s.pc \notin {"check", "consume"}
  /\ s.tool = "resume" => s.pc \notin {"prune", "unlink", "target", "state", "dispose", "confirm"}
  /\ s.via = "start" /\ s.pc # "idle" => s.request \in Request
  /\ s.tool = "resume" /\ s.pc # "check" => s.pause \in Pause
  /\ s.pc \in {"wait", "join"} => s.child # NoChild
  /\ IF s.pc = "confirm" THEN s.mine \in {{s.request}, {s.request, s.pause} \ {NoKey}}
                         ELSE s.mine = Claimed(s)

\* A claim in flight is its call's alone, is not yet stale, and names no process
\* before its launch has joined it.
FlightInv ==
  \A c \in Call : \A k \in call[c].mine :
    /\ \A d \in Call : k \in call[d].mine => c = d
    /\ Held(k) /\ claim[k].age \in {"torn", "fresh"}
    /\ claim[k].child = NoChild <=> ~(call[c].pc = "confirm" /\ k = call[c].pause)

\* What a call has found dead stays dead until it has removed it.
DeadClaim(k) == Held(k) /\ claim[k].age \in {"stale", "past"} /\ ~LaunchAlive(k)

DeadInv ==
  \A c \in Call :
    /\ call[c].pc = "unlink" => \A r \in call[c].doomed : DeadClaim(r)
    /\ call[c].pc = "release" => DeadClaim(KeyOf(c))

\* A launched process is known to the call that awaits it, or to its claim.
Awaits(c, p) ==
  call[c].pc \in {"wait", "join"} /\ KeyOf(c) = child[p].key /\ call[c].child = p

LaunchInv ==
  \A p \in Child : Live(p) /\ child[p].key # NoKey =>
    \/ \E c \in Call : Awaits(c, p)
    \/ Held(child[p].key) /\ claim[child[p].key].child = p

\* A ruling answers a pause.
HoldInv == hold.is \in {"awaiting", "ruled"} => hold.n \in Pause

StartInv ==
  /\ OneTurn
  /\ \A c \in Call : Coherent(call[c])
  /\ FlightInv
  /\ DeadInv
  /\ LaunchInv
  /\ NoEmptyClaim
  /\ HoldInv

-----------------------------------------------------------------------------
Retries(r) == []<><<\E c \in Call : StartCall(c, r)>>_vars

Startable ==
  /\ \A p \in Child : ~Live(p)
  /\ hold.is \in {"none", "published", "self", "resumed"}

Torn(k) == Held(k) /\ claim[k].age = "torn"

\* A task nobody runs is never left without a tool: whatever claims failed starts,
\* finished runs and dead servers left, a caller that repeats task_start launches
\* it, unless its claim file was cut off while it was written.
NeverWedged ==
  \A r \in Request : Retries(r) => (Startable ~> ~Startable \/ Torn(r))
=============================================================================
