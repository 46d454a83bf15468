--------------------------- MODULE EffectExecutor ---------------------------
(***************************************************************************)
(* External effects posted at most once: EffectExecutor                    *)
(* (harness/kernel/effects/effects.ts) over the control store's effect     *)
(* records, the bounded poster retry of the pause comments                 *)
(* (pause-resume.ts, postWithRetry), and the cancellation that fences      *)
(* unfinished effects (fenceStartedEffectsAsUncertain).                    *)
(*                                                                         *)
(* Epochs are claimed as EpochLedger says, which Ownership implements:     *)
(* acquireOwnership grants the next epoch to one caller, and callers that  *)
(* aimed at the same one lose.  A fenced write is two steps, because       *)
(* writeEffect asserts the epoch and only then renames the record.         *)
(***************************************************************************)
EXTENDS Naturals, FiniteSets

CONSTANTS
  Proc,           \* callers: as many calls may be under way at once
  Key,            \* effect keys, one record file each
  Identity,       \* operation, target, input version and payload digest
  MaxEpoch,       \* bound: epochs that may be claimed in one behaviour
  MaxPostTries,   \* calls of the forge within one poster (1: no retry)
  MaxReconcile,   \* ReconcileRetryPolicy.attempts (1: no retry)
  MaxFence,       \* MAX_FENCE_REACQUIRE_ATTEMPTS
  MaxLate,        \* bound: posts that land after their process died
  MaxCorrupt,     \* bound: effect records that become unreadable
  Absent,         \* no record file
  Corrupt         \* a record that does not parse

Status == {"started", "verified", "uncertain"}
Record == [id : Identity, st : Status]

ASSUME EffectAssumption ==
  /\ MaxEpoch \in Nat
  /\ MaxPostTries \in Nat \ {0}
  /\ MaxReconcile \in Nat \ {0}
  /\ MaxFence \in Nat
  /\ MaxLate \in Nat
  /\ MaxCorrupt \in Nat
  /\ Key # {} /\ Identity # {}
  /\ Absent # Corrupt /\ Absent \notin Record /\ Corrupt \notin Record

VARIABLES
  epoch,    \* highest epoch granted for the task
  record,   \* record[k]: the effect record under key k
  copies,   \* copies[i]: comments with identity i on the forge
  late,     \* posts of dead processes still on their way to the forge
  call,     \* call[p]: the execute or fence call p is in
  intents,  \* history: intents[i], fresh 'started' records written for i
  blind,    \* history: blind[i], copies of i no look at the forge could prevent
  faults    \* records corrupted so far

effectVars == <<epoch, record, copies, late, call, intents, blind, faults>>

Records == {Absent, Corrupt} \cup Record

\* A call that has returned ("done"), refused to repeat an uncertain effect
\* ("refused") or thrown ("failed") leaves its process free for the next one.
Over == {"idle", "done", "refused", "failed"}
Place == Over \cup {"acquire", "look", "reconcile", "assert", "rename",
                    "post", "recheck", "list", "mark"}

Call ==
  [pc : Place, op : {"post", "fence"}, key : Key, id : Identity,
   epoch : 0..MaxEpoch, tries : Nat, st : Status,
   todo : SUBSET Key, fenced : SUBSET Key]

NoCall ==
  [pc |-> "idle", op |-> "post", key |-> CHOOSE k \in Key : TRUE,
   id |-> CHOOSE i \in Identity : TRUE, epoch |-> 0, tries |-> 0,
   st |-> "started", todo |-> {}, fenced |-> {}]

Active == {p \in Proc : call[p].pc \notin Over}

IsFor(r, i) == r \in Record /\ r.id = i
IsStarted(r) == r \in Record /\ r.st = "started"
-----------------------------------------------------------------------------
EffectInit ==
  /\ epoch = 0
  /\ record = [k \in Key |-> Absent]
  /\ copies = [i \in Identity |-> 0]
  /\ late = {}
  /\ call = [p \in Proc |-> NoCall]
  /\ intents = [i \in Identity |-> 0]
  /\ blind = [i \in Identity |-> 0]
  /\ faults = 0

store == <<epoch, record>>
forge == <<copies, late>>
history == <<intents, blind>>

Step(p, c) == call' = [call EXCEPT ![p] = c]
End(p, how) == Step(p, [NoCall EXCEPT !.pc = how])

\* createEffectExecutor then execute(key, identity).
Execute(p) ==
  /\ call[p].pc \in Over
  /\ \E k \in Key, i \in Identity :
       Step(p, [NoCall EXCEPT !.pc = "acquire", !.key = k, !.id = i])
  /\ UNCHANGED <<store, forge, history, faults>>

\* A cancellation comes to fence the started effects.
Cancel(p) ==
  /\ call[p].pc \in Over
  /\ Step(p, [NoCall EXCEPT !.pc = "acquire", !.op = "fence"])
  /\ UNCHANGED <<store, forge, history, faults>>

\* acquireOwnership: p gets the next epoch; the callers in lost had listed the
\* same directory, collide with p's record and throw.
Acquire(p) ==
  /\ call[p].pc = "acquire"
  /\ epoch < MaxEpoch
  /\ epoch' = epoch + 1
  /\ \E lost \in SUBSET {q \in Proc \ {p} : call[q].pc = "acquire"} :
       call' = [q \in Proc |->
         IF q = p
           THEN [call[p] EXCEPT !.pc = IF call[p].op = "post" THEN "look" ELSE "list",
                                !.epoch = epoch + 1]
           ELSE IF q \in lost THEN [NoCall EXCEPT !.pc = "failed"]
           ELSE call[q]]
  /\ UNCHANGED <<record, forge, history, faults>>

\* Faulty variant: a started record is posted again without asking the forge.
LookWithoutReconcile(p) ==
  LET c == call[p]
      r == record[c.key] IN
  /\ c.pc = "look"
  /\ IF r # Corrupt /\ ~(IsFor(r, c.id) /\ r.st \in {"verified", "uncertain"})
       THEN Step(p, [c EXCEPT !.pc = "assert", !.st = "started"])
       ELSE End(p, "refused")
  /\ UNCHANGED <<store, forge, history, faults>>

\* Faulty variant: an uncertain record is reconciled like a started one.
LookReopens(p) ==
  LET c == call[p]
      r == record[c.key] IN
  /\ c.pc = "look"
  /\ CASE r # Corrupt /\ ~IsFor(r, c.id) -> Step(p, [c EXCEPT !.pc = "assert", !.st = "started"])
       [] r = Corrupt -> End(p, "refused")
       [] IsFor(r, c.id) /\ r.st = "verified" -> End(p, "done")
       [] IsFor(r, c.id) /\ r.st # "verified" -> Step(p, [c EXCEPT !.pc = "reconcile"])
  /\ UNCHANGED <<store, forge, history, faults>>

\* execute reads the record under its key and decides.
Look(p) ==
  LET c == call[p]
      r == record[c.key] IN
  /\ c.pc = "look"
  /\ \/ /\ r # Corrupt /\ ~IsFor(r, c.id)
        /\ Step(p, [c EXCEPT !.pc = "assert", !.st = "started"])
     \/ /\ r = Corrupt
        /\ End(p, "refused")
     \/ /\ IsFor(r, c.id)
        /\ CASE r.st = "verified" -> End(p, "done")
             [] r.st = "uncertain" -> End(p, "refused")
             [] r.st = "started" -> Step(p, [c EXCEPT !.pc = "reconcile"])
  /\ UNCHANGED <<store, forge, history, faults>>

\* reconcileExisting: the forge is read, found to carry the identity or not, or
\* cannot be read; only the last is repeated, then recorded as uncertain.
Reconcile(p) ==
  LET c == call[p] IN
  /\ c.pc = "reconcile"
  /\ \/ /\ copies[c.id] > 0
        /\ Step(p, [c EXCEPT !.pc = "assert", !.st = "verified", !.tries = 0])
     \/ /\ copies[c.id] = 0
        /\ Step(p, [c EXCEPT !.pc = "assert", !.st = "started", !.tries = 0])
     \/ /\ c.tries + 1 < MaxReconcile
        /\ Step(p, [c EXCEPT !.tries = c.tries + 1])
     \/ /\ c.tries + 1 = MaxReconcile
        /\ Step(p, [c EXCEPT !.pc = "assert", !.st = "uncertain", !.tries = 0])
  /\ UNCHANGED <<store, forge, history, faults>>

\* writeEffect, first half: assertCurrentEpoch.  A stale executor throws; a
\* stale fence acquires a new epoch, MAX_FENCE_REACQUIRE_ATTEMPTS times.
AssertEpoch(p) ==
  LET c == call[p] IN
  /\ c.pc = "assert"
  /\ \/ /\ c.epoch = epoch
        /\ Step(p, [c EXCEPT !.pc = "rename"])
     \/ /\ c.epoch # epoch
        /\ c.op = "fence"
        /\ c.tries < MaxFence
        /\ Step(p, [c EXCEPT !.pc = "acquire", !.tries = c.tries + 1])
     \/ /\ c.epoch # epoch
        /\ c.op = "post" \/ c.tries = MaxFence
        /\ End(p, "failed")
  /\ UNCHANGED <<store, forge, history, faults>>

\* writeEffect, second half: the rename that replaces the record.
Rename(p) ==
  LET c == call[p] IN
  /\ c.pc = "rename"
  /\ record' = [record EXCEPT ![c.key] = [id |-> c.id, st |-> c.st]]
  /\ CASE c.op = "fence" -> Step(p, [c EXCEPT !.pc = "mark", !.todo = @ \ {c.key},
                                              !.fenced = @ \cup {c.key}])
       [] c.op = "post" /\ c.st = "started" -> Step(p, [c EXCEPT !.pc = "post"])
       [] c.op = "post" /\ c.st = "verified" -> End(p, "done")
       [] c.op = "post" /\ c.st = "uncertain" -> End(p, "refused")
  /\ intents' = [intents EXCEPT ![c.id] =
       @ + (IF c.st = "started" /\ ~IsFor(record[c.key], c.id) THEN 1 ELSE 0)]
  /\ UNCHANGED <<epoch, forge, blind, faults>>

\* Faulty variant: a poster that throws is recorded as verified.
PostSwallowsThrow(p) ==
  LET c == call[p] IN
  /\ c.pc = "post"
  /\ copies' \in {copies, [copies EXCEPT ![c.id] = @ + 1]}
  /\ Step(p, [c EXCEPT !.pc = "assert", !.st = "verified"])
  /\ UNCHANGED <<store, late, history, faults>>

\* Faulty variant: the retries of a failing poster are not counted.
PostRetriesForever(p) ==
  LET c == call[p] IN
  /\ c.pc = "post"
  /\ \/ /\ copies' = [copies EXCEPT ![c.id] = @ + 1]
        /\ Step(p, [c EXCEPT !.pc = "assert", !.st = "verified"])
     \/ UNCHANGED copies /\ Step(p, [c EXCEPT !.pc = "recheck"])
  /\ UNCHANGED <<store, late, history, faults>>

\* The poster calls the forge.  The comment lands and the call returns, or it
\* throws with the comment landed or not; a throw with attempts left is retried
\* after one look at the forge.
Post(p) ==
  LET c == call[p]
      Thrown == IF c.tries + 1 < MaxPostTries
                  THEN Step(p, [c EXCEPT !.pc = "recheck", !.tries = c.tries + 1])
                  ELSE End(p, "failed") IN
  /\ c.pc = "post"
  /\ \/ /\ copies' = [copies EXCEPT ![c.id] = @ + 1]
        /\ Step(p, [c EXCEPT !.pc = "assert", !.st = "verified"]) \/ Thrown
     \/ UNCHANGED copies /\ Thrown
  /\ UNCHANGED <<store, late, history, faults>>

\* postWithRetry before a repeat: a comment found ends the poster, anything
\* else, an unreadable forge included, goes on to post again.
Recheck(p) ==
  LET c == call[p] IN
  /\ c.pc = "recheck"
  /\ \/ /\ copies[c.id] > 0
        /\ Step(p, [c EXCEPT !.pc = "assert", !.st = "verified"])
        /\ UNCHANGED blind
     \/ /\ copies[c.id] = 0
        /\ Step(p, [c EXCEPT !.pc = "post"])
        /\ UNCHANGED blind
     \/ /\ Step(p, [c EXCEPT !.pc = "post"])
        /\ blind' = [blind EXCEPT ![c.id] = @ + 1]
  /\ UNCHANGED <<store, forge, intents, faults>>

\* Faulty variant: only the first started record is listed.
ListFirstOnly(p) ==
  LET c == call[p] IN
  /\ c.pc = "list"
  /\ Step(p, [c EXCEPT !.pc = "mark", !.todo = {k \in {c.key} : IsStarted(record[k])}])
  /\ UNCHANGED <<store, forge, history, faults>>

\* fenceStartedEffectsAsUncertain lists the started records it has not fenced.
List(p) ==
  LET c == call[p] IN
  /\ c.pc = "list"
  /\ Step(p, [c EXCEPT !.pc = "mark",
                       !.todo = {k \in Key \ c.fenced : IsStarted(record[k])}])
  /\ UNCHANGED <<store, forge, history, faults>>

\* markEffectUncertain re-reads one listed record: one that is still started
\* keeps its identity and becomes uncertain, any other is left alone.
Mark(p) ==
  LET c == call[p] IN
  /\ c.pc = "mark"
  /\ \/ /\ c.todo = {}
        /\ End(p, "done")
     \/ \E k \in c.todo :
          \/ /\ IsStarted(record[k])
             /\ Step(p, [c EXCEPT !.pc = "assert", !.key = k,
                                  !.id = record[k].id, !.st = "uncertain"])
          \/ /\ ~IsStarted(record[k])
             /\ Step(p, [c EXCEPT !.todo = @ \ {k}])
  /\ UNCHANGED <<store, forge, history, faults>>

CallStep(p) ==
  \/ Acquire(p)
  \/ Look(p)
  \/ Reconcile(p)
  \/ AssertEpoch(p)
  \/ Rename(p)
  \/ Post(p)
  \/ Recheck(p)
  \/ List(p)
  \/ Mark(p)

\* The process dies; a post it had under way may still reach the forge.
Crash(p) ==
  /\ p \in Active
  /\ Step(p, NoCall)
  /\ \/ UNCHANGED late
     \/ /\ call[p].pc = "post"
        /\ Cardinality(late) < MaxLate
        /\ late' = late \cup {call[p].id}
  /\ UNCHANGED <<store, copies, history, faults>>

LandLate ==
  /\ \E i \in late :
       /\ copies' = [copies EXCEPT ![i] = @ + 1]
       /\ late' = late \ {i}
       /\ blind' = [blind EXCEPT ![i] = @ + 1]
  /\ UNCHANGED <<store, call, intents, faults>>

\* Another holder of the task's store (a resume, a background start) acquires the
\* next epoch; the callers in lost had listed the same directory.
Overtake ==
  /\ epoch < MaxEpoch
  /\ epoch' = epoch + 1
  /\ \E lost \in SUBSET {q \in Proc : call[q].pc = "acquire"} :
       call' = [q \in Proc |->
         IF q \in lost THEN [NoCall EXCEPT !.pc = "failed"] ELSE call[q]]
  /\ UNCHANGED <<record, forge, history, faults>>

\* A record that was valid no longer parses.
CorruptRecord ==
  /\ faults < MaxCorrupt
  /\ \E k \in Key :
       /\ record[k] \in Record
       /\ record' = [record EXCEPT ![k] = Corrupt]
  /\ faults' = faults + 1
  /\ UNCHANGED <<epoch, forge, call, history>>

EffectNext ==
  \/ \E p \in Proc : Execute(p) \/ Cancel(p) \/ CallStep(p) \/ Crash(p)
  \/ LandLate
  \/ Overtake
  \/ CorruptRecord

EffectFairness == \A p \in Proc : WF_effectVars(CallStep(p))

EffectSpec == EffectInit /\ [][EffectNext]_effectVars /\ EffectFairness
-----------------------------------------------------------------------------
(***************************************************************************)
(* Properties                                                              *)
(***************************************************************************)
\* The store, the forge and every call have their types.
EffectTypeOK ==
  /\ epoch \in 0..MaxEpoch
  /\ record \in [Key -> Records]
  /\ copies \in [Identity -> Nat]
  /\ late \subseteq Identity
  /\ call \in [Proc -> Call]
  /\ intents \in [Identity -> Nat]
  /\ blind \in [Identity -> Nat]
  /\ faults \in Nat

\* A record says 'verified' only for an identity the forge carries, whatever
\* crashed, was retried or was fenced on the way.
VerifiedMeansLanded ==
  \A k \in Key : record[k] \in Record /\ record[k].st = "verified" =>
                   copies[record[k].id] > 0

\* The inductive invariant behind it: whoever is about to write 'verified' has seen
\* or made a copy, and copies never disappear.
LandedInv ==
  /\ VerifiedMeansLanded
  /\ \A p \in Proc :
       call[p].pc \in {"assert", "rename"} /\ call[p].st = "verified" =>
         copies[call[p].id] > 0

\* A comment appears once per recorded intent: crashes between the post and its
\* acknowledgement, and re-executions after them, add no second copy.  Only a
\* poster's retry after an unreadable remote, and a dead process's post that lands
\* after it was looked for, can add one.
OneCopyPerIntent ==
  \A i \in Identity : copies[i] <= intents[i] + blind[i]

\* An effect whose outcome is uncertain is never posted again, confirmed or
\* reopened by the executor: its record changes only for another identity.
UncertainIsFinal ==
  [][\A k \in Key :
       record[k] \in Record /\ record[k].st = "uncertain" /\ record'[k] \in Record
         => record'[k] = record[k] \/ record'[k].id # record[k].id]_effectVars

\* When a cancellation's fence returns, no effect of the task is left started.
FenceLeavesNothingStarted ==
  [][\A p \in Proc :
       call[p].op = "fence" /\ p \in Active /\ call'[p].pc = "done"
         => \A k \in Key : ~IsStarted(record'[k])]_effectVars

-----------------------------------------------------------------------------
(***************************************************************************)
(* The inductive invariants behind these three while calls do not overlap. *)
(***************************************************************************)
\* Whoever is about to post has a copy to its credit: a fresh intent, or a look at
\* the forge that found none.
Credited(c) ==
  LET credit == copies[c.id] < intents[c.id] + blind[c.id] IN
  /\ c.pc \in {"reconcile", "post", "recheck"} => intents[c.id] > 0
  /\ c.pc = "post" => credit
  /\ c.pc \in {"assert", "rename"} =>
       IF c.st = "started" THEN IsFor(record[c.key], c.id) => credit
                           ELSE intents[c.id] > 0

\* An executor past its look at the record did not find it uncertain.
Undecided(c) ==
  c.op = "post" /\ c.pc \in {"reconcile", "assert", "rename", "post", "recheck"} =>
    ~(IsFor(record[c.key], c.id) /\ record[c.key].st = "uncertain")

\* What a fence has marked stays marked, and what is still started is on its list.
FenceKept(c) ==
  c.op = "fence" =>
    /\ c.pc \notin {"look", "reconcile", "post", "recheck"}
    /\ \A k \in c.fenced : ~IsStarted(record[k])
    /\ c.pc \in {"mark", "assert", "rename"} =>
         \A k \in Key : IsStarted(record[k]) => k \in c.todo
    /\ c.pc \in {"assert", "rename"} => c.st = "uncertain"

SoloInv ==
  /\ OneCopyPerIntent
  /\ \A k \in Key : record[k] \in Record => intents[record[k].id] > 0
  /\ \A p \in Proc : Credited(call[p]) /\ Undecided(call[p]) /\ FenceKept(call[p])

-----------------------------------------------------------------------------
\* Every execute or fence call ends (or its process dies): reconciling, posting
\* and re-acquiring are bounded and nobody waits for anybody; only the model's
\* last epoch stops a caller.
CallEnds ==
  \A p \in Proc :
    p \in Active ~> p \notin Active \/ (call[p].pc = "acquire" /\ epoch = MaxEpoch)
=============================================================================
