----------------------------- MODULE RoundPolicy -----------------------------
(***************************************************************************)
(* The pure policy of a review round                                       *)
(* (tools/dev-review-policy/assess-round.ts): from the loop's state and    *)
(* one observation, what the loop does next and the state it goes on with. *)
(* An observation is a gate reading, the two reviewers' verdicts, or a     *)
(* mechanical failure that produced no head.  Events, round records and    *)
(* wall-clock totals are left out: no decision reads them.                 *)
(***************************************************************************)
EXTENDS Naturals

CONSTANTS
  MaxRounds,    \* config.maxRounds
  Key,          \* role:file:fingerprint keys of blocking findings
  Id,           \* positional finding ids
  Signature,    \* normalised signatures of mechanical failures
  None          \* the absent value

ASSUME PolicyAssumption == MaxRounds \in Nat \ {0}

(***************************************************************************)
(* LoopState: pending is the round that waits for verdicts or for a second *)
(* answer on confidence; closed the ids last seen "resolved" (lastIds, of  *)
(* which only that state is ever compared).                                *)
(***************************************************************************)
LoopFailure == [signature : Signature, attemptedSince : BOOLEAN]

LoopState ==
  [pending : [round : Nat, asks : Nat] \cup {None}, extraTurnUsed : BOOLEAN,
   closed : SUBSET Id, lastBlockingFindings : SUBSET Key,
   lastFailure : LoopFailure \cup {None}]

InitialLoopState ==
  [pending |-> None, extraTurnUsed |-> FALSE, closed |-> {},
   lastBlockingFindings |-> {}, lastFailure |-> None]

Decide(what, why, st) == [type |-> what, reason |-> why, state |-> st]
Go(what, st) == Decide(what, None, st)
PauseFor(why, st) == Decide("pause", why, [st EXCEPT !.pending = None])

(***************************************************************************)
(* A reported failure is its normalised signature, None when the driver    *)
(* could not name it.  It repeats the last one only when a Developer       *)
(* attempt finished in between.                                            *)
(***************************************************************************)
Failure(sig) ==
  IF sig = None THEN None ELSE [signature |-> sig, attemptedSince |-> FALSE]

IsRepeat(st, sig) ==
  sig # None /\ st.lastFailure = [signature |-> sig, attemptedSince |-> TRUE]

RecordDeveloperAttempt(st) ==
  IF st.lastFailure = None THEN st
  ELSE [st EXCEPT !.lastFailure = [@ EXCEPT !.attemptedSince = TRUE]]

\* A red gate: back to the Developer, or a pause when the failure repeats.
AssessRed(st, sig) ==
  LET seen == [st EXCEPT !.pending = None, !.lastFailure = Failure(sig)] IN
  IF IsRepeat(st, sig) THEN PauseFor("repeat_failure", seen)
                       ELSE Go("dispatch_developer", seen)

\* A green gate: from round 2 on the Developer's confidence decides, asked for
\* once when absent and below 50 answered with one extra turn.
AssessGreen(st, round, confidence) ==
  LET clear == [st EXCEPT !.lastFailure = None]
      asked == IF st.pending # None /\ st.pending.round = round THEN st.pending.asks ELSE 0
      waiting(n) == [clear EXCEPT !.pending = [round |-> round, asks |-> n]]
  IN CASE round = 1 ->
            Go("dispatch_reviewers", waiting(0))
       [] round > 1 /\ confidence = "absent" ->
            IF asked >= 1 THEN PauseFor("confidence", clear)
                          ELSE Go("ask_confidence", waiting(asked + 1))
       [] round > 1 /\ confidence = "low" ->
            IF st.extraTurnUsed
            THEN PauseFor("confidence", clear)
            ELSE Go("dispatch_developer",
                    [clear EXCEPT !.pending = None, !.extraTurnUsed = TRUE])
       [] OTHER ->
            Go("dispatch_reviewers", waiting(asked))

\* Faulty variant: the cap is compared with > instead of >=.
AssessVerdictsPastCap(st, round, v) ==
  LET seen == [st EXCEPT !.pending = None, !.lastBlockingFindings = v.blocking]
  IN CASE v.verdict = "ESCALATE" -> PauseFor("escalation", seen)
       [] v.verdict = "clean"    -> Go("publish", seen)
       [] v.verdict = "changes"  ->
            IF v.blocking \cap st.lastBlockingFindings # {} THEN PauseFor("repeat_finding", seen)
            ELSE IF round > MaxRounds THEN PauseFor("max_rounds", seen)
            ELSE Go("dispatch_developer", seen)

(***************************************************************************)
(* The verdicts of both reviewers, merged: an escalation pauses, a clean   *)
(* pair publishes, and a request for changes goes back to the Developer    *)
(* unless a resolved finding is reproduced, a blocking finding is still    *)
(* open after the previous reviewed round, or the cap is reached.          *)
(***************************************************************************)
AssessVerdicts(st, round, v) ==
  LET seen == [st EXCEPT
                 !.pending = None,
                 !.closed = (st.closed \ (v.open \cup v.reproduced)) \cup v.resolved,
                 !.lastBlockingFindings = v.blocking]
  IN CASE v.verdict = "ESCALATE" ->
            PauseFor("escalation", seen)
       [] v.verdict = "clean" ->
            Go("publish", seen)
       [] v.verdict = "changes" /\ st.closed \cap v.reproduced # {} ->
            PauseFor("reappearance", seen)
       [] v.verdict = "changes" /\ st.closed \cap v.reproduced = {}
          /\ v.blocking \cap st.lastBlockingFindings # {} ->
            PauseFor("repeat_finding", seen)
       [] OTHER ->
            IF round >= MaxRounds THEN PauseFor("max_rounds", seen)
                                  ELSE Go("dispatch_developer", seen)

\* A mechanical failure that produced no head: only the repeat is a stop.
AssessMechanicalFailure(st, sig) ==
  LET seen == [st EXCEPT !.lastFailure = Failure(sig)] IN
  IF IsRepeat(st, sig) THEN PauseFor("repeat_failure", seen)
                       ELSE Go("dispatch_developer", seen)

\* The task's time budget stops a gate reading or a mechanical failure, never
\* verdicts: their round's work is already done.
WithinBudget(late, st, result) ==
  IF late THEN PauseFor("time_budget", st) ELSE result
=============================================================================
