--------------------------- MODULE RoundLoopProofs ---------------------------
(***************************************************************************)
(* Proofs about RoundLoop, for any caps, verdicts and failure signatures,  *)
(* and any number of drivers, patches and events.                          *)
(***************************************************************************)
EXTENDS RoundLoop, FiniteSetTheorems, WellFoundedInduction, TLAPS

-----------------------------------------------------------------------------
\* A non-empty set of natural numbers has a least element.
LEMMA LeastElement ==
  ASSUME NEW T \in SUBSET Nat, T # {}
  PROVE  \E x \in T : \A y \in T : x <= y
<1> DEFINE R == OpToRel(<, Nat)
<1>1. \E x \in T : \A y \in T : ~ (<<y, x>> \in R)
  BY NatLessThanWellFounded, WFMin
<1>2. \A x, y \in Nat : y < x => <<y, x>> \in R
  BY DEF OpToRel
<1> HIDE DEF R
<1>3. PICK x \in T : \A y \in T : ~ (<<y, x>> \in R)
  BY <1>1
<1>4. \A y \in T : ~ (y < x)
  BY <1>2, <1>3
<1> QED
  BY <1>4

\* A non-empty set of natural numbers that is bounded has a greatest element.
LEMMA GreatestElement ==
  ASSUME NEW T \in SUBSET Nat, T # {}, NEW n \in Nat, \A t \in T : t <= n
  PROVE  \E x \in T : \A y \in T : y <= x
<1> DEFINE U == {u \in Nat : \A t \in T : t <= u}
<1>1. PICK u \in U : \A v \in U : u <= v
  BY LeastElement
<1>2. u \in T
  <2> SUFFICES ASSUME u \notin T PROVE FALSE
    OBVIOUS
  <2>1. u \in Nat /\ T \subseteq Nat
    OBVIOUS
  <2>2. \A t \in T : t < u
    OBVIOUS
  <2>3. u - 1 \in Nat
    <3>1. PICK t \in T : TRUE
      OBVIOUS
    <3>2. t \in Nat /\ t < u
      BY <2>1, <2>2, <3>1
    <3> QED
      BY <2>1, <3>2
  <2>4. \A t \in T : t <= u - 1
    BY <2>1, <2>2
  <2> QED
    BY <1>1, <2>1, <2>3, <2>4
<1> QED
  BY <1>1, <1>2

\* The newest held pair is one of the held pairs, of the highest round: rounds are
\* capped.
LEMMA NewestIsHeld ==
  ASSUME RoundLoopTypeOK, NumberInv, disk.held # {}
  PROVE  Newest \in disk.held /\ \A h \in disk.held : h.round <= Newest.round
<1> DEFINE T == {h.round : h \in disk.held}
           n == Larger(MaxRounds, forge.ordinal) + Larger(used.attaches, 1)
<1>1. n \in Nat /\ forge.ordinal \in Nat /\ disk.held \subseteq HeldPair
  BY PolicyAssumption DEF RoundLoopTypeOK, RunFolder, PullRequest, Usage, Larger
<1>2. T \in SUBSET Nat /\ T # {}
  BY <1>1 DEF HeldPair
<1>3. \A t \in T : t <= n
  BY <1>1, <1>2 DEF NumberInv, Capped
<1>4. \E x \in T : \A y \in T : y <= x
  BY <1>1, <1>2, <1>3, GreatestElement
<1>5. \E h \in disk.held : \A g \in disk.held : g.round <= h.round
  BY <1>4
<1> QED
  BY <1>5 DEF Newest

\* So is the newest round marker on the pull request one of the markers.
LEMMA NewestMark ==
  ASSUME RoundLoopTypeOK, NumberInv, forge.marks # {}
  PROVE  Max(forge.marks) \in forge.marks /\ \A k \in forge.marks : k <= Max(forge.marks)
<1> DEFINE n == Larger(MaxRounds, forge.ordinal) + Larger(used.attaches, 1)
<1>1. n \in Nat /\ forge.marks \in SUBSET Nat
  BY PolicyAssumption DEF RoundLoopTypeOK, RunFolder, PullRequest, Usage, Larger
<1>2. \A t \in forge.marks : t <= n
  BY <1>1 DEF NumberInv, Capped
<1>3. \E x \in forge.marks : \A y \in forge.marks : y <= x
  BY <1>1, <1>2, GreatestElement
<1>4. \E x \in forge.marks : \A y \in forge.marks : x >= y
  BY <1>1, <1>3
<1> QED
  BY <1>1, <1>4 DEF Max

-----------------------------------------------------------------------------
(***************************************************************************)
(* What the policy answers: a decision the loop knows, on a state that     *)
(* still has the findings the last assessed round was blocked on.          *)
(***************************************************************************)
Answers(result, st) ==
  /\ result.type \in {"dispatch_developer", "ask_confidence", "dispatch_reviewers", "pause"}
  /\ result.type = "pause" => result.reason \in Reason \ Automatic
  /\ result.state \in LoopState
  /\ result.state.lastBlockingFindings = st.lastBlockingFindings

\* A pause of the policy for one of its reasons.
LEMMA PauseForAnswers ==
  ASSUME NEW st \in LoopState, NEW why \in Reason \ Automatic
  PROVE  Answers(PauseFor(why, st), st)
BY DEF Answers, PauseFor, Decide, LoopState

\* Any other decision of the policy that keeps the findings.
LEMMA GoAnswers ==
  ASSUME NEW st \in LoopState, NEW s \in LoopState,
         NEW what \in {"dispatch_developer", "ask_confidence", "dispatch_reviewers"},
         s.lastBlockingFindings = st.lastBlockingFindings
  PROVE  Answers(Go(what, s), st)
BY DEF Answers, Go, Decide

\* A finished Developer attempt changes nothing but the failure's mark.
LEMMA AttemptKeeps ==
  ASSUME NEW st \in LoopState
  PROVE  /\ RecordDeveloperAttempt(st) \in LoopState
         /\ RecordDeveloperAttempt(st).lastBlockingFindings = st.lastBlockingFindings
BY DEF RecordDeveloperAttempt, LoopState, LoopFailure

\* The failure that is remembered has its type.
LEMMA FailureType ==
  ASSUME NEW sig \in Signature \cup {None}
  PROVE  Failure(sig) \in LoopFailure \cup {None}
BY DEF Failure, LoopFailure

\* A mechanical failure.
LEMMA MechanicalAnswers ==
  ASSUME NEW st \in LoopState, NEW sig \in Signature \cup {None}, NEW late \in BOOLEAN
  PROVE  Answers(WithinBudget(late, st, AssessMechanicalFailure(st, sig)), st)
<1> DEFINE s == [st EXCEPT !.lastFailure = Failure(sig)]
<1>1. s \in LoopState /\ s.lastBlockingFindings = st.lastBlockingFindings
  BY FailureType DEF LoopState
<1> HIDE DEF s
<1>2. Answers(PauseFor("repeat_failure", s), s) /\ Answers(PauseFor("time_budget", st), st)
  BY <1>1, PauseForAnswers DEF Reason, Automatic
<1>3. Answers(Go("dispatch_developer", s), st)
  BY <1>1, GoAnswers
<1>4. AssessMechanicalFailure(st, sig) \in
        {PauseFor("repeat_failure", s), Go("dispatch_developer", s)}
  BY DEF AssessMechanicalFailure, s
<1> QED
  BY <1>1, <1>2, <1>3, <1>4 DEF WithinBudget, Answers

\* A red gate.
LEMMA RedAnswers ==
  ASSUME NEW st \in LoopState, NEW sig \in Signature \cup {None}, NEW late \in BOOLEAN
  PROVE  Answers(WithinBudget(late, st, AssessRed(st, sig)), st)
<1> DEFINE s == [st EXCEPT !.pending = None, !.lastFailure = Failure(sig)]
<1>1. s \in LoopState /\ s.lastBlockingFindings = st.lastBlockingFindings
  BY FailureType DEF LoopState
<1> HIDE DEF s
<1>2. Answers(PauseFor("repeat_failure", s), s) /\ Answers(PauseFor("time_budget", st), st)
  BY <1>1, PauseForAnswers DEF Reason, Automatic
<1>3. Answers(Go("dispatch_developer", s), st)
  BY <1>1, GoAnswers
<1>4. AssessRed(st, sig) \in {PauseFor("repeat_failure", s), Go("dispatch_developer", s)}
  BY DEF AssessRed, s
<1> QED
  BY <1>1, <1>2, <1>3, <1>4 DEF WithinBudget, Answers

\* A green gate, whatever the Developer's confidence.
LEMMA GreenAnswers ==
  ASSUME NEW st \in LoopState, NEW round \in Nat,
         NEW c \in {"absent", "low", "high"}, NEW late \in BOOLEAN
  PROVE  Answers(WithinBudget(late, st, AssessGreen(st, round, c)), st)
<1> DEFINE s == [st EXCEPT !.lastFailure = None]
           asked == IF st.pending # None /\ st.pending.round = round
                    THEN st.pending.asks ELSE 0
           w(n) == [s EXCEPT !.pending = [round |-> round, asks |-> n]]
           x == [s EXCEPT !.pending = None, !.extraTurnUsed = TRUE]
<1>1. s \in LoopState /\ s.lastBlockingFindings = st.lastBlockingFindings
  BY DEF LoopState
<1>2. asked \in Nat
  BY DEF LoopState
<1>3. ASSUME NEW n \in Nat
      PROVE  w(n) \in LoopState /\ w(n).lastBlockingFindings = st.lastBlockingFindings
  <2> HIDE DEF s
  <2> QED
    BY <1>1 DEF LoopState
<1>4. x \in LoopState /\ x.lastBlockingFindings = st.lastBlockingFindings
  <2> HIDE DEF s
  <2> QED
    BY <1>1 DEF LoopState
<1>5. AssessGreen(st, round, c) \in
        {Go("dispatch_reviewers", w(0)), PauseFor("confidence", s),
         Go("ask_confidence", w(asked + 1)), Go("dispatch_developer", x),
         Go("dispatch_reviewers", w(asked))}
  BY DEF AssessGreen
<1> HIDE DEF s, w, x, asked
<1>6. Answers(PauseFor("confidence", s), s) /\ Answers(PauseFor("time_budget", st), st)
  BY <1>1, PauseForAnswers DEF Reason, Automatic
<1>7. /\ Answers(Go("dispatch_reviewers", w(0)), st)
      /\ Answers(Go("ask_confidence", w(asked + 1)), st)
      /\ Answers(Go("dispatch_reviewers", w(asked)), st)
      /\ Answers(Go("dispatch_developer", x), st)
  <2>1. 0 \in Nat /\ asked + 1 \in Nat
    BY <1>2
  <2>2. /\ w(0) \in LoopState /\ w(0).lastBlockingFindings = st.lastBlockingFindings
        /\ w(asked) \in LoopState /\ w(asked).lastBlockingFindings = st.lastBlockingFindings
        /\ w(asked + 1) \in LoopState
        /\ w(asked + 1).lastBlockingFindings = st.lastBlockingFindings
    BY <1>2, <1>3, <2>1
  <2> QED
    BY <1>4, <2>2, GoAnswers
<1> QED
  BY <1>1, <1>5, <1>6, <1>7 DEF WithinBudget, Answers

\* The verdicts: the findings that block this round are remembered, only a clean
\* pair publishes, and the Developer gets them back below the cap and only when
\* none of them blocked the round before.
LEMMA VerdictsAnswer ==
  ASSUME NEW st \in LoopState, NEW round \in Nat, NEW v \in MergedVerdict,
         NEW result, result = AssessVerdicts(st, round, v)
  PROVE  /\ result.type \in {"dispatch_developer", "publish", "pause"}
         /\ result.type = "pause" => result.reason \in Reason \ Automatic
         /\ result.state \in LoopState
         /\ result.state.lastBlockingFindings = v.blocking
         /\ result.type = "publish" => v.verdict = "clean"
         /\ result.type = "dispatch_developer" =>
              round < MaxRounds /\ v.blocking \cap st.lastBlockingFindings = {}
<1> DEFINE s == [st EXCEPT
                   !.pending = None,
                   !.closed = (st.closed \ (v.open \cup v.reproduced)) \cup v.resolved,
                   !.lastBlockingFindings = v.blocking]
           P(why) == PauseFor(why, s)
<1>1. s \in LoopState /\ s.lastBlockingFindings = v.blocking
  BY DEF LoopState, MergedVerdict
<1>2. \/ result \in {P("escalation"), P("reappearance"), P("repeat_finding"), P("max_rounds")}
      \/ result = Go("publish", s) /\ v.verdict = "clean"
      \/ /\ result = Go("dispatch_developer", s)
         /\ ~(round >= MaxRounds)
         /\ v.blocking \cap st.lastBlockingFindings = {}
  BY DEF AssessVerdicts, MergedVerdict
<1> HIDE DEF s
<1>3. ASSUME NEW why \in Reason \ Automatic
      PROVE  /\ P(why).type = "pause" /\ P(why).reason = why /\ P(why).state \in LoopState
             /\ P(why).state.lastBlockingFindings = v.blocking
  BY <1>1 DEF PauseFor, Decide, LoopState
<1>4. {"escalation", "reappearance", "repeat_finding", "max_rounds"} \subseteq Reason \ Automatic
  BY DEF Reason, Automatic
<1>5. CASE result \in {P("escalation"), P("reappearance"), P("repeat_finding"), P("max_rounds")}
  <2> HIDE DEF P
  <2>1. PICK why \in Reason \ Automatic : result = P(why)
    BY <1>4, <1>5
  <2> QED
    BY <1>3, <2>1
<1>6. CASE result = Go("publish", s) /\ v.verdict = "clean"
  BY <1>1, <1>6 DEF Go, Decide
<1>7. CASE /\ result = Go("dispatch_developer", s)
           /\ ~(round >= MaxRounds)
           /\ v.blocking \cap st.lastBlockingFindings = {}
  BY <1>1, <1>7, PolicyAssumption DEF Go, Decide
<1> QED
  BY <1>2, <1>5, <1>6, <1>7

-----------------------------------------------------------------------------
\* What the helpers of a step do to the driver's variables.

\* A driver that has not begun.
LEMMA NoDriverType ==
  /\ NoDriver \in DriverState
  /\ NoDriver.round = 1 /\ NoDriver.stalled = 0 /\ NoDriver.infra = 0
  /\ NoDriver.ls.lastBlockingFindings = {} /\ NoDriver.ls \in LoopState
  /\ NoDriver.liveHead = None /\ NoDriver.survives = FALSE
<1>1. InitialLoopState \in LoopState /\ InitialLoopState.lastBlockingFindings = {}
  BY DEF InitialLoopState, LoopState
<1> HIDE DEF InitialLoopState
<1> QED
  BY <1>1 DEF NoDriver, DriverState

\* The memory of repeats, replaced in a loop state.
LEMMA RepeatMemoryType ==
  ASSUME NEW st \in LoopState, NEW b \in SUBSET Key, NEW f \in LoopFailure \cup {None}
  PROVE  /\ RepeatMemory(st, b, f) \in LoopState
         /\ RepeatMemory(st, b, f).lastBlockingFindings = b
BY DEF RepeatMemory, LoopState

\* A pause keeps the round, the counters and the findings.
LEMMA PauseKeeps ==
  ASSUME NEW m \in DriverState, NEW why \in Reason, PausesFor(why, m)
  PROVE  /\ pc' = "pause" /\ mem' \in DriverState /\ mem'.reason = why
         /\ mem'.round = m.round /\ mem'.stalled = m.stalled /\ mem'.infra = m.infra
         /\ mem'.ls.lastBlockingFindings = m.ls.lastBlockingFindings
<1> DEFINE n == NoDriver
           s == RepeatMemory(n.ls, m.ls.lastBlockingFindings, m.ls.lastFailure)
<1>1. m.ls \in LoopState /\ n \in DriverState /\ n.ls \in LoopState
  BY NoDriverType DEF DriverState
<1>2. s \in LoopState /\ s.lastBlockingFindings = m.ls.lastBlockingFindings
  BY <1>1, RepeatMemoryType DEF LoopState
<1>3. pc' = "pause" /\ mem' = [n EXCEPT
             !.round = m.round, !.reason = why, !.stalled = m.stalled, !.infra = m.infra,
             !.delivered = m.delivered, !.ls = s]
  BY DEF PausesFor, Becomes
<1> HIDE DEF n, s
<1> QED
  BY <1>1, <1>2, <1>3 DEF DriverState

\* A decision carried out on the driver's variables m.
LEMMA DecidedKeeps ==
  ASSUME NEW m \in DriverState, NEW result,
         result.type \in TopOfLoop \cup {"pause"},
         result.type = "pause" => result.reason \in Reason,
         result.state \in LoopState, Decided(m, result)
  PROVE  /\ pc' = result.type /\ mem' \in DriverState
         /\ mem'.round = m.round /\ mem'.stalled = m.stalled /\ mem'.infra = m.infra
         /\ mem'.ls.lastBlockingFindings = result.state.lastBlockingFindings
         /\ pc' = "pause" => mem'.reason = result.reason
         /\ pc' # "pause" => /\ mem'.survives = m.survives /\ mem'.judged = m.judged
                             /\ mem'.liveHead = m.liveHead
<1> DEFINE n == [m EXCEPT !.ls = result.state]
<1>1. /\ n \in DriverState /\ n.round = m.round /\ n.stalled = m.stalled
      /\ n.infra = m.infra /\ n.ls = result.state /\ n.survives = m.survives
      /\ n.judged = m.judged /\ n.liveHead = m.liveHead
  BY DEF DriverState
<1>2. IF result.type = "pause" THEN PausesFor(result.reason, n) ELSE Becomes(result.type, n)
  BY DEF Decided
<1> HIDE DEF n
<1>3. CASE result.type = "pause"
  BY <1>1, <1>2, <1>3, PauseKeeps
<1>4. CASE result.type # "pause"
  BY <1>1, <1>2, <1>4 DEF Becomes
<1> QED
  BY <1>3, <1>4

\* A retry is spent, or all of them are.
LEMMA SpentKeeps ==
  ASSUME NEW m \in DriverState
  PROVE  /\ Spent(m) \in DriverState
         /\ Spent(m).round = m.round /\ Spent(m).stalled = m.stalled
         /\ Spent(m).ls = m.ls /\ Spent(m).survives = m.survives
         /\ Spent(m).infra \in Nat /\ Spent(m).infra >= m.infra
         /\ Spent(m).infra >= MaxInfra \/ Spent(m).infra = m.infra + 1
         /\ Spent(m).delivered = m.delivered
BY LoopAssumption DEF Spent, DriverState

\* The record that a write leaves.
LEMMA SnapshotType ==
  ASSUME NEW m \in DriverState
  PROVE  /\ Snapshot(m) \in LoopRecord /\ Snapshot(m) # None
         /\ Snapshot(m).round = m.round /\ Snapshot(m).stalled = m.stalled
         /\ Snapshot(m).infra = m.infra
         /\ Snapshot(m).blocking = m.ls.lastBlockingFindings
<1>1. m.ls \in LoopState
  BY DEF DriverState
<1> QED
  BY <1>1, LoopAssumption DEF Snapshot, LoopRecord, DriverState, LoopState

(***************************************************************************)
(* The kinds of steps, each with what the invariants see of it.  A write   *)
(* of the record happens or is lost.                                       *)
(***************************************************************************)
Writes(round, stalled, infra, blocking) ==
  \/ /\ store' \in LoopRecord /\ store' # None /\ used'.lost = used.lost
     /\ store'.round = round /\ store'.stalled = stalled
     /\ store'.infra = infra /\ store'.blocking = blocking
  \/ store' = store /\ used'.lost = used.lost + 1

WritesMem == Writes(mem'.round, mem'.stalled, mem'.infra, mem'.ls.lastBlockingFindings)
KeepsRecord == store' = store /\ used'.lost = used.lost
SameStarts == used'.attaches = used.attaches /\ used'.failed = used.failed

WorkPlace ==
  {"dispatch_developer", "ask_confidence", "dispatch_reviewers", "turn", "idle",
   "resumed_turn", "gate", "green", "pause"}

\* A live driver goes on, or comes to a pause that is paid for.
GoesOn ==
  /\ Running /\ pc # "pause" /\ pc' \in WorkPlace
  /\ mem'.infra >= mem.infra
  /\ pc' = "pause" =>
       /\ mem'.reason \in Reason
       /\ mem'.reason \in Automatic => mem'.infra >= MaxInfra \/ mem'.infra = mem.infra + 1
  /\ disk'.held \subseteq disk.held /\ disk'.pause = disk.pause
  /\ forge' = forge /\ SameStarts

SameRound ==
  /\ mem'.round = mem.round
  /\ mem'.ls.lastBlockingFindings = mem.ls.lastBlockingFindings

SameStall ==
  /\ mem'.stalled = mem.stalled
  /\ pc' # "pause" => mem'.survives = mem.survives

\* Turns, conflicts, and failures that read nothing of the gate.
Works ==
  GoesOn /\ SameRound /\ SameStall /\ (KeepsRecord \/ WritesMem) /\ seen' = seen

\* A reading of the gate, or of the Developer's confidence.
Reads ==
  /\ GoesOn /\ SameRound /\ WritesMem /\ seen' = SeenGate
  /\ mem'.stalled = IF mem.survives THEN mem.stalled ELSE 0

\* An idle turn.
Stalls ==
  /\ GoesOn /\ SameRound /\ seen' = [seen EXCEPT !.idle = @ + 1]
  /\ mem'.stalled = mem.stalled + 1
  /\ pc' # "pause" => mem'.survives = mem.survives /\ mem'.stalled < MaxStalled
  /\ Writes(mem'.round, mem'.stalled, mem.infra, mem'.ls.lastBlockingFindings)

\* The end of an assessed round that is not approved.
EndsRound ==
  /\ pc \in {"held", "publish"}
  /\ GoesOn /\ SameStall /\ WritesMem /\ seen' = SeenRound(mem')
  /\ mem'.round = mem.round \/ (mem'.round = mem.round + 1 /\ mem.round < MaxRounds)

-----------------------------------------------------------------------------
\* Each step keeps the types and is of its kind.

\* A write of the record made from the driver's variables m.
LEMMA PersistWrites ==
  ASSUME RoundLoopTypeOK, NEW m \in DriverState, NEW u \in Usage,
         u.lost = used.lost, PersistAs(m, u)
  PROVE  /\ store' \in LoopRecord \cup {None} /\ used' \in Usage
         /\ used'.attaches = u.attaches /\ used'.failed = u.failed
         /\ Writes(m.round, m.stalled, m.infra, m.ls.lastBlockingFindings)
<1>1. CASE store' = Snapshot(m) /\ used' = u
  BY <1>1, SnapshotType DEF Writes
<1>2. CASE store' = store /\ used' = [u EXCEPT !.events = @ + 1, !.lost = @ + 1]
  <2>1. used'.lost = u.lost + 1 /\ used'.attaches = u.attaches /\ used'.failed = u.failed
    BY <1>2 DEF Usage
  <2>2. used' \in Usage
    <3> DEFINE e == u.events + 1
               l == u.lost + 1
    <3>1. e \in Nat /\ l \in Nat /\ used' = [u EXCEPT !.events = e, !.lost = l]
      BY <1>2 DEF Usage
    <3> HIDE DEF e, l
    <3> QED
      BY <3>1 DEF Usage
  <2> QED
    BY <1>2, <2>1, <2>2 DEF Writes, RoundLoopTypeOK
<1> QED
  BY <1>1, <1>2 DEF PersistAs

\* An event that is counted costs no write.
LEMMA CountedType ==
  ASSUME RoundLoopTypeOK
  PROVE  /\ Counted \in Usage /\ Counted.lost = used.lost
         /\ Counted.attaches = used.attaches /\ Counted.failed = used.failed
BY DEF RoundLoopTypeOK, Usage, Counted

\* The turns and retries that only move the driver.
LEMMA QuietWorks ==
  ASSUME RoundLoopTypeOK,
         \/ BeginTurn \/ ConnectionRetry \/ TurnEnds \/ RerunChecks
         \/ GreenAtStall \/ GateConflict \/ ReviewConflict
  PROVE  RoundLoopTypeOK' /\ Works
<1> USE DEF RoundLoopTypeOK
<1>0. /\ mem \in DriverState /\ forge \in PullRequest /\ forge.head \in Head
      /\ mem.ls \in LoopState /\ mem.infra \in Nat
  BY DEF DriverState, PullRequest
<1>1. CASE BeginTurn
  <2>1. mem' \in DriverState /\ SameRound /\ SameStall /\ mem'.infra >= mem.infra
    BY <1>0, <1>1 DEF BeginTurn, Becomes, DriverState, SameRound, SameStall
  <2> QED
    BY <1>0, <1>1, <2>1 DEF BeginTurn, Becomes, NotPersisted, Works, GoesOn, KeepsRecord,
       SameStarts, Running, Place, TopOfLoop, WorkPlace
<1>2. CASE ConnectionRetry
  <2>1. mem' \in DriverState /\ SameRound /\ SameStall /\ mem'.infra >= mem.infra
    BY <1>0, <1>2, SpentKeeps DEF ConnectionRetry, SameRound, SameStall
  <2>2. used' \in Usage /\ used'.lost = used.lost /\ SameStarts
    BY <1>2, CountedType DEF ConnectionRetry, SameStarts
  <2> QED
    BY <1>0, <1>2, <2>1, <2>2 DEF ConnectionRetry, Works, GoesOn, KeepsRecord,
       SameStarts, Running, Place, TopOfLoop, WorkPlace
<1>3. CASE TurnEnds
  <2> DEFINE s == RecordDeveloperAttempt(mem.ls)
             b == IF mem.before = forge.head THEN mem.before ELSE None
  <2>0. /\ s \in LoopState /\ s.lastBlockingFindings = mem.ls.lastBlockingFindings
        /\ b \in Head \cup {None} /\ mem' = [mem EXCEPT !.ls = s, !.before = b]
    BY <1>0, <1>3, AttemptKeeps DEF TurnEnds, Becomes, DriverState
  <2> HIDE DEF s, b
  <2>1. mem' \in DriverState
    BY <1>0, <2>0 DEF DriverState
  <2>2. /\ mem'.round = mem.round /\ mem'.ls = s /\ mem'.infra = mem.infra
        /\ mem'.stalled = mem.stalled /\ mem'.survives = mem.survives
    BY <1>0, <2>0 DEF DriverState
  <2> QED
    BY <1>0, <1>3, <2>0, <2>1, <2>2 DEF TurnEnds, Becomes, NotPersisted, Works, GoesOn,
       KeepsRecord, SameRound, SameStall, SameStarts, Running, Place, TopOfLoop, WorkPlace
<1>4. CASE RerunChecks
  <2>1. mem' \in DriverState
    BY <1>0, <1>4 DEF RerunChecks, Becomes, DriverState
  <2>2. /\ mem'.round = mem.round /\ mem'.ls = mem.ls /\ mem'.infra = mem.infra
        /\ mem'.stalled = mem.stalled /\ mem'.survives = mem.survives
    BY <1>0, <1>4 DEF RerunChecks, Becomes, DriverState
  <2> QED
    BY <1>0, <1>4, <2>1, <2>2 DEF RerunChecks, Becomes, NotPersisted, Works, GoesOn, KeepsRecord,
       SameRound, SameStall, SameStarts, Running, Place, TopOfLoop, WorkPlace
<1>5. CASE GreenAtStall
  <2>1. mem' \in DriverState
    BY <1>0, <1>5 DEF GreenAtStall, Becomes, DriverState
  <2>2. /\ mem'.round = mem.round /\ mem'.ls = mem.ls /\ mem'.infra = mem.infra
        /\ mem'.stalled = mem.stalled /\ mem'.survives = mem.survives
    BY <1>0, <1>5 DEF GreenAtStall, Becomes, DriverState
  <2> QED
    BY <1>0, <1>5, <2>1, <2>2 DEF GreenAtStall, Becomes, NotPersisted, Works, GoesOn, KeepsRecord,
       SameRound, SameStall, SameStarts, Running, Place, TopOfLoop, WorkPlace
<1>6. CASE GateConflict
  <2>1. mem' \in DriverState
    BY <1>0, <1>6 DEF GateConflict, Becomes, DriverState
  <2>2. /\ mem'.round = mem.round /\ mem'.ls = mem.ls /\ mem'.infra = mem.infra
        /\ mem'.stalled = mem.stalled /\ mem'.survives = mem.survives
    BY <1>0, <1>6 DEF GateConflict, Becomes, DriverState
  <2> QED
    BY <1>0, <1>6, <2>1, <2>2 DEF GateConflict, Becomes, NotPersisted, Works, GoesOn, KeepsRecord,
       SameRound, SameStall, SameStarts, Running, Place, TopOfLoop, WorkPlace
<1>7. CASE ReviewConflict
  <2>1. mem' \in DriverState
    BY <1>0, <1>7 DEF ReviewConflict, Becomes, DriverState
  <2>2. /\ mem'.round = mem.round /\ mem'.ls = mem.ls /\ mem'.infra = mem.infra
        /\ mem'.stalled = mem.stalled /\ mem'.survives = mem.survives
    BY <1>0, <1>7 DEF ReviewConflict, Becomes, DriverState
  <2> QED
    BY <1>0, <1>7, <2>1, <2>2 DEF ReviewConflict, Becomes, NotPersisted, Works, GoesOn, KeepsRecord,
       SameRound, SameStall, SameStarts, Running, Place, TopOfLoop, WorkPlace
<1> QED
  BY <1>1, <1>2, <1>3, <1>4, <1>5, <1>6, <1>7

\* The work a Developer left unpushed, and the turn that is given to push it.
LEMMA UnpushedWorks ==
  ASSUME RoundLoopTypeOK,
         NEW sig \in Signature \cup {None}, NEW late \in BOOLEAN, UnpushedWork(sig, late)
  PROVE  RoundLoopTypeOK' /\ Works
<1> DEFINE m == [mem EXCEPT !.unpushed = TRUE]
           result == WithinBudget(late, mem.ls, AssessMechanicalFailure(mem.ls, sig))
           n == [m EXCEPT !.ls = result.state]
<1>0. mem \in DriverState /\ mem.ls \in LoopState /\ used \in Usage /\ mem.infra \in Nat
  BY DEF RoundLoopTypeOK, DriverState
<1>1. m \in DriverState
  BY <1>0 DEF DriverState
<1>2. /\ m.round = mem.round /\ m.ls = mem.ls /\ m.infra = mem.infra
      /\ m.stalled = mem.stalled /\ m.survives = mem.survives
  BY <1>0 DEF DriverState
<1>3. Answers(result, mem.ls)
  BY <1>0, MechanicalAnswers
<1>4. /\ pc = "idle" /\ UNCHANGED <<disk, forge, seen>>
      /\ \/ result.type = "pause" /\ Decided(m, result) /\ PersistAs(mem', used)
         \/ Becomes("resumed_turn", n) /\ NotPersisted
         \/ Becomes("resumed_turn", m) /\ NotPersisted
  BY DEF UnpushedWork, Persist
<1> HIDE DEF m, result
<1>5. /\ n \in DriverState /\ n.round = mem.round /\ n.infra = mem.infra
      /\ n.ls.lastBlockingFindings = mem.ls.lastBlockingFindings
      /\ n.stalled = mem.stalled /\ n.survives = mem.survives
  BY <1>1, <1>2, <1>3 DEF Answers, DriverState
<1> HIDE DEF n
<1>6. CASE result.type = "pause" /\ Decided(m, result) /\ PersistAs(mem', used)
  <2>1. /\ pc' = "pause" /\ mem' \in DriverState /\ SameRound /\ mem'.stalled = mem.stalled
        /\ mem'.infra = mem.infra /\ mem'.reason \in Reason \ Automatic
    BY <1>1, <1>2, <1>3, <1>6, DecidedKeeps DEF Answers, SameRound
  <2>2. WritesMem /\ store' \in LoopRecord \cup {None} /\ used' \in Usage /\ SameStarts
    BY <1>0, <1>6, <2>1, PersistWrites DEF WritesMem, SameStarts
  <2> QED
    BY <1>0, <1>4, <2>1, <2>2 DEF RoundLoopTypeOK, Works, GoesOn, SameStall, Running, Place,
       WorkPlace
<1>7. CASE NotPersisted /\ (Becomes("resumed_turn", m) \/ Becomes("resumed_turn", n))
  BY <1>0, <1>1, <1>2, <1>4, <1>5, <1>7 DEF Becomes, NotPersisted, RoundLoopTypeOK, Works,
     GoesOn, KeepsRecord, SameRound, SameStall, SameStarts, Running, Place, WorkPlace
<1> QED
  BY <1>4, <1>6, <1>7

\* That turn's end.
LEMMA ResumedWorks ==
  ASSUME RoundLoopTypeOK, NEW left \in {"nothing", "dirty", "ahead"},
         NEW sig \in Signature, NEW late \in BOOLEAN, ResumedTurnEnds(left, sig, late)
  PROVE  RoundLoopTypeOK' /\ Works
<1> DEFINE s == RecordDeveloperAttempt(mem.ls)
           m == [mem EXCEPT !.ls = s, !.before = None]
           result == WithinBudget(late, m.ls, AssessMechanicalFailure(m.ls, sig))
           n == [m EXCEPT !.ls = result.state]
<1>0. mem \in DriverState /\ mem.ls \in LoopState /\ used \in Usage /\ mem.infra \in Nat
  BY DEF RoundLoopTypeOK, DriverState
<1>1. s \in LoopState /\ s.lastBlockingFindings = mem.ls.lastBlockingFindings
  BY <1>0, AttemptKeeps
<1>2. /\ pc = "resumed_turn" /\ UNCHANGED <<disk, forge, seen>>
      /\ \/ Becomes("gate", m) /\ NotPersisted
         \/ PausesFor("no_push", m) /\ NotPersisted
         \/ result.type = "pause" /\ Decided(m, result) /\ PersistAs(mem', used)
         \/ PausesFor("no_push", n) /\ NotPersisted
  BY DEF ResumedTurnEnds, Persist
<1> HIDE DEF s
<1>3. m \in DriverState
  BY <1>0, <1>1 DEF DriverState
<1>4. /\ m.round = mem.round /\ m.ls = s /\ m.infra = mem.infra
      /\ m.stalled = mem.stalled /\ m.survives = mem.survives
  BY <1>0 DEF DriverState
<1> HIDE DEF m
<1>5. Answers(result, s)
  BY <1>1, <1>4, MechanicalAnswers
<1> HIDE DEF result
<1>6. /\ n \in DriverState /\ n.round = mem.round /\ n.infra = mem.infra
      /\ n.ls.lastBlockingFindings = mem.ls.lastBlockingFindings
      /\ n.stalled = mem.stalled
  BY <1>1, <1>3, <1>4, <1>5 DEF Answers, DriverState
<1> HIDE DEF n
<1>7. CASE result.type = "pause" /\ Decided(m, result) /\ PersistAs(mem', used)
  <2>1. /\ pc' = "pause" /\ mem' \in DriverState /\ SameRound /\ mem'.stalled = mem.stalled
        /\ mem'.infra = mem.infra /\ mem'.reason \in Reason \ Automatic
    BY <1>1, <1>3, <1>4, <1>5, <1>7, DecidedKeeps DEF Answers, SameRound
  <2>2. WritesMem /\ store' \in LoopRecord \cup {None} /\ used' \in Usage /\ SameStarts
    BY <1>0, <1>7, <2>1, PersistWrites DEF WritesMem, SameStarts
  <2> QED
    BY <1>0, <1>2, <2>1, <2>2 DEF RoundLoopTypeOK, Works, GoesOn, SameStall, Running, Place,
       WorkPlace
<1>8. CASE NotPersisted /\ Becomes("gate", m)
  BY <1>0, <1>1, <1>2, <1>3, <1>4, <1>8 DEF Becomes, NotPersisted, RoundLoopTypeOK, Works,
     GoesOn, KeepsRecord, SameRound, SameStall, SameStarts, Running, Place, WorkPlace
<1>9. CASE NotPersisted /\ (PausesFor("no_push", m) \/ PausesFor("no_push", n))
  <2>1. "no_push" \in Reason \ Automatic
    BY DEF Reason, Automatic
  <2>2. /\ pc' = "pause" /\ mem' \in DriverState /\ SameRound /\ mem'.stalled = mem.stalled
        /\ mem'.infra = mem.infra /\ mem'.reason = "no_push"
    BY <1>1, <1>3, <1>4, <1>6, <1>9, <2>1, PauseKeeps DEF SameRound
  <2> QED
    BY <1>0, <1>2, <1>9, <2>1, <2>2 DEF NotPersisted, RoundLoopTypeOK, Works, GoesOn,
       KeepsRecord, SameStall, SameStarts, Running, Place, WorkPlace
<1> QED
  BY <1>2, <1>7, <1>8, <1>9

\* The pauses of a review, and of a driver that is older than its base.
LEMMA HiccupWorks ==
  ASSUME RoundLoopTypeOK,
         \/ ReviewFails \/ StaleDriver
         \/ \E why \in {"ruling_posted", "inputs_changed"} : InputsMoved(why)
  PROVE  RoundLoopTypeOK' /\ Works
<1>0. mem \in DriverState /\ mem.ls \in LoopState /\ used \in Usage /\ mem.infra \in Nat
  BY DEF RoundLoopTypeOK, DriverState
<1>1. {"ruling_posted", "inputs_changed"} \subseteq Reason \ Automatic
      /\ {"infrastructure", "stale_driver"} \subseteq Reason
  BY DEF Reason, Automatic
<1>2. CASE ReviewFails
  <2>1. /\ pc' = "pause" /\ mem' \in DriverState /\ SameRound /\ mem'.stalled = mem.stalled
        /\ mem'.infra >= mem.infra /\ mem'.reason \in Reason
        /\ mem'.infra >= MaxInfra \/ mem'.infra = mem.infra + 1
    BY <1>0, <1>1, <1>2, SpentKeeps, PauseKeeps DEF ReviewFails, SameRound
  <2>2. WritesMem /\ store' \in LoopRecord \cup {None} /\ used' \in Usage /\ SameStarts
    BY <1>0, <1>2, <2>1, CountedType, PersistWrites DEF ReviewFails, WritesMem, SameStarts
  <2> QED
    BY <1>0, <1>2, <2>1, <2>2 DEF ReviewFails, RoundLoopTypeOK, Works, GoesOn, SameStall,
       Running, Place, WorkPlace
<1>3. CASE StaleDriver
  <2>1. /\ pc' = "pause" /\ mem' \in DriverState /\ SameRound /\ mem'.stalled = mem.stalled
        /\ mem'.infra >= mem.infra /\ mem'.reason \in Reason
        /\ mem'.infra >= MaxInfra \/ mem'.infra = mem.infra + 1
    BY <1>0, <1>1, <1>3, SpentKeeps, PauseKeeps DEF StaleDriver, SameRound
  <2>2. used' \in Usage /\ used'.lost = used.lost /\ SameStarts
    BY <1>3, CountedType DEF StaleDriver, SameStarts
  <2> QED
    BY <1>0, <1>3, <2>1, <2>2 DEF StaleDriver, TopOfLoop, RoundLoopTypeOK, Works, GoesOn,
       KeepsRecord, SameStall, Running, Place, WorkPlace
<1>4. ASSUME NEW why \in {"ruling_posted", "inputs_changed"}, InputsMoved(why)
      PROVE  RoundLoopTypeOK' /\ Works
  <2>1. /\ pc' = "pause" /\ mem' \in DriverState /\ SameRound /\ mem'.stalled = mem.stalled
        /\ mem'.infra = mem.infra /\ mem'.reason \in Reason \ Automatic
    BY <1>0, <1>1, <1>4, PauseKeeps DEF InputsMoved, SameRound
  <2> QED
    BY <1>0, <1>4, <2>1 DEF InputsMoved, NotPersisted, RoundLoopTypeOK, Works, GoesOn,
       KeepsRecord, SameStall, SameStarts, Running, Place, WorkPlace
<1> QED
  BY <1>2, <1>3, <1>4

\* A conflict at the publication discards the held verdicts of the round.
LEMMA PublishConflictWorks ==
  ASSUME RoundLoopTypeOK, PublishConflict
  PROVE  RoundLoopTypeOK' /\ Works
<1>0. mem \in DriverState /\ mem.ls \in LoopState /\ used \in Usage /\ mem.infra \in Nat
      /\ disk \in RunFolder
  BY DEF RoundLoopTypeOK, DriverState
<1>1. mem' \in DriverState
  BY <1>0 DEF PublishConflict, Becomes, DriverState
<1>2. /\ mem'.round = mem.round /\ mem'.ls = mem.ls /\ mem'.infra = mem.infra
      /\ mem'.stalled = mem.stalled /\ mem'.survives = mem.survives
  BY <1>0 DEF PublishConflict, Becomes, DriverState
<1>3. disk' \in RunFolder /\ disk'.held \subseteq disk.held /\ disk'.pause = disk.pause
  BY <1>0 DEF PublishConflict, Discarded, RunFolder
<1>4. WritesMem /\ store' \in LoopRecord \cup {None} /\ used' \in Usage /\ SameStarts
  BY <1>0, <1>1, PersistWrites DEF PublishConflict, Persist, WritesMem, SameStarts
<1> QED
  BY <1>0, <1>1, <1>2, <1>3, <1>4 DEF PublishConflict, Becomes, RoundLoopTypeOK, Works,
     GoesOn, SameRound, SameStall, Running, Place, TopOfLoop, WorkPlace

\* A reading of the gate ends a stall, or keeps the one that was recovered.
LEMMA GateObservedKeeps ==
  ASSUME NEW m \in DriverState
  PROVE  /\ GateObserved(m) \in DriverState
         /\ GateObserved(m).round = m.round /\ GateObserved(m).ls = m.ls
         /\ GateObserved(m).infra = m.infra
         /\ GateObserved(m).stalled = IF m.survives THEN m.stalled ELSE 0
<1> DEFINE s == IF m.survives THEN m.stalled ELSE 0
<1>1. s \in Nat /\ GateObserved(m) = [m EXCEPT !.stalled = s, !.survives = FALSE,
                                               !.unpushed = FALSE]
  BY DEF GateObserved, DriverState
<1> HIDE DEF s
<1>2. GateObserved(m) \in DriverState
  BY <1>1 DEF DriverState
<1>3. /\ GateObserved(m).round = m.round /\ GateObserved(m).ls = m.ls
      /\ GateObserved(m).infra = m.infra /\ GateObserved(m).stalled = s
  BY <1>1 DEF DriverState
<1> QED
  BY <1>2, <1>3 DEF s

\* What a reading of the gate decides, of the driver's variables m.
LEMMA DecidedReads ==
  ASSUME RoundLoopTypeOK, Running, pc # "pause",
         NEW m \in DriverState, m.round = mem.round, m.infra = mem.infra,
         m.ls.lastBlockingFindings = mem.ls.lastBlockingFindings,
         m.stalled = IF mem.survives THEN mem.stalled ELSE 0,
         NEW result, Answers(result, m.ls), Decided(m, result), Persist(mem'),
         seen' = SeenGate, UNCHANGED <<disk, forge>>
  PROVE  RoundLoopTypeOK' /\ Reads
<1>0. used \in Usage /\ mem.infra \in Nat /\ seen \in History
  BY DEF RoundLoopTypeOK, DriverState
<1>1. /\ pc' = result.type /\ mem' \in DriverState /\ SameRound /\ mem'.infra = mem.infra
      /\ mem'.stalled = m.stalled
      /\ pc' = "pause" => mem'.reason \in Reason \ Automatic
  BY DecidedKeeps DEF Answers, TopOfLoop, SameRound
<1>2. WritesMem /\ store' \in LoopRecord \cup {None} /\ used' \in Usage /\ SameStarts
  BY <1>0, <1>1, PersistWrites DEF Persist, WritesMem, SameStarts
<1>3. seen' \in History
  <2> DEFINE i == IF seen.read THEN 0 ELSE seen.idle
  <2>1. i \in Nat /\ seen' = [seen EXCEPT !.idle = i, !.read = TRUE]
    BY <1>0 DEF SeenGate, History
  <2> HIDE DEF i
  <2> QED
    BY <1>0, <2>1 DEF History
<1>4. pc' \in WorkPlace /\ pc' \in Place
  BY <1>1 DEF Answers, WorkPlace, Place, TopOfLoop
<1> QED
  BY <1>0, <1>1, <1>2, <1>3, <1>4 DEF RoundLoopTypeOK, Reads, GoesOn

\* The three readings.
LEMMA GateReads ==
  ASSUME RoundLoopTypeOK,
         \/ \E c \in {"absent", "low", "high"}, late \in BOOLEAN :
              ReadGreen(c, late) \/ AskConfidence(c, late)
         \/ \E sig \in Signature \cup {None}, late \in BOOLEAN : ReadRed(sig, late)
  PROVE  RoundLoopTypeOK' /\ Reads
<1> DEFINE g == GateObserved(mem)
<1>0. mem \in DriverState /\ mem.ls \in LoopState
  BY DEF RoundLoopTypeOK, DriverState
<1>1. /\ g \in DriverState /\ g.round = mem.round /\ g.ls = mem.ls /\ g.infra = mem.infra
      /\ g.stalled = IF mem.survives THEN mem.stalled ELSE 0
  BY <1>0, GateObservedKeeps
<1>2. ASSUME NEW c \in {"absent", "low", "high"}, NEW late \in BOOLEAN, ReadGreen(c, late)
      PROVE  RoundLoopTypeOK' /\ Reads
  <2> DEFINE m == [g EXCEPT !.conflict = FALSE, !.red = FALSE]
             result == WithinBudget(late, m.ls, AssessGreen(m.ls, m.round, c))
  <2>1. /\ Running /\ pc # "pause" /\ Decided(m, result) /\ Persist(mem')
        /\ seen' = SeenGate /\ UNCHANGED <<disk, forge>>
    BY <1>2 DEF ReadGreen, Running
  <2> HIDE DEF g
  <2>2. m \in DriverState
    BY <1>1 DEF DriverState
  <2>3. m.round = g.round /\ m.ls = g.ls /\ m.infra = g.infra /\ m.stalled = g.stalled
        /\ m.round \in Nat
    BY <1>1 DEF DriverState
  <2> HIDE DEF m
  <2>4. Answers(result, m.ls)
    BY <1>0, <1>1, <2>3, GreenAnswers
  <2> HIDE DEF result
  <2> QED
    BY <1>1, <2>1, <2>2, <2>3, <2>4, DecidedReads
<1>3. ASSUME NEW c \in {"absent", "low", "high"}, NEW late \in BOOLEAN, AskConfidence(c, late)
      PROVE  RoundLoopTypeOK' /\ Reads
  <2> DEFINE s == RecordDeveloperAttempt(g.ls)
             m == [g EXCEPT !.ls = s, !.red = FALSE]
             result == WithinBudget(late, m.ls, AssessGreen(m.ls, m.round, c))
  <2>1. /\ Running /\ pc # "pause" /\ Decided(m, result) /\ Persist(mem')
        /\ seen' = SeenGate /\ UNCHANGED <<disk, forge>>
    BY <1>3 DEF AskConfidence, Running
  <2> HIDE DEF g
  <2>2. s \in LoopState /\ s.lastBlockingFindings = mem.ls.lastBlockingFindings
    BY <1>0, <1>1, AttemptKeeps
  <2> HIDE DEF s
  <2>3. m \in DriverState
    BY <1>1, <2>2 DEF DriverState
  <2>4. m.round = g.round /\ m.ls = s /\ m.infra = g.infra /\ m.stalled = g.stalled
        /\ m.round \in Nat
    BY <1>1 DEF DriverState
  <2> HIDE DEF m
  <2>5. Answers(result, m.ls)
    BY <2>2, <2>4, GreenAnswers
  <2> HIDE DEF result
  <2> QED
    BY <1>1, <2>1, <2>2, <2>3, <2>4, <2>5, DecidedReads
<1>4. ASSUME NEW sig \in Signature \cup {None}, NEW late \in BOOLEAN, ReadRed(sig, late)
      PROVE  RoundLoopTypeOK' /\ Reads
  <2> DEFINE m == [g EXCEPT !.conflict = FALSE, !.red = TRUE]
             result == WithinBudget(late, m.ls, AssessRed(m.ls, sig))
  <2>1. /\ Running /\ pc # "pause" /\ Decided(m, result) /\ Persist(mem')
        /\ seen' = SeenGate /\ UNCHANGED <<disk, forge>>
    BY <1>4 DEF ReadRed, Running
  <2> HIDE DEF g
  <2>2. m \in DriverState
    BY <1>1 DEF DriverState
  <2>3. m.round = g.round /\ m.ls = g.ls /\ m.infra = g.infra /\ m.stalled = g.stalled
    BY <1>1 DEF DriverState
  <2> HIDE DEF m
  <2>4. Answers(result, m.ls)
    BY <1>0, <1>1, <2>3, RedAnswers
  <2> HIDE DEF result
  <2> QED
    BY <1>1, <2>1, <2>2, <2>3, <2>4, DecidedReads
<1> QED
  BY <1>2, <1>3, <1>4

\* An idle turn is counted in memory and on record.
LEMMA StallStalls ==
  ASSUME RoundLoopTypeOK,
         NEW sig \in Signature \cup {None}, NEW late \in BOOLEAN, Stall(sig, late)
  PROVE  RoundLoopTypeOK' /\ Stalls
<1> DEFINE c == mem.stalled + 1
           m == [mem EXCEPT !.stalled = c, !.before = None]
           result == IF sig = None THEN Go("dispatch_developer", m.ls)
                     ELSE WithinBudget(late, m.ls, AssessMechanicalFailure(m.ls, sig))
           n == [m EXCEPT !.ls = result.state]
<1>0. /\ mem \in DriverState /\ mem.ls \in LoopState /\ used \in Usage /\ mem.infra \in Nat
      /\ seen \in History /\ c \in Nat
  BY DEF RoundLoopTypeOK, DriverState
<1>1. /\ pc = "idle" /\ UNCHANGED <<disk, forge>> /\ seen' = [seen EXCEPT !.idle = @ + 1]
      /\ \/ result.type = "pause" /\ Decided(m, result) /\ PersistAs(mem', used)
         \/ /\ m.stalled < MaxStalled
            /\ Becomes("dispatch_developer", n) /\ PersistAs(m, used)
         \/ PausesFor("infrastructure", Spent(n)) /\ PersistAs(m, used)
  BY DEF Stall, Persist
<1> HIDE DEF c
<1>2. m \in DriverState
  BY <1>0 DEF DriverState
<1>3. /\ m.round = mem.round /\ m.ls = mem.ls /\ m.infra = mem.infra
      /\ m.stalled = c /\ m.survives = mem.survives
  BY <1>0 DEF DriverState
<1> HIDE DEF m
<1>4. Answers(result, mem.ls)
  BY <1>0, <1>3, GoAnswers, MechanicalAnswers
<1> HIDE DEF result
<1>5. n \in DriverState
  BY <1>2, <1>4 DEF Answers, DriverState
<1>6. /\ n.round = mem.round /\ n.infra = mem.infra /\ n.stalled = c
      /\ n.ls = result.state /\ n.survives = mem.survives
  BY <1>2, <1>3 DEF DriverState
<1> HIDE DEF n
<1>7. seen' \in History
  <2> DEFINE i == seen.idle + 1
  <2>1. i \in Nat /\ seen' = [seen EXCEPT !.idle = i]
    BY <1>0, <1>1 DEF History
  <2> HIDE DEF i
  <2> QED
    BY <1>0, <2>1 DEF History
<1>8. CASE result.type = "pause" /\ Decided(m, result) /\ PersistAs(mem', used)
  <2>1. /\ pc' = "pause" /\ mem' \in DriverState /\ SameRound /\ mem'.stalled = c
        /\ mem'.infra = mem.infra /\ mem'.reason \in Reason \ Automatic
    BY <1>2, <1>3, <1>4, <1>8, DecidedKeeps DEF Answers, SameRound
  <2>2. WritesMem /\ store' \in LoopRecord \cup {None} /\ used' \in Usage /\ SameStarts
    BY <1>0, <1>8, <2>1, PersistWrites DEF WritesMem, SameStarts
  <2> QED
    BY <1>0, <1>1, <1>7, <2>1, <2>2 DEF c, RoundLoopTypeOK, Stalls, WritesMem, GoesOn, Running,
       Place, WorkPlace
<1>9. CASE /\ m.stalled < MaxStalled
           /\ Becomes("dispatch_developer", n) /\ PersistAs(m, used)
  <2>1. /\ pc' = "dispatch_developer" /\ mem' \in DriverState /\ SameRound /\ mem'.stalled = c
        /\ mem'.infra = mem.infra /\ mem'.survives = mem.survives /\ c < MaxStalled
    BY <1>3, <1>4, <1>5, <1>6, <1>9 DEF Becomes, Answers, SameRound
  <2>2. Writes(mem'.round, mem'.stalled, mem.infra, mem'.ls.lastBlockingFindings)
        /\ store' \in LoopRecord \cup {None} /\ used' \in Usage /\ SameStarts
    BY <1>0, <1>2, <1>3, <1>9, <2>1, PersistWrites DEF SameStarts, SameRound
  <2> QED
    BY <1>0, <1>1, <1>7, <2>1, <2>2 DEF c, RoundLoopTypeOK, Stalls, GoesOn, Running,
       Place, TopOfLoop, WorkPlace
<1>10. CASE PausesFor("infrastructure", Spent(n)) /\ PersistAs(m, used)
  <2>1. "infrastructure" \in Reason
    BY DEF Reason, Automatic
  <2>2. /\ pc' = "pause" /\ mem' \in DriverState /\ SameRound /\ mem'.stalled = c
        /\ mem'.infra >= mem.infra /\ mem'.reason \in Reason
        /\ mem'.infra >= MaxInfra \/ mem'.infra = mem.infra + 1
    BY <1>0, <1>4, <1>5, <1>6, <1>10, <2>1, SpentKeeps, PauseKeeps DEF SameRound, Answers
  <2>3. Writes(mem'.round, mem'.stalled, mem.infra, mem'.ls.lastBlockingFindings)
        /\ store' \in LoopRecord \cup {None} /\ used' \in Usage /\ SameStarts
    BY <1>0, <1>2, <1>3, <1>10, <2>2, PersistWrites DEF SameStarts, SameRound
  <2> QED
    BY <1>0, <1>1, <1>7, <2>2, <2>3 DEF c, RoundLoopTypeOK, Stalls, GoesOn, Running,
       Place, WorkPlace
<1> QED
  BY <1>1, <1>8, <1>9, <1>10

\* The next round begins with nothing judged.
LEMMA NextRoundKeeps ==
  ASSUME NEW m \in DriverState
  PROVE  /\ NextRound(m) \in DriverState /\ NextRound(m).round = m.round + 1
         /\ NextRound(m).ls = m.ls /\ NextRound(m).stalled = m.stalled
         /\ NextRound(m).infra = m.infra /\ NextRound(m).survives = m.survives
<1> DEFINE r == m.round + 1
<1>1. r \in Nat /\ NextRound(m) = [m EXCEPT !.round = r, !.reran = FALSE, !.judged = None,
                                            !.liveHead = None]
  BY DEF NextRound, DriverState
<1> HIDE DEF r
<1>2. NextRound(m) \in DriverState
  BY <1>1 DEF DriverState
<1>3. /\ NextRound(m).round = r /\ NextRound(m).ls = m.ls /\ NextRound(m).stalled = m.stalled
      /\ NextRound(m).infra = m.infra /\ NextRound(m).survives = m.survives
  BY <1>1 DEF DriverState
<1> QED
  BY <1>2, <1>3 DEF r

\* The history of an assessed round has its type.
LEMMA SeenRoundType ==
  ASSUME RoundLoopTypeOK, NEW m \in DriverState
  PROVE  SeenRound(m) \in History
<1>1. m.ls \in LoopState /\ m.round \in Nat /\ seen \in History
  BY DEF RoundLoopTypeOK, DriverState
<1>2. m.ls.lastBlockingFindings \in SUBSET Key
  BY <1>1 DEF LoopState
<1> QED
  BY <1>1, <1>2 DEF SeenRound, History

\* The verdicts the driver holds are a pair's merged verdicts.
LEMMA HeldVerdict ==
  ASSUME RoundLoopTypeOK, ApprovalInv, pc = "held"
  PROVE  mem.verdict \in MergedVerdict /\ mem.judged \in Judgement
BY LoopAssumption DEF ApprovalInv

\* A round that is assessed without an approval.
LEMMA AssessReviewEnds ==
  ASSUME RoundLoopTypeOK, ApprovalInv, AssessReview
  PROVE  RoundLoopTypeOK' /\ EndsRound
<1> DEFINE result == AssessVerdicts(mem.ls, mem.round, mem.verdict)
           m == [mem EXCEPT !.verdict = None]
           d == IF result.type = "pause" THEN m ELSE NextRound(m)
<1>0. /\ mem \in DriverState /\ mem.ls \in LoopState /\ used \in Usage /\ mem.infra \in Nat
      /\ seen \in History /\ mem.round \in Nat
  BY DEF RoundLoopTypeOK, DriverState
<1>1. /\ pc = "held" /\ result.type # "publish" /\ Decided(d, result) /\ PersistAs(mem', used)
      /\ seen' = SeenRound(mem') /\ UNCHANGED <<disk, forge>>
  BY DEF AssessReview, Persist
<1>2. mem.verdict \in MergedVerdict
  BY <1>1, HeldVerdict
<1>3. /\ result.type \in {"dispatch_developer", "pause"}
      /\ result.type = "pause" => result.reason \in Reason \ Automatic
      /\ result.state \in LoopState
      /\ result.type = "dispatch_developer" => mem.round < MaxRounds
  BY <1>0, <1>1, <1>2, VerdictsAnswer
<1> HIDE DEF result
<1>4. m \in DriverState
  BY <1>0 DEF DriverState
<1>5. /\ m.round = mem.round /\ m.infra = mem.infra
      /\ m.stalled = mem.stalled /\ m.survives = mem.survives
  BY <1>0 DEF DriverState
<1> HIDE DEF m
<1>6. /\ d \in DriverState /\ d.infra = mem.infra
      /\ d.stalled = mem.stalled /\ d.survives = mem.survives
      /\ d.round = mem.round \/ (d.round = mem.round + 1 /\ mem.round < MaxRounds)
  BY <1>0, <1>3, <1>4, <1>5, NextRoundKeeps
<1> HIDE DEF d
<1>7. /\ pc' = result.type /\ mem' \in DriverState /\ mem'.infra = mem.infra
      /\ mem'.round = d.round /\ SameStall
      /\ pc' = "pause" => mem'.reason \in Reason \ Automatic
  BY <1>1, <1>3, <1>6, DecidedKeeps DEF TopOfLoop, SameStall
<1>8. WritesMem /\ store' \in LoopRecord \cup {None} /\ used' \in Usage /\ SameStarts
  BY <1>0, <1>1, <1>7, PersistWrites DEF WritesMem, SameStarts
<1>9. seen' \in History
  BY <1>1, <1>7, SeenRoundType
<1> QED
  BY <1>0, <1>1, <1>3, <1>6, <1>7, <1>8, <1>9 DEF RoundLoopTypeOK, EndsRound, GoesOn, Running,
     Place, TopOfLoop, WorkPlace

\* An approval that is withdrawn.
LEMMA WithdrawEnds ==
  ASSUME RoundLoopTypeOK, pc \in {"held", "publish"},
         NEW m \in DriverState, m.round = mem.round, m.infra = mem.infra,
         m.stalled = mem.stalled, m.survives = mem.survives, Withdraw(m)
  PROVE  RoundLoopTypeOK' /\ EndsRound
<1>0. /\ mem \in DriverState /\ used \in Usage /\ mem.infra \in Nat
      /\ seen \in History /\ mem.round \in Nat /\ disk \in RunFolder
  BY DEF RoundLoopTypeOK, DriverState
<1>1. "max_rounds" \in Reason \ Automatic
  BY DEF Reason, Automatic
<1>2. /\ mem' \in DriverState /\ mem'.infra = mem.infra /\ SameStall
      /\ mem'.round = mem.round \/ (mem'.round = mem.round + 1 /\ mem.round < MaxRounds)
      /\ \/ pc' = "pause" /\ mem'.reason = "max_rounds"
         \/ pc' = "dispatch_developer"
  <2>1. CASE AtCap
    BY <1>0, <1>1, <2>1, PauseKeeps DEF Withdraw, SameStall
  <2>2. CASE ~AtCap
    <3>1. mem.round < MaxRounds
      BY <1>0, <2>2, PolicyAssumption DEF AtCap
    <3>2. pc' = "dispatch_developer" /\ mem' = NextRound(m)
      BY <2>2 DEF Withdraw, Becomes
    <3> QED
      BY <3>1, <3>2, NextRoundKeeps DEF SameStall
  <2> QED
    BY <2>1, <2>2
<1>3. WritesMem /\ store' \in LoopRecord \cup {None} /\ used' \in Usage /\ SameStarts
  BY <1>0, <1>2, PersistWrites DEF Withdraw, Persist, WritesMem, SameStarts
<1>4. seen' = SeenRound(mem') /\ seen' \in History
  BY <1>2, SeenRoundType DEF Withdraw
<1>5. disk' \in RunFolder /\ disk'.held \subseteq disk.held /\ disk'.pause = disk.pause
  BY <1>0 DEF Withdraw, Discarded, RunFolder
<1>6. pc' \in Place /\ pc' \in WorkPlace /\ Running /\ pc # "pause"
  BY <1>2 DEF Place, TopOfLoop, WorkPlace, Running
<1> QED
  BY <1>0, <1>1, <1>2, <1>3, <1>4, <1>5, <1>6 DEF Withdraw, RoundLoopTypeOK, EndsRound, GoesOn

\* The two ways an approval's live check fails.
LEMMA LiveFailedEnds ==
  ASSUME RoundLoopTypeOK, ApprovalInv, LiveFailed \/ CarriedLiveFailed
  PROVE  RoundLoopTypeOK' /\ EndsRound
<1>0. mem \in DriverState /\ mem.ls \in LoopState /\ mem.round \in Nat
  BY DEF RoundLoopTypeOK, DriverState
<1>1. CASE LiveFailed
  <2> DEFINE s == AssessVerdicts(mem.ls, mem.round, mem.verdict).state
             h == mem.judged.head
             m == [mem EXCEPT !.ls = s, !.verdict = None, !.liveHead = h]
  <2>1. pc = "held" /\ Withdraw(m)
    BY <1>1 DEF LiveFailed
  <2>2. mem.verdict \in MergedVerdict /\ h \in Head
    BY <2>1, HeldVerdict DEF Judgement
  <2>3. s \in LoopState
    BY <1>0, <2>2, VerdictsAnswer
  <2> HIDE DEF s, h
  <2>4. m \in DriverState
    BY <1>0, <2>2, <2>3 DEF DriverState
  <2>5. /\ m.round = mem.round /\ m.infra = mem.infra
        /\ m.stalled = mem.stalled /\ m.survives = mem.survives
    BY <1>0 DEF DriverState
  <2> HIDE DEF m
  <2> QED
    BY <2>1, <2>4, <2>5, WithdrawEnds
<1>2. CASE CarriedLiveFailed
  BY <1>0, <1>2, WithdrawEnds DEF CarriedLiveFailed
<1> QED
  BY <1>1, <1>2

\* The steps of a review, from its marker to a checked approval.
Reviews ==
  /\ pc \in {"dispatch_reviewers", "reviewing", "held", "publish"}
  /\ pc' \in {"reviewing", "held", "publish"}
  /\ mem'.round = mem.round /\ mem'.infra = mem.infra /\ SameStall /\ SameStarts
  /\ forge'.ordinal = forge.ordinal /\ forge'.published = forge.published
  /\ forge'.marks = forge.marks \cup {mem.round}
  /\ \A h \in disk'.held : h \in disk.held \/ h.round = mem.round
  /\ disk'.pause = disk.pause
  /\ seen'.idle = seen.idle /\ seen'.read = seen.read /\ seen'.bare = seen.bare
  /\ seen'.reached \in {seen.reached, mem.round}
  /\ \/ /\ KeepsRecord \/ WritesMem
        /\ seen'.blocking = seen.blocking
        /\ mem'.ls.lastBlockingFindings = mem.ls.lastBlockingFindings
     \/ WritesMem /\ seen'.blocking = mem'.ls.lastBlockingFindings
  /\ ApprovalInv'

\* Nothing is published while a driver runs, or may run again.
LEMMA NotPublished ==
  ASSUME ApprovalInv, pc # "published"
  PROVE  forge.published = None
BY DEF ApprovalInv

\* The review begins.
LEMMA StartReviewReviews ==
  ASSUME RoundLoopTypeOK, ApprovalInv, StartReview
  PROVE  RoundLoopTypeOK' /\ Reviews
<1> DEFINE j == [head |-> forge.head, ordinal |-> forge.ordinal]
<1>0. mem \in DriverState /\ forge \in PullRequest /\ mem.round \in Nat /\ j \in Judgement
  BY DEF RoundLoopTypeOK, DriverState, PullRequest, Judgement
<1>1. /\ pc = "dispatch_reviewers" /\ pc' = "reviewing"
      /\ mem' = [mem EXCEPT !.conflict = FALSE, !.judged = j]
      /\ forge' = [forge EXCEPT !.marks = @ \cup {mem.round}]
      /\ UNCHANGED <<store, used, disk, seen>>
  BY DEF StartReview, Becomes, NotPersisted
<1> HIDE DEF j
<1>2. mem' \in DriverState
  BY <1>0, <1>1 DEF DriverState
<1>3. /\ mem'.round = mem.round /\ mem'.ls = mem.ls /\ mem'.infra = mem.infra
      /\ mem'.stalled = mem.stalled /\ mem'.survives = mem.survives /\ mem'.judged = j
  BY <1>0, <1>1 DEF DriverState
<1>4. /\ forge' \in PullRequest /\ forge'.marks = forge.marks \cup {mem.round}
      /\ forge'.ordinal = forge.ordinal /\ forge'.published = forge.published
  BY <1>0, <1>1 DEF PullRequest
<1>5. ApprovalInv'
  BY <1>0, <1>1, <1>3, <1>4, NotPublished DEF ApprovalInv
<1> QED
  BY <1>0, <1>1, <1>2, <1>3, <1>4, <1>5 DEF RoundLoopTypeOK, Place, TopOfLoop, Reviews,
     SameStall, SameStarts, KeepsRecord

\* Its verdicts are held.
LEMMA HoldVerdictsReviews ==
  ASSUME RoundLoopTypeOK, ApprovalInv, ReachedInv, NEW v \in Verdict, HoldVerdicts(v)
  PROVE  RoundLoopTypeOK' /\ Reviews
<1> DEFINE g == [round |-> mem.round, head |-> mem.judged.head,
                 ordinal |-> mem.judged.ordinal, clean |-> v.verdict = "clean"]
<1>0. /\ mem \in DriverState /\ disk \in RunFolder /\ used \in Usage /\ mem.round \in Nat
      /\ mem.judged \in Judgement /\ mem.round \in forge.marks
  BY DEF RoundLoopTypeOK, DriverState, HoldVerdicts, ApprovalInv, ReachedInv
<1>1. /\ pc = "reviewing" /\ pc' = "held" /\ mem' = [mem EXCEPT !.verdict = v]
      /\ disk' = [disk EXCEPT !.held = {h \in @ : h.round # mem.round} \cup {g}]
      /\ PersistAs(mem', used) /\ UNCHANGED <<forge, seen>>
  BY DEF HoldVerdicts, Becomes, Persist
<1>2. /\ g \in HeldPair /\ g.round = mem.round /\ g.head = mem.judged.head
      /\ g.clean = (v.verdict = "clean")
  BY <1>0 DEF HeldPair, Judgement
<1> HIDE DEF g
<1>3. mem' \in DriverState
  BY <1>0, <1>1 DEF DriverState
<1>4. /\ mem'.round = mem.round /\ mem'.ls = mem.ls /\ mem'.infra = mem.infra
      /\ mem'.stalled = mem.stalled /\ mem'.survives = mem.survives
      /\ mem'.judged = mem.judged /\ mem'.verdict = v
  BY <1>0, <1>1 DEF DriverState
<1>5. disk' \in RunFolder /\ disk'.pause = disk.pause
      /\ disk'.held = {h \in disk.held : h.round # mem.round} \cup {g}
  BY <1>0, <1>1, <1>2 DEF RunFolder
<1>6. WritesMem /\ store' \in LoopRecord \cup {None} /\ used' \in Usage /\ SameStarts
  BY <1>0, <1>1, <1>3, PersistWrites DEF WritesMem, SameStarts
<1>7. ApprovalInv'
  BY <1>0, <1>1, <1>2, <1>4, <1>5, NotPublished DEF ApprovalInv
<1>8. \A h \in disk'.held : h \in disk.held \/ h.round = mem.round
  BY <1>2, <1>5
<1>9. forge'.marks = forge.marks \cup {mem.round}
  BY <1>0, <1>1
<1> QED
  BY <1>0, <1>1, <1>3, <1>4, <1>5, <1>6, <1>7, <1>8, <1>9 DEF RoundLoopTypeOK, Place, TopOfLoop,
     Reviews, SameStall

\* The approval's live check passes, right after it was given or by the driver
\* that carries it.
LEMMA LivePassedReviews ==
  ASSUME RoundLoopTypeOK, ApprovalInv, ReachedInv, LivePassed \/ CarriedLivePassed
  PROVE  RoundLoopTypeOK' /\ Reviews
<1> DEFINE h == mem.judged.head
<1>0. /\ mem \in DriverState /\ used \in Usage /\ mem.round \in Nat /\ seen \in History
      /\ mem.ls \in LoopState
  BY DEF RoundLoopTypeOK, DriverState
<1>1. CASE LivePassed
  <2> DEFINE result == AssessVerdicts(mem.ls, mem.round, mem.verdict)
             s == result.state
             p == SeenRound(mem')
  <2>1. /\ pc = "held" /\ pc' = "publish" /\ result.type = "publish"
        /\ mem' = [mem EXCEPT !.ls = s, !.verdict = None, !.liveHead = h]
        /\ PersistAs(mem', used) /\ UNCHANGED <<disk, forge>>
        /\ seen' = [p EXCEPT !.cleared = @ \cup {h}]
    BY <1>1 DEF LivePassed, Becomes, Persist
  <2>2. mem.verdict \in MergedVerdict /\ h \in Head /\ mem.judged \in Judgement
    BY <2>1, HeldVerdict DEF Judgement
  <2>3. s \in LoopState /\ mem.verdict.verdict = "clean"
    BY <1>0, <2>1, <2>2, VerdictsAnswer
  <2> HIDE DEF result, s, h
  <2>4. mem' \in DriverState
    BY <1>0, <2>1, <2>2, <2>3 DEF DriverState
  <2>5. /\ mem'.round = mem.round /\ mem'.infra = mem.infra /\ mem'.judged = mem.judged
        /\ mem'.stalled = mem.stalled /\ mem'.survives = mem.survives /\ mem'.liveHead = h
    BY <1>0, <2>1 DEF DriverState
  <2>6. /\ p \in History /\ p.reached = mem.round
        /\ p.blocking = mem'.ls.lastBlockingFindings /\ p.idle = seen.idle
        /\ p.read = seen.read /\ p.bare = seen.bare /\ p.cleared = seen.cleared
    BY <1>0, <2>4, <2>5, SeenRoundType DEF SeenRound, History
  <2> HIDE DEF p
  <2>7. /\ seen' \in History /\ seen'.reached = mem.round
        /\ seen'.blocking = mem'.ls.lastBlockingFindings /\ seen'.idle = seen.idle
        /\ seen'.read = seen.read /\ seen'.bare = seen.bare
        /\ seen'.cleared = seen.cleared \cup {h}
    BY <2>1, <2>2, <2>6 DEF History
  <2>8. WritesMem /\ store' \in LoopRecord \cup {None} /\ used' \in Usage /\ SameStarts
    BY <1>0, <2>1, <2>4, PersistWrites DEF WritesMem, SameStarts
  <2>9. mem.round \in forge.marks /\ \E g \in disk.held : g.clean /\ g.head = mem.judged.head
    BY <2>1, <2>3 DEF ReachedInv, ApprovalInv
  <2>10. ApprovalInv'
    BY <2>1, <2>2, <2>5, <2>7, <2>9, NotPublished DEF ApprovalInv, h
  <2>11. forge'.marks = forge.marks \cup {mem.round}
    BY <2>1, <2>9
  <2> QED
    BY <1>0, <2>1, <2>4, <2>5, <2>7, <2>8, <2>10, <2>11 DEF RoundLoopTypeOK, Place, TopOfLoop,
       Reviews, SameStall
<1>2. CASE CarriedLivePassed
  <2>1. /\ pc = "publish" /\ pc' = "publish" /\ mem' = [mem EXCEPT !.liveHead = h]
        /\ seen' = [seen EXCEPT !.cleared = @ \cup {h}]
        /\ UNCHANGED <<store, used, disk, forge>>
    BY <1>2 DEF CarriedLivePassed, Becomes, NotPersisted
  <2>2. /\ h \in Head /\ mem.judged \in Judgement /\ mem.round \in forge.marks
        /\ \E g \in disk.held : g.clean /\ g.head = mem.judged.head
    BY <2>1 DEF ReachedInv, ApprovalInv, Judgement
  <2> HIDE DEF h
  <2>4. mem' \in DriverState
    BY <1>0, <2>1, <2>2 DEF DriverState
  <2>5. /\ mem'.round = mem.round /\ mem'.infra = mem.infra /\ mem'.judged = mem.judged
        /\ mem'.stalled = mem.stalled /\ mem'.survives = mem.survives /\ mem'.liveHead = h
        /\ mem'.ls = mem.ls
    BY <1>0, <2>1 DEF DriverState
  <2>7. /\ seen' \in History /\ seen'.reached = seen.reached
        /\ seen'.blocking = seen.blocking /\ seen'.idle = seen.idle
        /\ seen'.read = seen.read /\ seen'.bare = seen.bare
        /\ seen'.cleared = seen.cleared \cup {h}
    BY <1>0, <2>1, <2>2 DEF History
  <2>10. ApprovalInv'
    BY <2>1, <2>2, <2>5, <2>7, NotPublished DEF ApprovalInv, h
  <2>11. forge'.marks = forge.marks \cup {mem.round}
    BY <2>1, <2>2
  <2> QED
    BY <1>0, <2>1, <2>4, <2>5, <2>7, <2>10, <2>11 DEF RoundLoopTypeOK, Place, TopOfLoop,
       Reviews, SameStall, SameStarts, KeepsRecord
<1> QED
  BY <1>1, <1>2

\* The publication of a checked approval.
Publishes ==
  /\ pc = "publish" /\ pc' = "published"
  /\ mem.liveHead = mem.judged.head
  /\ forge'.published = mem.judged.head
  /\ forge'.ordinal = forge.ordinal /\ forge'.marks = forge.marks
  /\ Writes(mem.round, mem.stalled, mem.infra, mem.ls.lastBlockingFindings)
  /\ mem'.round = 1
  /\ SameStarts /\ disk' = disk /\ seen' = seen

\* The step that publishes.
LEMMA PublishRoundPublishes ==
  ASSUME RoundLoopTypeOK, ApprovalInv, PublishRound
  PROVE  RoundLoopTypeOK' /\ Publishes
<1> DEFINE h == mem.judged.head
<1>0. /\ mem \in DriverState /\ used \in Usage /\ forge \in PullRequest
  BY DEF RoundLoopTypeOK
<1>1. /\ pc = "publish" /\ pc' = "published" /\ mem' = NoDriver /\ mem.liveHead = h
      /\ forge' = [forge EXCEPT !.published = h]
      /\ PersistAs(mem, used) /\ UNCHANGED <<disk, seen>>
  BY DEF PublishRound, Becomes, Persist
<1>2. h \in Head
  BY <1>1 DEF ApprovalInv, Judgement
<1>3. mem' \in DriverState /\ mem'.round = 1
  BY <1>1, NoDriverType
<1>4. /\ Writes(mem.round, mem.stalled, mem.infra, mem.ls.lastBlockingFindings)
      /\ store' \in LoopRecord \cup {None} /\ used' \in Usage /\ SameStarts
  BY <1>0, <1>1, PersistWrites DEF SameStarts
<1> HIDE DEF h
<1>5. /\ forge' \in PullRequest /\ forge'.published = h /\ forge'.ordinal = forge.ordinal
      /\ forge'.marks = forge.marks
  BY <1>0, <1>1, <1>2 DEF PullRequest
<1> QED
  BY <1>0, <1>1, <1>3, <1>4, <1>5 DEF RoundLoopTypeOK, Place, Publishes, h

\* A live driver comes to a stop whose record is written.
Pauses ==
  /\ Running /\ pc' = "paused"
  /\ disk'.held = disk.held /\ disk'.pause \in PauseState
  /\ disk'.pause.round = mem.round /\ disk'.pause.infra >= mem.infra
  /\ disk'.pause.reason \in Automatic =>
       \/ disk'.pause.infra >= MaxInfra
       \/ disk'.pause.infra = mem.infra + 1
       \/ pc = "pause" /\ mem.reason \in Automatic
  /\ Writes(mem.round, mem.stalled, disk'.pause.infra, mem.ls.lastBlockingFindings)
  /\ mem'.round = 1
  /\ SameStarts /\ forge' = forge /\ seen' = seen

\* A pause, and the outer catch.
LEMMA WritePausePauses ==
  ASSUME RoundLoopTypeOK, ApprovalInv, WritePause \/ Crash
  PROVE  RoundLoopTypeOK' /\ Pauses
<1>0. /\ mem \in DriverState /\ used \in Usage /\ disk \in RunFolder /\ forge.head \in Head
      /\ mem.infra \in Nat
  BY DEF RoundLoopTypeOK, PullRequest, DriverState
<1>1. ASSUME NEW m \in DriverState, NEW why \in Reason
      PROVE  /\ PauseRecord(m, why) \in PauseState /\ PauseRecord(m, why).round = m.round
             /\ PauseRecord(m, why).infra = m.infra /\ PauseRecord(m, why).reason = why
  BY <1>0, <1>1 DEF PauseRecord, PauseState, DriverState
<1>2. CASE WritePause
  <2>1. pc = "pause" /\ mem.reason \in Reason
    BY <1>2 DEF WritePause, ApprovalInv
  <2>2. /\ disk' \in RunFolder /\ disk'.pause = PauseRecord(mem, mem.reason)
        /\ disk'.held = disk.held
    BY <1>0, <1>1, <1>2, <2>1 DEF WritePause, RunFolder
  <2>3. /\ Writes(mem.round, mem.stalled, mem.infra, mem.ls.lastBlockingFindings)
        /\ store' \in LoopRecord \cup {None} /\ used' \in Usage /\ SameStarts
    BY <1>0, <1>2, PersistWrites DEF WritePause, Persist, SameStarts
  <2> QED
    BY <1>0, <1>1, <1>2, <2>1, <2>2, <2>3, NoDriverType DEF WritePause, Becomes,
       RoundLoopTypeOK, Place, Pauses, Running
<1>3. CASE Crash
  <2> DEFINE m == Spent(mem)
  <2>1. /\ m \in DriverState /\ m.round = mem.round /\ m.stalled = mem.stalled
        /\ m.infra \in Nat /\ m.infra >= mem.infra /\ m.ls = mem.ls
        /\ m.infra >= MaxInfra \/ m.infra = mem.infra + 1
    BY <1>0, SpentKeeps
  <2>2. "infrastructure" \in Reason
    BY DEF Reason, Automatic
  <2> HIDE DEF m
  <2>3. /\ disk' \in RunFolder /\ disk'.pause = PauseRecord(m, "infrastructure")
        /\ disk'.held = disk.held
    BY <1>0, <1>1, <1>3, <2>1, <2>2 DEF Crash, RunFolder, m
  <2>4. /\ Writes(mem.round, mem.stalled, m.infra, mem.ls.lastBlockingFindings)
        /\ store' \in LoopRecord \cup {None} /\ used' \in Usage /\ SameStarts
    BY <1>0, <1>3, <2>1, CountedType, PersistWrites DEF Crash, SameStarts, m
  <2> QED
    BY <1>0, <1>1, <1>3, <2>1, <2>2, <2>3, <2>4, NoDriverType DEF Crash, Becomes,
       RoundLoopTypeOK, Place, Pauses
<1> QED
  BY <1>2, <1>3

\* A driver dies.
Dies ==
  /\ Running /\ pc' = "down" /\ mem'.round = 1
  /\ KeepsRecord /\ SameStarts /\ disk' = disk /\ forge' = forge /\ seen' = seen

\* The step that kills it.
LEMMA KillDies ==
  ASSUME RoundLoopTypeOK, Kill
  PROVE  RoundLoopTypeOK' /\ Dies
BY CountedType, NoDriverType DEF Kill, Becomes, RoundLoopTypeOK, Place, Dies, KeepsRecord,
   SameStarts

\* The branch, its base or the Principal moves.
WorldMoves ==
  /\ UNCHANGED <<pc, mem, store, disk, seen>>
  /\ used'.lost = used.lost /\ SameStarts
  /\ forge'.marks = forge.marks /\ forge'.published = forge.published
  /\ forge'.ordinal >= forge.ordinal

\* The four moves of the world.
LEMMA WorldSteps ==
  ASSUME RoundLoopTypeOK, (\E b \in BOOLEAN : Push(b)) \/ Rebase \/ BaseMoves \/ Rule
  PROVE  RoundLoopTypeOK' /\ WorldMoves
<1>0. /\ forge \in PullRequest /\ forge.head \in Head /\ forge.clash \in BOOLEAN
      /\ forge.ordinal \in Nat /\ used \in Usage
  BY DEF RoundLoopTypeOK, PullRequest
<1>1. ASSUME NEW x \in Head, NEW c \in BOOLEAN, forge' = [forge EXCEPT !.head = x, !.clash = c]
      PROVE  /\ forge' \in PullRequest /\ forge'.marks = forge.marks
             /\ forge'.published = forge.published /\ forge'.ordinal = forge.ordinal
  BY <1>0, <1>1 DEF PullRequest
<1>2. ASSUME NEW b \in BOOLEAN, Push(b) PROVE RoundLoopTypeOK' /\ WorldMoves
  <2> DEFINE p == forge.head.patch + 1
             x == [patch |-> p, rev |-> forge.head.rev]
             c == forge.clash /\ ~b
  <2>1. /\ forge' = [forge EXCEPT !.head = x, !.clash = c]
        /\ UNCHANGED <<pc, mem, store, disk, used, seen>>
    BY <1>2 DEF Push
  <2>2. p \in Nat /\ c \in BOOLEAN
    BY <1>0 DEF Head
  <2> HIDE DEF p, c
  <2>3. x \in Head
    BY <1>0, <2>2 DEF Head
  <2> HIDE DEF x
  <2>4. /\ forge' \in PullRequest /\ forge'.marks = forge.marks
        /\ forge'.published = forge.published /\ forge'.ordinal = forge.ordinal
    BY <1>1, <2>1, <2>2, <2>3
  <2> QED
    BY <1>0, <2>1, <2>4 DEF RoundLoopTypeOK, WorldMoves, SameStarts
<1>3. CASE Rebase
  <2> DEFINE p == forge.head.rev + 1
             x == [patch |-> forge.head.patch, rev |-> p]
  <2>1. /\ forge' = [forge EXCEPT !.head = x, !.clash = FALSE]
        /\ UNCHANGED <<pc, mem, store, disk, seen>> /\ used' = Counted
    BY <1>3 DEF Rebase
  <2>2. p \in Nat
    BY <1>0 DEF Head
  <2> HIDE DEF p
  <2>3. x \in Head
    BY <1>0, <2>2 DEF Head
  <2> HIDE DEF x
  <2>4. /\ forge' \in PullRequest /\ forge'.marks = forge.marks
        /\ forge'.published = forge.published /\ forge'.ordinal = forge.ordinal
    BY <1>1, <2>1, <2>3
  <2> QED
    BY <1>0, <2>1, <2>4, CountedType DEF RoundLoopTypeOK, WorldMoves, SameStarts
<1>4. CASE BaseMoves
  <2>1. /\ forge' \in PullRequest /\ forge'.marks = forge.marks
        /\ forge'.published = forge.published /\ forge'.ordinal = forge.ordinal
    BY <1>0, <1>4 DEF BaseMoves, PullRequest
  <2> QED
    BY <1>0, <1>4, <2>1, CountedType DEF BaseMoves, RoundLoopTypeOK, WorldMoves, SameStarts
<1>5. CASE Rule
  <2> DEFINE o == forge.ordinal + 1
  <2>1. o \in Nat /\ o >= forge.ordinal /\ forge' = [forge EXCEPT !.ordinal = o]
    BY <1>0, <1>5 DEF Rule
  <2> HIDE DEF o
  <2>2. /\ forge' \in PullRequest /\ forge'.marks = forge.marks
        /\ forge'.published = forge.published /\ forge'.ordinal = o
    BY <1>0, <2>1 DEF PullRequest
  <2> QED
    BY <1>0, <1>5, <2>1, <2>2, CountedType DEF Rule, RoundLoopTypeOK, WorldMoves, SameStarts
<1> QED
  BY <1>2, <1>3, <1>4, <1>5

-----------------------------------------------------------------------------
\* The starts.

\* What the record of the control store gives back is well typed.
LEMMA StoredTypes ==
  ASSUME RoundLoopTypeOK
  PROVE  /\ StoredInfra \in Nat /\ StoredStalled \in Nat /\ StoredBlocking \in SUBSET Key
         /\ store # None => store \in LoopRecord /\ store.round \in Nat
BY DEF RoundLoopTypeOK, StoredInfra, StoredStalled, StoredBlocking, LoopRecord

\* What a start reads back: a fresh driver's variables and the record's.
LEMMA SeedKeeps ==
  ASSUME RoundLoopTypeOK, NEW m \in DriverState, m.stalled = 0,
         m.ls.lastBlockingFindings = {}
  PROVE  /\ Seed(m) \in DriverState
         /\ Seed(m).stalled = StoredStalled
         /\ StoredStalled > 0 => Seed(m).survives
         /\ Seed(m).ls.lastBlockingFindings = StoredBlocking
         /\ Seed(m).infra = Larger(StoredInfra, m.infra)
         /\ Seed(m).round = (IF store = None THEN m.round ELSE Larger(store.round, m.round))
         /\ Seed(m).liveHead = m.liveHead
<1>0. m.round \in Nat /\ m.infra \in Nat /\ m.ls \in LoopState
  BY DEF DriverState
<1>1. CASE store = None
  BY <1>0, <1>1 DEF Seed, StoredStalled, StoredBlocking, StoredInfra, Larger
<1>2. CASE store # None
  <2> DEFINE s == RepeatMemory(m.ls, store.blocking, store.failure)
             i == Larger(store.infra, m.infra)
             r == Larger(store.round, m.round)
             v == store.stalled > 0
  <2>1. /\ store \in LoopRecord /\ store.round \in Nat /\ store.stalled \in Nat
        /\ store.infra \in Nat /\ store.blocking \in SUBSET Key
        /\ store.failure \in LoopFailure \cup {None}
        /\ store.delivered \in [round : Nat, head : Head] \cup {None}
    BY <1>2 DEF RoundLoopTypeOK, LoopRecord
  <2>2. s \in LoopState /\ s.lastBlockingFindings = store.blocking
    BY <1>0, <2>1, RepeatMemoryType
  <2>3. i \in Nat /\ r \in Nat /\ v \in BOOLEAN
    BY <1>0, <2>1 DEF Larger
  <2>4. Seed(m) = [m EXCEPT !.ls = s, !.stalled = store.stalled, !.survives = v,
                            !.infra = i, !.delivered = store.delivered, !.round = r]
    BY <1>2 DEF Seed
  <2>5. v <=> store.stalled > 0
    OBVIOUS
  <2>6. i = Larger(StoredInfra, m.infra) /\ r = Larger(store.round, m.round)
    BY <1>2 DEF StoredInfra
  <2> HIDE DEF s, i, r, v
  <2>7. Seed(m) \in DriverState
    BY <2>1, <2>2, <2>3, <2>4 DEF DriverState
  <2>8. /\ Seed(m).stalled = store.stalled /\ Seed(m).ls = s
        /\ Seed(m).infra = i /\ Seed(m).round = r /\ Seed(m).liveHead = m.liveHead
    BY <2>4 DEF DriverState
  <2>9. Seed(m).survives = v
    BY <2>4 DEF DriverState
  <2> QED
    BY <1>2, <2>2, <2>5, <2>6, <2>7, <2>8, <2>9 DEF StoredStalled, StoredBlocking
<1> QED
  BY <1>1, <1>2

\* The history of a start: a resume begins a new stall episode, and a bare one is
\* counted.
LEMMA RestartedType ==
  ASSUME RoundLoopTypeOK
  PROVE  /\ Restarted \in History
         /\ Restarted.reached = seen.reached /\ Restarted.blocking = seen.blocking
         /\ Restarted.cleared = seen.cleared
         /\ Restarted.idle = (IF pc = "paused" THEN 0 ELSE seen.idle)
         /\ pc = "paused" \/ seen.idle = 0 => Restarted.read
         /\ Restarted.bare = (IF pc = "paused" /\ Bare THEN seen.bare + 1 ELSE seen.bare)
<1> DEFINE r == pc = "paused" \/ seen.idle = 0
           i == IF pc = "paused" THEN 0 ELSE seen.idle
           b == IF pc = "paused" /\ Bare THEN seen.bare + 1 ELSE seen.bare
<1>1. seen \in History /\ r \in BOOLEAN /\ i \in Nat /\ b \in Nat
  BY DEF RoundLoopTypeOK, History
<1>2. Restarted = [seen EXCEPT !.read = r, !.idle = i, !.bare = b]
  BY DEF Restarted
<1>3. r <=> pc = "paused" \/ seen.idle = 0
  OBVIOUS
<1> HIDE DEF r, i, b
<1>4. Restarted \in History
  BY <1>1, <1>2 DEF History
<1>5. /\ Restarted.reached = seen.reached /\ Restarted.blocking = seen.blocking
      /\ Restarted.cleared = seen.cleared /\ Restarted.idle = i /\ Restarted.bare = b
  BY <1>1, <1>2 DEF History
<1>6. Restarted.read = r
  BY <1>1, <1>2 DEF History
<1> QED
  BY <1>3, <1>4, <1>5, <1>6 DEF i, b

\* The cap on round numbers after a given number of attaches.
Cap(attaches) == Larger(MaxRounds, forge.ordinal) + Larger(attaches, 1)

\* Once a driver was started, another attach raises the cap by one.
LEMMA CapGrows ==
  ASSUME RoundLoopTypeOK
  PROVE  /\ used.attaches \in Nat /\ forge.ordinal \in Nat
         /\ Cap(used.attaches) \in Nat /\ Cap(used.attaches) >= 2
         /\ Cap(used.attaches) >= forge.ordinal + 1
         /\ Cap(used.attaches + 1) \in Nat
         /\ Cap(used.attaches + 1) >= Cap(used.attaches)
         /\ used.attaches # 0 => Cap(used.attaches + 1) = Cap(used.attaches) + 1
BY PolicyAssumption DEF RoundLoopTypeOK, Usage, PullRequest, Cap, Larger

\* An attach numbers its round past every marker on the pull request, and still
\* within the cap.
LEMMA RenumberedKeeps ==
  ASSUME RoundLoopTypeOK, NumberInv, NEW m \in DriverState,
         m.round + 1 <= Cap(used.attaches + 1)
  PROVE  /\ Renumbered(m) \in DriverState
         /\ Renumbered(m).round >= m.round
         /\ store # None => Renumbered(m).round >= store.round
         /\ \A k \in forge.marks : Renumbered(m).round >= k + 1
         /\ Renumbered(m).round + 1 <= Cap(used.attaches + 1)
         /\ Renumbered(m).stalled = m.stalled /\ Renumbered(m).infra = m.infra
         /\ Renumbered(m).ls = m.ls /\ Renumbered(m).liveHead = m.liveHead
         /\ Renumbered(m).survives = m.survives
<1> DEFINE r == IF forge.marks = {} THEN m.round ELSE Larger(m.round, Max(forge.marks) + 1)
           q == IF store = None THEN r ELSE Larger(r, store.round)
<1>0. /\ m.round \in Nat /\ forge.marks \in SUBSET Nat
      /\ store # None => store.round \in Nat /\ store.round + 1 <= Cap(used.attaches)
      /\ \A k \in forge.marks : k + 1 <= Cap(used.attaches)
      /\ forge.marks # {} => used.attaches # 0
  BY StoredTypes DEF RoundLoopTypeOK, DriverState, PullRequest, NumberInv, Capped, Cap
<1>1. /\ r \in Nat /\ r >= m.round /\ r + 1 <= Cap(used.attaches + 1)
      /\ \A k \in forge.marks : r >= k + 1
  <2>1. CASE forge.marks = {}
    BY <1>0, <2>1
  <2>2. CASE forge.marks # {}
    <3>1. Max(forge.marks) \in forge.marks /\ \A k \in forge.marks : k <= Max(forge.marks)
      BY <2>2, NewestMark
    <3> DEFINE x == Max(forge.marks)
    <3>2. x \in Nat /\ x + 1 <= Cap(used.attaches) /\ r = Larger(m.round, x + 1)
      BY <1>0, <2>2, <3>1
    <3>3. Cap(used.attaches + 1) = Cap(used.attaches) + 1 /\ Cap(used.attaches) \in Nat
      BY <1>0, <2>2, CapGrows
    <3> HIDE DEF x, r
    <3>4. r \in Nat /\ r >= m.round /\ r + 1 <= Cap(used.attaches + 1) /\ r >= x + 1
      BY <1>0, <3>2, <3>3 DEF Larger
    <3> QED
      BY <1>0, <3>1, <3>2, <3>4 DEF x
  <2> QED
    BY <2>1, <2>2
<1>2. Renumbered(m) = [m EXCEPT !.round = q]
  BY DEF Renumbered
<1> HIDE DEF r
<1>3. /\ q \in Nat /\ q >= r /\ q + 1 <= Cap(used.attaches + 1)
      /\ store # None => q >= store.round
  BY <1>0, <1>1, CapGrows DEF Larger
<1> HIDE DEF q
<1>4. Renumbered(m) \in DriverState
  BY <1>2, <1>3 DEF DriverState
<1>5. /\ Renumbered(m).round = q /\ Renumbered(m).stalled = m.stalled
      /\ Renumbered(m).infra = m.infra /\ Renumbered(m).ls = m.ls
      /\ Renumbered(m).liveHead = m.liveHead
  BY <1>2 DEF DriverState
<1>6. Renumbered(m).survives = m.survives
  BY <1>2 DEF DriverState
<1> QED
  BY <1>0, <1>1, <1>3, <1>4, <1>5, <1>6

\* A start that carries an approval carries one that is held, for the round it is
\* in, with its live check still to be done.
LEMMA StartsWithHeld ==
  ASSUME RoundLoopTypeOK, NumberInv, ReachedInv,
         NEW m \in DriverState, m.liveHead = None, NEW first \in BOOLEAN, StartsWith(m, first)
  PROVE  /\ mem' \in DriverState /\ pc' \in {"publish", "gate", "dispatch_developer"}
         /\ mem'.round = m.round /\ mem'.stalled = m.stalled /\ mem'.infra = m.infra
         /\ mem'.ls = m.ls /\ mem'.survives = m.survives
         /\ pc' = "publish" =>
              /\ mem'.judged \in Judgement /\ mem'.liveHead # mem'.judged.head
              /\ mem'.round \in forge.marks
              /\ \E h \in disk.held : h.clean /\ h.head = mem'.judged.head
<1>1. CASE ~Carried(m)
  BY <1>1 DEF StartsWith, Becomes
<1>2. CASE Carried(m)
  <2> DEFINE j == [head |-> Newest.head, ordinal |-> Newest.ordinal]
  <2>1. /\ Newest \in disk.held /\ Newest.clean /\ Newest.round = m.round
        /\ Newest \in HeldPair
    BY <1>2, NewestIsHeld DEF Carried, HeldClean, RoundLoopTypeOK, RunFolder
  <2>2. pc' = "publish" /\ mem' = [m EXCEPT !.judged = j]
    BY <1>2 DEF StartsWith, Becomes
  <2>3. j \in Judgement /\ j.head = Newest.head /\ j.head \in Head
    BY <2>1 DEF HeldPair, Judgement
  <2> HIDE DEF j
  <2>4. mem' \in DriverState
    BY <2>2, <2>3 DEF DriverState
  <2>5. /\ mem'.round = m.round /\ mem'.stalled = m.stalled /\ mem'.infra = m.infra
        /\ mem'.ls = m.ls /\ mem'.judged = j /\ mem'.liveHead = None
    BY <2>2 DEF DriverState
  <2>6. mem'.survives = m.survives
    BY <2>2 DEF DriverState
  <2>7. mem'.liveHead # mem'.judged.head
    BY <2>3, <2>5, LoopAssumption
  <2>8. mem'.round \in forge.marks
    BY <2>1, <2>5 DEF ReachedInv
  <2> QED
    BY <2>1, <2>2, <2>3, <2>4, <2>5, <2>6, <2>7, <2>8
<1> QED
  BY <1>1, <1>2

(***************************************************************************)
(* A start that goes to work has read back what is on record; an attach    *)
(* also numbers its round past the markers, and may record a delivery.     *)
(***************************************************************************)
StartsWork ==
  /\ pc \in {"down", "paused"} /\ pc' \in {"gate", "dispatch_developer", "publish", "pause"}
  /\ pc' = "pause" => mem'.reason \in Reason \ Automatic
  /\ mem'.stalled = StoredStalled
  /\ pc' # "pause" => (StoredStalled > 0 => mem'.survives)
  /\ mem'.ls.lastBlockingFindings = StoredBlocking
  /\ mem'.infra >= StoredInfra
  /\ store # None => mem'.round >= store.round
  /\ mem'.round + 1 <= Cap(used'.attaches)
  /\ pc' = "publish" => mem'.round \in forge.marks
  /\ forge' = forge /\ disk'.held = disk.held /\ disk'.pause = None
  /\ seen' = Restarted
  /\ ApprovalInv'

Attaches ==
  /\ StartsWork
  /\ used'.attaches = used.attaches + 1 /\ used'.failed = used.failed
  /\ mem'.round >= 1 /\ \A k \in forge.marks : mem'.round >= k + 1
  /\ \/ KeepsRecord
     \/ \E r \in Nat : /\ r + 1 <= Cap(used'.attaches)
                       /\ Writes(r, StoredStalled, StoredInfra, StoredBlocking)

Resumes == StartsWork /\ pc = "paused" /\ SameStarts /\ WritesMem

\* An attach that fails at its first reads pauses on what is on record.
FailsToStart ==
  /\ pc \in {"down", "paused"} /\ pc' = "paused" /\ mem'.round = 1
  /\ disk'.held = disk.held /\ disk'.pause \in PauseState
  /\ disk'.pause.round + 1 <= Cap(used'.attaches)
  /\ disk'.pause.infra >= MaxInfra \/ disk'.pause.infra = StoredInfra + 1
  /\ disk'.pause.infra >= StoredInfra
  /\ Writes(disk'.pause.round, StoredStalled, disk'.pause.infra, StoredBlocking)
  /\ used'.attaches = used.attaches + 1 /\ used'.failed = used.failed + 1
  /\ forge' = forge /\ seen' = Restarted

\* The variables a driver starts an attach with.
LEMMA SeedFresh ==
  ASSUME RoundLoopTypeOK, NumberInv
  PROVE  /\ Seed(NoDriver) \in DriverState
         /\ Seed(NoDriver).stalled = StoredStalled
         /\ StoredStalled > 0 => Seed(NoDriver).survives
         /\ Seed(NoDriver).ls.lastBlockingFindings = StoredBlocking
         /\ Seed(NoDriver).infra = StoredInfra
         /\ Seed(NoDriver).liveHead = None
         /\ Seed(NoDriver).round \in Nat /\ Seed(NoDriver).round >= 1
         /\ Seed(NoDriver).round + 1 <= Cap(used.attaches)
         /\ store # None => Seed(NoDriver).round >= store.round
<1>1. /\ Seed(NoDriver) \in DriverState
      /\ Seed(NoDriver).stalled = StoredStalled
      /\ StoredStalled > 0 => Seed(NoDriver).survives
      /\ Seed(NoDriver).ls.lastBlockingFindings = StoredBlocking
      /\ Seed(NoDriver).infra = Larger(StoredInfra, 0)
      /\ Seed(NoDriver).liveHead = None
      /\ Seed(NoDriver).round = (IF store = None THEN 1 ELSE Larger(store.round, 1))
  BY NoDriverType, SeedKeeps
<1>2. store # None => store.round \in Nat /\ store.round + 1 <= Cap(used.attaches)
  BY StoredTypes DEF NumberInv, Capped, Cap
<1>3. Larger(StoredInfra, 0) = StoredInfra
  BY StoredTypes DEF Larger
<1>4. /\ Seed(NoDriver).round \in Nat /\ Seed(NoDriver).round >= 1
      /\ Seed(NoDriver).round + 1 <= Cap(used.attaches)
      /\ store # None => Seed(NoDriver).round >= store.round
  <2> DEFINE r == Seed(NoDriver).round
  <2>1. r = (IF store = None THEN 1 ELSE Larger(store.round, 1))
    BY <1>1
  <2> HIDE DEF r
  <2>2. r \in Nat /\ r >= 1 /\ r + 1 <= Cap(used.attaches) /\ (store # None => r >= store.round)
    BY <1>2, <2>1, CapGrows DEF Larger
  <2> QED
    BY <2>2 DEF r
<1> QED
  BY <1>1, <1>3, <1>4

\* The pause record is not read again, and an attach is counted.
LEMMA StartBooks ==
  ASSUME RoundLoopTypeOK
  PROVE  /\ Unpaused \in RunFolder /\ Unpaused.held = disk.held /\ Unpaused.pause = None
         /\ Unpaused.redelivered = disk.redelivered
         /\ CountAttach \in Usage /\ CountAttach.attaches = used.attaches + 1
         /\ CountAttach.lost = used.lost /\ CountAttach.failed = used.failed
         /\ CountAttach.events = used.events
BY DEF RoundLoopTypeOK, Unpaused, CountAttach, RunFolder, Usage

\* A driver starts from nothing, or from a pause.
LEMMA StartingPlace ==
  ASSUME Starting \/ MayResume
  PROVE  pc \in {"down", "paused"}
BY DEF Starting, Reattaches, MayResume

\* A round number one past a held pair's is within the cap of the attach that
\* takes it.
LEMMA PastHeld ==
  ASSUME RoundLoopTypeOK, NumberInv, disk.held # {}
  PROVE  Newest \in HeldPair /\ Newest.round \in Nat
         /\ Newest.round + 1 + 1 <= Cap(used.attaches + 1)
<1>1. Newest \in disk.held /\ disk.held \subseteq HeldPair
  BY NewestIsHeld DEF RoundLoopTypeOK, RunFolder
<1>2. Newest.round \in Nat /\ Newest.round + 1 <= Cap(used.attaches) /\ used.attaches # 0
  BY <1>1 DEF HeldPair, NumberInv, Capped, Cap
<1> QED
  BY <1>1, <1>2, CapGrows

\* Attach, with nothing to deliver again.
LEMMA AttachAttaches ==
  ASSUME RoundLoopTypeOK, ApprovalInv, NumberInv, ReachedInv, Attach
  PROVE  RoundLoopTypeOK' /\ Attaches
<1> DEFINE m == Seed(NoDriver)
           q == Newest.round + 1
           moved == [m EXCEPT !.round = q]
           n == IF HeldChanges THEN moved ELSE m
           w == Renumbered(n)
<1>1. /\ Starting /\ StartsWith(w, TRUE) /\ seen' = Restarted /\ used' = CountAttach
      /\ disk' = Unpaused /\ UNCHANGED <<store, forge>>
  BY DEF Attach
<1>2. pc \in {"down", "paused"}
  BY <1>1, StartingPlace
<1>3. /\ m \in DriverState /\ m.stalled = StoredStalled
      /\ m.ls.lastBlockingFindings = StoredBlocking /\ m.infra = StoredInfra
      /\ m.liveHead = None /\ m.round \in Nat /\ m.round >= 1
      /\ m.round + 1 <= Cap(used.attaches)
      /\ store # None => m.round >= store.round
  BY SeedFresh
<1>4. StoredStalled > 0 => m.survives
  BY SeedFresh
<1> HIDE DEF m
<1>5. /\ n \in DriverState /\ n.stalled = StoredStalled
      /\ n.ls.lastBlockingFindings = StoredBlocking /\ n.infra = StoredInfra
      /\ n.liveHead = None /\ n.round \in Nat /\ n.round >= 1
      /\ n.round + 1 <= Cap(used.attaches + 1)
      /\ StoredStalled > 0 => n.survives
  <2>1. CASE HeldChanges
    <3>1. q \in Nat /\ q >= 1 /\ q + 1 <= Cap(used.attaches + 1)
      BY <2>1, PastHeld DEF HeldChanges
    <3>2. n = moved
      BY <2>1
    <3> HIDE DEF q, n
    <3>3. moved \in DriverState
      BY <1>3, <3>1 DEF DriverState
    <3>4. /\ moved.stalled = m.stalled /\ moved.ls = m.ls /\ moved.infra = m.infra
          /\ moved.liveHead = m.liveHead /\ moved.round = q
      BY <1>3 DEF DriverState
    <3>5. moved.survives = m.survives
      BY <1>3 DEF DriverState
    <3> HIDE DEF moved
    <3> QED
      BY <1>3, <1>4, <3>1, <3>2, <3>3, <3>4, <3>5
  <2>2. CASE ~HeldChanges
    <3>1. n = m
      BY <2>2
    <3>2. m.round + 1 <= Cap(used.attaches + 1)
      BY <1>3, CapGrows
    <3> QED
      BY <1>3, <1>4, <3>1, <3>2
  <2> QED
    BY <2>1, <2>2
<1> HIDE DEF n
<1>6. /\ w \in DriverState /\ w.round \in Nat /\ w.round >= 1
      /\ store # None => w.round >= store.round
      /\ \A k \in forge.marks : w.round >= k + 1
      /\ w.round + 1 <= Cap(used.attaches + 1)
      /\ w.stalled = StoredStalled /\ w.infra = StoredInfra
      /\ w.ls.lastBlockingFindings = StoredBlocking /\ w.liveHead = None
  BY <1>5, RenumberedKeeps DEF DriverState
<1>7. StoredStalled > 0 => w.survives
  BY <1>5, RenumberedKeeps
<1> HIDE DEF w
<1>8. /\ mem' \in DriverState /\ pc' \in {"publish", "gate", "dispatch_developer"}
      /\ mem'.round = w.round /\ mem'.stalled = w.stalled /\ mem'.infra = w.infra
      /\ mem'.ls = w.ls /\ mem'.survives = w.survives
      /\ pc' = "publish" =>
           /\ mem'.judged \in Judgement /\ mem'.liveHead # mem'.judged.head
           /\ mem'.round \in forge.marks
           /\ \E h \in disk.held : h.clean /\ h.head = mem'.judged.head
  BY <1>1, <1>6, StartsWithHeld
<1>9. /\ disk' \in RunFolder /\ disk'.held = disk.held /\ disk'.pause = None
      /\ used' \in Usage /\ used'.attaches = used.attaches + 1
      /\ used'.lost = used.lost /\ used'.failed = used.failed
  BY <1>1, StartBooks
<1>10. ApprovalInv'
  BY <1>1, <1>2, <1>8, <1>9, NotPublished DEF ApprovalInv
<1>11. StartsWork
  BY <1>1, <1>2, <1>6, <1>7, <1>8, <1>9, <1>10, StoredTypes DEF StartsWork
<1> QED
  BY <1>1, <1>6, <1>8, <1>9, <1>11, RestartedType DEF RoundLoopTypeOK, Place, TopOfLoop,
     Attaches, KeepsRecord

\* An attach that delivers the held findings once more, and says so.
LEMMA RedeliversAttaches ==
  ASSUME RoundLoopTypeOK, ApprovalInv, NumberInv, AttachRedelivers
  PROVE  RoundLoopTypeOK' /\ Attaches
<1> DEFINE s == Seed(NoDriver)
           q == Newest.round + 1
           d == [round |-> Newest.round, head |-> forge.head]
           m == [s EXCEPT !.round = q, !.delivered = d]
           w == Renumbered(m)
           u == Unpaused
<1>1. /\ Starting /\ HeldChanges /\ pc' = "dispatch_developer" /\ mem' = w
      /\ disk' = [u EXCEPT !.redelivered = @ \cup {Newest.round}]
      /\ PersistAs(m, CountAttach) /\ seen' = Restarted /\ UNCHANGED forge
  BY DEF AttachRedelivers, Becomes
<1>2. pc \in {"down", "paused"} /\ forge.head \in Head
  BY <1>1, StartingPlace DEF RoundLoopTypeOK, PullRequest
<1>3. /\ s \in DriverState /\ s.stalled = StoredStalled
      /\ s.ls.lastBlockingFindings = StoredBlocking /\ s.infra = StoredInfra
  BY SeedFresh
<1>4. StoredStalled > 0 => s.survives
  BY SeedFresh
<1>5. /\ Newest.round \in Nat /\ q \in Nat /\ q >= 1 /\ q + 1 <= Cap(used.attaches + 1)
      /\ d \in [round : Nat, head : Head]
  BY <1>1, <1>2, PastHeld DEF HeldChanges
<1>6. /\ u \in RunFolder /\ u.held = disk.held /\ u.pause = None
      /\ CountAttach \in Usage /\ CountAttach.attaches = used.attaches + 1
      /\ CountAttach.lost = used.lost /\ CountAttach.failed = used.failed
  BY StartBooks
<1> HIDE DEF s, q, d, u
<1>7. m \in DriverState
  BY <1>3, <1>5 DEF DriverState
<1>8. m.round = q /\ m.stalled = s.stalled /\ m.ls = s.ls /\ m.infra = s.infra
  BY <1>3 DEF DriverState
<1>9. m.survives = s.survives
  BY <1>3 DEF DriverState
<1> HIDE DEF m
<1>10. /\ mem' \in DriverState /\ mem'.round \in Nat /\ mem'.round >= 1
       /\ store # None => mem'.round >= store.round
       /\ \A k \in forge.marks : mem'.round >= k + 1
       /\ mem'.round + 1 <= Cap(used.attaches + 1)
       /\ mem'.stalled = StoredStalled /\ mem'.infra = StoredInfra
       /\ mem'.ls.lastBlockingFindings = StoredBlocking
  BY <1>1, <1>3, <1>5, <1>7, <1>8, RenumberedKeeps DEF DriverState
<1>11. StoredStalled > 0 => mem'.survives
  BY <1>1, <1>4, <1>5, <1>7, <1>8, <1>9, RenumberedKeeps
<1>12. /\ store' \in LoopRecord \cup {None} /\ used' \in Usage
       /\ used'.attaches = used.attaches + 1 /\ used'.failed = used.failed
       /\ Writes(q, StoredStalled, StoredInfra, StoredBlocking)
  BY <1>1, <1>3, <1>6, <1>7, <1>8, PersistWrites
<1>13. disk' \in RunFolder /\ disk'.held = disk.held /\ disk'.pause = None
  BY <1>1, <1>5, <1>6 DEF RunFolder
<1>14. ApprovalInv'
  BY <1>1, <1>2, <1>13, NotPublished DEF ApprovalInv
<1>15. StartsWork
  BY <1>1, <1>2, <1>10, <1>11, <1>12, <1>13, <1>14, StoredTypes DEF StartsWork
<1>16. Attaches
  BY <1>5, <1>10, <1>12, <1>15 DEF Attaches
<1> QED
  BY <1>1, <1>10, <1>12, <1>13, <1>16, RestartedType DEF RoundLoopTypeOK, Place, TopOfLoop

\* An attach that finds them delivered already.
LEMMA NoProgressAttaches ==
  ASSUME RoundLoopTypeOK, ApprovalInv, NumberInv, AttachNoProgress
  PROVE  RoundLoopTypeOK' /\ Attaches
<1> DEFINE s == Seed(NoDriver)
           w == Renumbered(s)
<1>1. /\ Starting /\ PausesFor("no_progress", w) /\ disk' = Unpaused /\ used' = CountAttach
      /\ seen' = Restarted /\ UNCHANGED <<store, forge>>
  BY DEF AttachNoProgress
<1>2. pc \in {"down", "paused"} /\ "no_progress" \in Reason \ Automatic
  BY <1>1, StartingPlace DEF Reason, Automatic
<1>3. /\ s \in DriverState /\ s.stalled = StoredStalled
      /\ s.ls.lastBlockingFindings = StoredBlocking /\ s.infra = StoredInfra
      /\ s.round \in Nat /\ s.round >= 1 /\ s.round + 1 <= Cap(used.attaches + 1)
  BY SeedFresh, CapGrows
<1> HIDE DEF s
<1>4. /\ w \in DriverState /\ w.round \in Nat /\ w.round >= 1
      /\ store # None => w.round >= store.round
      /\ \A k \in forge.marks : w.round >= k + 1
      /\ w.round + 1 <= Cap(used.attaches + 1)
      /\ w.stalled = StoredStalled /\ w.infra = StoredInfra
      /\ w.ls.lastBlockingFindings = StoredBlocking
  BY <1>3, RenumberedKeeps DEF DriverState
<1> HIDE DEF w
<1>5. /\ pc' = "pause" /\ mem' \in DriverState /\ mem'.reason = "no_progress"
      /\ mem'.round = w.round /\ mem'.stalled = w.stalled /\ mem'.infra = w.infra
      /\ mem'.ls.lastBlockingFindings = w.ls.lastBlockingFindings
  BY <1>1, <1>2, <1>4, PauseKeeps
<1>6. /\ disk' \in RunFolder /\ disk'.held = disk.held /\ disk'.pause = None
      /\ used' \in Usage /\ used'.attaches = used.attaches + 1
      /\ used'.lost = used.lost /\ used'.failed = used.failed
  BY <1>1, StartBooks
<1>7. ApprovalInv'
  BY <1>1, <1>2, <1>5, <1>6, NotPublished DEF ApprovalInv
<1>8. StartsWork
  BY <1>1, <1>2, <1>4, <1>5, <1>6, <1>7, StoredTypes DEF StartsWork
<1> QED
  BY <1>1, <1>4, <1>5, <1>6, <1>8, RestartedType DEF RoundLoopTypeOK, Place, Attaches,
     KeepsRecord

\* An attach that fails before it knows its round.
LEMMA AttachFailsToStart ==
  ASSUME RoundLoopTypeOK, NumberInv, AttachFails
  PROVE  RoundLoopTypeOK' /\ FailsToStart
<1> DEFINE s == Seed(NoDriver)
           m == Spent(s)
           r == PauseRecord(m, "infrastructure")
           c == CountAttach
           u == [c EXCEPT !.events = @ + 1, !.failed = @ + 1]
<1>1. /\ Starting /\ pc' = "paused" /\ mem' = NoDriver
      /\ disk' = [disk EXCEPT !.pause = r]
      /\ PersistAs(m, u) /\ seen' = Restarted /\ UNCHANGED forge
  BY DEF AttachFails, Becomes
<1>2. pc \in {"down", "paused"} /\ "infrastructure" \in Reason /\ forge.head \in Head
  BY <1>1, StartingPlace DEF Reason, Automatic, RoundLoopTypeOK, PullRequest
<1>3. /\ s \in DriverState /\ s.stalled = StoredStalled
      /\ s.ls.lastBlockingFindings = StoredBlocking /\ s.infra = StoredInfra
      /\ s.round \in Nat /\ s.round + 1 <= Cap(used.attaches + 1)
  BY SeedFresh, CapGrows
<1> HIDE DEF s
<1>4. /\ m \in DriverState /\ m.round = s.round /\ m.stalled = StoredStalled
      /\ m.ls.lastBlockingFindings = StoredBlocking
      /\ m.infra \in Nat /\ m.infra >= StoredInfra
      /\ m.infra >= MaxInfra \/ m.infra = StoredInfra + 1
  BY <1>3, SpentKeeps
<1> HIDE DEF m
<1>5. r \in PauseState /\ r.round = s.round /\ r.infra = m.infra
  BY <1>2, <1>3, <1>4 DEF PauseRecord, PauseState
<1>6. /\ c \in Usage /\ c.attaches = used.attaches + 1 /\ c.lost = used.lost
      /\ c.failed = used.failed /\ c.events \in Nat
  BY StartBooks DEF Usage
<1> HIDE DEF r, c
<1>7. u \in Usage /\ u.attaches = used.attaches + 1 /\ u.failed = used.failed + 1
      /\ u.lost = used.lost
  <2> DEFINE e == c.events + 1
             f == c.failed + 1
  <2>1. e \in Nat /\ f \in Nat /\ u = [c EXCEPT !.events = e, !.failed = f]
    BY <1>6 DEF Usage
  <2>2. f = used.failed + 1
    BY <1>6
  <2> HIDE DEF e, f, u
  <2> QED
    BY <1>6, <2>1, <2>2 DEF Usage
<1> HIDE DEF u
<1>8. /\ store' \in LoopRecord \cup {None} /\ used' \in Usage
      /\ used'.attaches = used.attaches + 1 /\ used'.failed = used.failed + 1
      /\ Writes(s.round, StoredStalled, m.infra, StoredBlocking)
  BY <1>1, <1>4, <1>7, PersistWrites
<1>9. disk' \in RunFolder /\ disk'.held = disk.held /\ disk'.pause = r
  BY <1>1, <1>5 DEF RoundLoopTypeOK, RunFolder
<1>10. mem' \in DriverState /\ mem'.round = 1
  BY <1>1, NoDriverType
<1>11. FailsToStart
  BY <1>1, <1>2, <1>3, <1>4, <1>5, <1>8, <1>9, <1>10 DEF FailsToStart
<1> QED
  BY <1>1, <1>8, <1>9, <1>10, <1>11, RestartedType DEF RoundLoopTypeOK, Place

\* A resume of a pause.
LEMMA ResumeResumes ==
  ASSUME RoundLoopTypeOK, ApprovalInv, NumberInv, ReachedInv, Resume
  PROVE  RoundLoopTypeOK' /\ Resumes
<1> DEFINE moved == forge.head # disk.pause.head
           r == IF moved /\ ~Bare THEN forge.ordinal ELSE disk.pause.round
           i == disk.pause.infra
           z == NoDriver
           n == [z EXCEPT !.round = r, !.infra = i]
           m == Seed(n)
           first == moved \/ (/\ disk.pause.reason \in Automatic
                              /\ ~(HeldChanges /\ Newest.head = disk.pause.head))
           u == [used EXCEPT !.resumes = @ + 1]
<1>1. /\ MayResume /\ StartsWith(m, first) /\ disk' = Unpaused /\ PersistAs(m, u)
      /\ seen' = Restarted /\ UNCHANGED forge
  BY DEF Resume
<1>2. pc = "paused" /\ disk.pause \in PauseState /\ first \in BOOLEAN
  BY <1>1 DEF MayResume, ApprovalInv
<1>3. r \in Nat /\ r + 1 <= Cap(used.attaches) /\ i \in Nat
  BY <1>2, CapGrows DEF PauseState, NumberInv, Capped, Cap
<1>4. /\ z \in DriverState /\ z.stalled = 0 /\ z.ls.lastBlockingFindings = {}
      /\ z.liveHead = None
  BY NoDriverType
<1> HIDE DEF r, i, z, first
<1>5. n \in DriverState
  BY <1>3, <1>4 DEF DriverState
<1>6. /\ n.stalled = z.stalled /\ n.ls = z.ls /\ n.liveHead = z.liveHead
      /\ n.round = r /\ n.infra = i
  BY <1>4 DEF DriverState
<1> HIDE DEF n
<1>7. /\ m \in DriverState /\ m.stalled = StoredStalled
      /\ m.ls.lastBlockingFindings = StoredBlocking
      /\ m.infra = Larger(StoredInfra, i)
      /\ m.round = (IF store = None THEN r ELSE Larger(store.round, r))
      /\ m.liveHead = None
  BY <1>4, <1>5, <1>6, SeedKeeps
<1>8. StoredStalled > 0 => m.survives
  BY <1>4, <1>5, <1>6, SeedKeeps
<1> HIDE DEF m
<1>9. m.infra \in Nat /\ m.infra >= StoredInfra
  BY <1>3, <1>7, StoredTypes DEF Larger
<1>10. m.round + 1 <= Cap(used.attaches) /\ (store # None => m.round >= store.round)
  <2>1. store # None => store.round \in Nat /\ store.round + 1 <= Cap(used.attaches)
    BY StoredTypes DEF NumberInv, Capped, Cap
  <2> QED
    BY <1>3, <1>7, <2>1, CapGrows DEF Larger
<1>11. /\ u \in Usage /\ u.attaches = used.attaches /\ u.failed = used.failed
       /\ u.lost = used.lost
  <2> DEFINE x == used.resumes + 1
  <2>1. used \in Usage /\ x \in Nat /\ u = [used EXCEPT !.resumes = x]
    BY DEF RoundLoopTypeOK, Usage
  <2> HIDE DEF x, u
  <2> QED
    BY <2>1 DEF Usage
<1> HIDE DEF u
<1>12. /\ mem' \in DriverState /\ pc' \in {"publish", "gate", "dispatch_developer"}
       /\ mem'.round = m.round /\ mem'.stalled = m.stalled /\ mem'.infra = m.infra
       /\ mem'.ls = m.ls /\ mem'.survives = m.survives
       /\ pc' = "publish" =>
            /\ mem'.judged \in Judgement /\ mem'.liveHead # mem'.judged.head
            /\ mem'.round \in forge.marks
            /\ \E h \in disk.held : h.clean /\ h.head = mem'.judged.head
  BY <1>1, <1>2, <1>7, StartsWithHeld
<1>13. /\ store' \in LoopRecord \cup {None} /\ used' \in Usage /\ SameStarts /\ WritesMem
  BY <1>1, <1>7, <1>11, <1>12, PersistWrites DEF SameStarts, WritesMem
<1>14. disk' \in RunFolder /\ disk'.held = disk.held /\ disk'.pause = None
  BY <1>1, StartBooks
<1>15. ApprovalInv'
  BY <1>1, <1>2, <1>12, <1>14, NotPublished DEF ApprovalInv
<1>16. StartsWork
  BY <1>1, <1>2, <1>7, <1>8, <1>9, <1>10, <1>12, <1>13, <1>14, <1>15 DEF StartsWork, SameStarts
<1> QED
  BY <1>1, <1>2, <1>12, <1>13, <1>14, <1>16, RestartedType DEF RoundLoopTypeOK, Place,
     TopOfLoop, Resumes

-----------------------------------------------------------------------------
\* The kinds of step, one for each way in which the invariant is kept.
Kind ==
  \/ Works \/ Reads \/ Stalls \/ EndsRound
  \/ Reviews \/ Publishes \/ Pauses \/ Dies \/ WorldMoves
  \/ Attaches \/ Resumes \/ FailsToStart
  \/ UNCHANGED vars

\* Every step keeps the types and is of one of the kinds.
LEMMA EveryStepHasAKind ==
  ASSUME RoundLoopTypeOK, ApprovalInv, NumberInv, ReachedInv, [Next]_vars
  PROVE  RoundLoopTypeOK' /\ Kind
<1>1. CASE DriverStep
  <2>1. CASE \/ BeginTurn \/ ConnectionRetry \/ TurnEnds \/ RerunChecks
             \/ GreenAtStall \/ GateConflict \/ ReviewConflict
    BY <2>1, QuietWorks DEF Kind
  <2>2. CASE \E sig \in Signature \cup {None}, late \in BOOLEAN :
               UnpushedWork(sig, late) \/ Stall(sig, late) \/ ReadRed(sig, late)
    BY <2>2, UnpushedWorks, StallStalls, GateReads DEF Kind
  <2>3. CASE \E left \in {"nothing", "dirty", "ahead"}, sig \in Signature, late \in BOOLEAN :
               ResumedTurnEnds(left, sig, late)
    BY <2>3, ResumedWorks DEF Kind
  <2>4. CASE \E c \in {"absent", "low", "high"}, late \in BOOLEAN :
               ReadGreen(c, late) \/ AskConfidence(c, late)
    BY <2>4, GateReads DEF Kind
  <2>5. CASE \/ ReviewFails \/ StaleDriver
             \/ \E why \in {"ruling_posted", "inputs_changed"} : InputsMoved(why)
    BY <2>5, HiccupWorks DEF Kind
  <2>6. CASE StartReview \/ \E v \in Verdict : HoldVerdicts(v)
    BY <2>6, StartReviewReviews, HoldVerdictsReviews DEF Kind
  <2>7. CASE AssessReview \/ LiveFailed \/ CarriedLiveFailed
    BY <2>7, AssessReviewEnds, LiveFailedEnds DEF Kind
  <2>8. CASE LivePassed \/ CarriedLivePassed
    BY <2>8, LivePassedReviews DEF Kind
  <2>9. CASE PublishConflict \/ PublishRound
    BY <2>9, PublishConflictWorks, PublishRoundPublishes DEF Kind
  <2>10. CASE WritePause \/ Crash
    BY <2>10, WritePausePauses DEF Kind
  <2> QED
    BY <1>1, <2>1, <2>2, <2>3, <2>4, <2>5, <2>6, <2>7, <2>8, <2>9, <2>10 DEF DriverStep
<1>2. CASE Attach \/ AttachRedelivers \/ AttachNoProgress
  BY <1>2, AttachAttaches, RedeliversAttaches, NoProgressAttaches DEF Kind
<1>3. CASE AttachFails \/ Resume \/ Kill
  BY <1>3, AttachFailsToStart, ResumeResumes, KillDies DEF Kind
<1>4. CASE (\E b \in BOOLEAN : Push(b)) \/ Rebase \/ BaseMoves \/ Rule
  BY <1>4, WorldSteps DEF Kind
<1>5. CASE UNCHANGED vars
  BY <1>5 DEF vars, RoundLoopTypeOK, Kind
<1> QED
  BY <1>1, <1>2, <1>3, <1>4, <1>5 DEF Next

-----------------------------------------------------------------------------
\* Each invariant over the kinds of steps.

\* The numbers the invariants compare.
Numbers ==
  /\ mem.round \in Nat /\ mem.stalled \in Nat /\ mem.infra \in Nat
  /\ StoredInfra \in Nat /\ StoredStalled \in Nat
  /\ store # None => store.round \in Nat
  /\ disk.held \subseteq HeldPair
  /\ forge.ordinal \in Nat /\ forge.marks \subseteq Nat
  /\ used.lost \in Nat /\ used.attaches \in Nat /\ used.failed \in Nat
  /\ seen.reached \in Nat /\ seen.idle \in Nat /\ seen.bare \in Nat
  /\ seen.read \in BOOLEAN /\ mem.survives \in BOOLEAN
  /\ MaxRounds \in Nat /\ MaxRounds >= 1
  /\ MaxStalled \in Nat /\ MaxStalled >= 1 /\ MaxInfra \in Nat /\ MaxInfra >= 1

\* They are numbers, before a step and after it.
LEMMA NumbersTyped ==
  ASSUME RoundLoopTypeOK, RoundLoopTypeOK'
  PROVE  Numbers /\ Numbers'
<1>1. MaxRounds \in Nat /\ MaxRounds >= 1 /\ MaxStalled \in Nat /\ MaxStalled >= 1
      /\ MaxInfra \in Nat /\ MaxInfra >= 1
  BY PolicyAssumption, LoopAssumption
<1>2. Numbers
  BY <1>1 DEF RoundLoopTypeOK, Numbers, DriverState, StoredInfra, StoredStalled, LoopRecord,
     RunFolder, PullRequest, Usage, History
<1>3. Numbers'
  BY <1>1 DEF RoundLoopTypeOK, Numbers, DriverState, StoredInfra, StoredStalled, LoopRecord,
     RunFolder, PullRequest, Usage, History
<1> QED
  BY <1>2, <1>3

\* Approvals and the publication.
LEMMA ApprovalStep ==
  ASSUME RoundLoopTypeOK, RoundLoopTypeOK', ApprovalInv, PublishedIsApproved, Kind
  PROVE  ApprovalInv' /\ PublishedIsApproved'
<1>1. CASE Works \/ Reads \/ Stalls \/ EndsRound
  <2>1. GoesOn
    BY <1>1 DEF Works, Reads, Stalls, EndsRound
  <2>2. forge.published = None
    BY <2>1, NotPublished DEF GoesOn, Running
  <2> QED
    BY <2>1, <2>2 DEF GoesOn, WorkPlace, ApprovalInv, PublishedIsApproved
<1>2. CASE Reviews
  BY <1>2, NotPublished DEF Reviews, PublishedIsApproved
<1>3. CASE Publishes
  BY <1>3 DEF Publishes, ApprovalInv, PublishedIsApproved
<1>4. CASE Pauses \/ Dies
  <2>1. forge.published = None /\ forge' = forge
    BY <1>4, NotPublished DEF Pauses, Dies, Running
  <2> QED
    BY <1>4, <2>1 DEF Pauses, Dies, ApprovalInv, PublishedIsApproved
<1>5. CASE WorldMoves
  BY <1>5 DEF WorldMoves, ApprovalInv, PublishedIsApproved
<1>6. CASE Attaches \/ Resumes
  <2>1. StartsWork
    BY <1>6 DEF Attaches, Resumes
  <2> QED
    BY <2>1, NotPublished DEF StartsWork, PublishedIsApproved
<1>7. CASE FailsToStart
  BY <1>7, NotPublished DEF FailsToStart, ApprovalInv, PublishedIsApproved
<1>8. CASE UNCHANGED vars
  BY <1>8 DEF vars, ApprovalInv, PublishedIsApproved
<1> QED
  BY <1>1, <1>2, <1>3, <1>4, <1>5, <1>6, <1>7, <1>8 DEF Kind

\* The cap of a step that neither starts a driver nor moves the rulings stays; it
\* never shrinks.
LEMMA CapStep ==
  ASSUME RoundLoopTypeOK, RoundLoopTypeOK', forge'.ordinal >= forge.ordinal,
         used'.attaches >= used.attaches
  PROVE  /\ Cap(used.attaches) \in Nat /\ Cap(used.attaches) >= MaxRounds + 1
         /\ Cap(used.attaches)' \in Nat /\ Cap(used.attaches)' >= Cap(used.attaches)
<1>1. Numbers /\ Numbers'
  BY NumbersTyped
<1> QED
  BY <1>1 DEF Numbers, Cap, Larger

\* Round numbers.
LEMMA NumberStep ==
  ASSUME RoundLoopTypeOK, RoundLoopTypeOK', ApprovalInv, NumberInv, RoundBound, Kind
  PROVE  NumberInv' /\ RoundBound'
<1> DEFINE c == Cap(used.attaches)
           d == Cap(used.attaches)'
<1>0. Numbers /\ Numbers'
  BY NumbersTyped
<1>1. /\ mem.round + 1 <= c
      /\ store # None => store.round + 1 <= c
      /\ pc = "paused" => disk.pause.round + 1 <= c
      /\ \A h \in disk.held : h.round + 1 <= c
      /\ \A k \in forge.marks : k + 1 <= c
      /\ used.attaches = 0 => pc = "down" /\ store = None /\ disk.held = {} /\ forge.marks = {}
  BY DEF NumberInv, RoundBound, Capped, Cap
<1>2. SUFFICES
        /\ mem'.round + 1 <= d
        /\ store' # None => store'.round + 1 <= d
        /\ pc' = "paused" => disk'.pause.round + 1 <= d
        /\ \A h \in disk'.held : h.round + 1 <= d
        /\ \A k \in forge'.marks : k + 1 <= d
        /\ used'.attaches = 0 =>
             pc' = "down" /\ store' = None /\ disk'.held = {} /\ forge'.marks = {}
  BY DEF NumberInv, RoundBound, Capped, Cap
<1>3. ASSUME forge'.ordinal >= forge.ordinal, used'.attaches >= used.attaches
      PROVE  c \in Nat /\ c >= MaxRounds + 1 /\ d \in Nat /\ d >= c
  BY <1>3, CapStep
<1>4. disk.held \subseteq HeldPair /\ \A h \in HeldPair : h.round \in Nat
  BY <1>0 DEF Numbers, HeldPair
<1>5. CASE Works \/ Reads \/ Stalls \/ EndsRound
  <2>1. GoesOn /\ (mem'.round = mem.round \/ (mem'.round = mem.round + 1 /\ mem.round < MaxRounds))
    BY <1>5 DEF Works, Reads, Stalls, EndsRound, SameRound
  <2>2. \/ store' = store
        \/ store' # None /\ store'.round = mem'.round
    BY <1>5 DEF Works, Reads, Stalls, EndsRound, KeepsRecord, WritesMem, Writes
  <2>3. c \in Nat /\ c >= MaxRounds + 1 /\ d \in Nat /\ d >= c
    BY <1>0, <1>3, <2>1 DEF GoesOn, SameStarts, Numbers
  <2>4. mem'.round + 1 <= d
    BY <1>0, <1>1, <2>1, <2>3 DEF Numbers
  <2>5. store' # None => store'.round + 1 <= d
    BY <1>0, <1>1, <2>2, <2>3, <2>4 DEF Numbers
  <2>6. /\ \A h \in disk'.held : h.round + 1 <= d
        /\ \A k \in forge'.marks : k + 1 <= d
    BY <1>0, <1>1, <1>4, <2>1, <2>3 DEF GoesOn, Numbers
  <2> QED
    BY <1>1, <2>1, <2>4, <2>5, <2>6 DEF GoesOn, SameStarts, WorkPlace, Running
<1>6. CASE Reviews
  <2>1. c \in Nat /\ c >= MaxRounds + 1 /\ d \in Nat /\ d >= c
    BY <1>0, <1>3, <1>6 DEF Reviews, SameStarts, Numbers
  <2>2. mem'.round + 1 <= d
    BY <1>0, <1>1, <1>6, <2>1 DEF Reviews, Numbers
  <2>3. \/ store' = store
        \/ store' # None /\ store'.round = mem'.round
    BY <1>6 DEF Reviews, KeepsRecord, WritesMem, Writes
  <2>4. store' # None => store'.round + 1 <= d
    BY <1>0, <1>1, <2>1, <2>2, <2>3 DEF Numbers
  <2>5. /\ \A h \in disk'.held : h.round + 1 <= d
        /\ \A k \in forge'.marks : k + 1 <= d
    BY <1>0, <1>1, <1>4, <1>6, <2>1, <2>2 DEF Reviews, Numbers
  <2> QED
    BY <1>1, <1>6, <2>2, <2>4, <2>5 DEF Reviews, SameStarts
<1>7. CASE Publishes \/ Pauses \/ Dies
  <2>1. c \in Nat /\ c >= MaxRounds + 1 /\ d \in Nat /\ d >= c
    BY <1>0, <1>3, <1>7 DEF Publishes, Pauses, Dies, SameStarts, Numbers
  <2>2. mem'.round + 1 <= d /\ (pc' = "paused" => disk'.pause.round + 1 <= d)
    BY <1>0, <1>1, <1>7, <2>1 DEF Publishes, Pauses, Dies, Numbers
  <2>3. \/ store' = store
        \/ store' # None /\ store'.round = mem.round
    BY <1>7 DEF Publishes, Pauses, Dies, KeepsRecord, Writes
  <2>4. store' # None => store'.round + 1 <= d
    BY <1>0, <1>1, <2>1, <2>3 DEF Numbers
  <2>5. /\ \A h \in disk'.held : h.round + 1 <= d
        /\ \A k \in forge'.marks : k + 1 <= d
    BY <1>0, <1>1, <1>4, <1>7, <2>1 DEF Publishes, Pauses, Dies, Numbers
  <2>6. used'.attaches = used.attaches /\ pc # "down"
    BY <1>7 DEF Publishes, Pauses, Dies, SameStarts, Running
  <2> QED
    BY <1>1, <2>2, <2>4, <2>5, <2>6
<1>8. CASE WorldMoves
  <2>1. c \in Nat /\ c >= MaxRounds + 1 /\ d \in Nat /\ d >= c
    BY <1>0, <1>3, <1>8 DEF WorldMoves, SameStarts, Numbers
  <2>2. pc = "paused" => disk.pause.round \in Nat
    BY DEF ApprovalInv, PauseState
  <2>3. /\ mem'.round + 1 <= d
        /\ store' # None => store'.round + 1 <= d
        /\ pc' = "paused" => disk'.pause.round + 1 <= d
    BY <1>0, <1>1, <1>8, <2>1, <2>2 DEF WorldMoves, Numbers
  <2>4. /\ \A h \in disk'.held : h.round + 1 <= d
        /\ \A k \in forge'.marks : k + 1 <= d
    BY <1>0, <1>1, <1>4, <1>8, <2>1 DEF WorldMoves, Numbers
  <2> QED
    BY <1>1, <1>8, <2>3, <2>4 DEF WorldMoves, SameStarts
<1>9. CASE Attaches \/ Resumes
  <2>1. StartsWork /\ used'.attaches \in {used.attaches, used.attaches + 1}
    BY <1>9 DEF Attaches, Resumes, SameStarts
  <2>2. c \in Nat /\ c >= MaxRounds + 1 /\ d \in Nat /\ d >= c
    BY <1>0, <1>3, <2>1 DEF StartsWork, Numbers
  <2>3. d = Cap(used'.attaches)
    BY <2>1 DEF StartsWork, Cap
  <2>4. mem'.round + 1 <= d /\ pc' # "paused"
    BY <2>1, <2>3 DEF StartsWork
  <2>5. store' # None => store'.round + 1 <= d
    <3>1. CASE store' = store
      BY <1>0, <1>1, <2>2, <3>1 DEF Numbers
    <3>2. CASE store' # store
      BY <1>9, <2>3, <2>4, <3>2 DEF Attaches, Resumes, KeepsRecord, WritesMem, Writes
    <3> QED
      BY <3>1, <3>2
  <2>6. /\ \A h \in disk'.held : h.round + 1 <= d
        /\ \A k \in forge'.marks : k + 1 <= d
    BY <1>0, <1>1, <1>4, <2>1, <2>2 DEF StartsWork, Numbers
  <2>7. used'.attaches # 0
    BY <1>0, <1>1, <1>9 DEF Attaches, Resumes, SameStarts, Numbers
  <2> QED
    BY <2>4, <2>5, <2>6, <2>7
<1>10. CASE FailsToStart
  <2>1. c \in Nat /\ c >= MaxRounds + 1 /\ d \in Nat /\ d >= c
    BY <1>0, <1>3, <1>10 DEF FailsToStart, Numbers
  <2>2. d = Cap(used'.attaches)
    BY <1>10 DEF FailsToStart, Cap
  <2>3. mem'.round + 1 <= d /\ disk'.pause.round + 1 <= d
    BY <1>0, <1>10, <2>1, <2>2 DEF FailsToStart, Numbers
  <2>4. \/ store' = store
        \/ store' # None /\ store'.round = disk'.pause.round
    BY <1>10 DEF FailsToStart, Writes
  <2>5. store' # None => store'.round + 1 <= d
    BY <1>0, <1>1, <2>1, <2>3, <2>4 DEF Numbers
  <2>6. /\ \A h \in disk'.held : h.round + 1 <= d
        /\ \A k \in forge'.marks : k + 1 <= d
    BY <1>0, <1>1, <1>4, <1>10, <2>1 DEF FailsToStart, Numbers
  <2>7. used'.attaches # 0
    BY <1>0, <1>10 DEF FailsToStart, Numbers
  <2> QED
    BY <2>3, <2>5, <2>6, <2>7
<1>11. CASE UNCHANGED vars
  BY <1>1, <1>11 DEF vars, Cap
<1> QED
  BY <1>5, <1>6, <1>7, <1>8, <1>9, <1>10, <1>11 DEF Kind

\* Lost writes are never forgotten.
LEMMA LostGrows ==
  ASSUME Numbers, Numbers', Kind
  PROVE  used'.lost >= used.lost
BY DEF Kind, Works, Reads, Stalls, EndsRound, Reviews, Publishes, Pauses, Dies, WorldMoves,
   Attaches, Resumes, FailsToStart, vars, KeepsRecord, WritesMem, Writes, Numbers

\* The round reached.
LEMMA ReachedStep ==
  ASSUME RoundLoopTypeOK, RoundLoopTypeOK', ReachedInv, RoundKept, Kind
  PROVE  ReachedInv' /\ RoundKept'
<1>0. Numbers /\ Numbers'
  BY NumbersTyped
<1>1. CASE Works \/ Reads \/ Stalls
  <2>0. GoesOn /\ mem'.round = mem.round /\ used'.lost >= used.lost
    BY <1>0, <1>1, LostGrows DEF Works, Reads, Stalls, SameRound
  <2>1. GoesOn /\ mem'.round = mem.round /\ seen'.reached = seen.reached
    BY <1>1, <2>0 DEF Works, Reads, Stalls, SeenGate, RoundLoopTypeOK, History
  <2>2. ReachedInv'
    BY <2>1 DEF GoesOn, WorkPlace, ReachedInv
  <2>3. RoundKept'
    BY <1>0, <2>0, <2>1 DEF GoesOn, SameStarts, WorkPlace, Running, RoundKept, Numbers
  <2> QED
    BY <2>2, <2>3
<1>2. CASE EndsRound
  <2>1. mem'.round \in Nat /\ mem'.ls \in LoopState /\ seen \in History
    BY DEF RoundLoopTypeOK, DriverState
  <2>2. seen'.reached = mem'.round
    BY <1>2, <2>1 DEF EndsRound, SeenRound, History
  <2>3. mem.round \in forge.marks /\ mem'.round <= mem.round + 1
    BY <1>0, <1>2 DEF EndsRound, ReachedInv, Numbers
  <2>4. ReachedInv'
    BY <1>2, <2>2, <2>3 DEF EndsRound, GoesOn, WorkPlace, ReachedInv
  <2>5. RoundKept'
    BY <1>0, <2>2 DEF RoundKept, Numbers
  <2> QED
    BY <2>4, <2>5
<1>3. CASE Reviews
  <2>1. used'.lost >= used.lost /\ used'.failed = used.failed
    BY <1>0, <1>3 DEF Reviews, SameStarts, KeepsRecord, WritesMem, Writes, Numbers
  <2>2. /\ \A h \in disk'.held : h.round \in forge'.marks
        /\ mem'.round \in forge'.marks /\ forge.marks \subseteq forge'.marks
    BY <1>3 DEF Reviews, ReachedInv
  <2>3. seen'.reached <= 1 \/ \E k \in forge'.marks : seen'.reached <= k + 1
    BY <1>0, <1>3, <2>2 DEF Reviews, ReachedInv, Numbers
  <2>4. pc' # "paused"
    BY <1>3 DEF Reviews
  <2>5. RoundKept'
    BY <1>0, <1>3, <2>1 DEF Reviews, Running, RoundKept, Numbers
  <2> QED
    BY <2>2, <2>3, <2>4, <2>5 DEF ReachedInv
<1>4. CASE Publishes
  BY <1>4 DEF Publishes, ReachedInv, RoundKept, Running
<1>5. CASE Pauses
  <2>1. ASSUME used'.lost = 0, used'.failed = 0
        PROVE  store' # None /\ store'.round >= seen.reached
    <3>1. used.lost = 0 /\ used.failed = 0 /\ store' # None /\ store'.round = mem.round
      BY <1>0, <1>5, <2>1 DEF Pauses, Writes, SameStarts, Numbers
    <3> QED
      BY <1>5, <3>1 DEF Pauses, RoundKept
  <2> QED
    BY <1>5, <2>1 DEF Pauses, ReachedInv, RoundKept, Running
<1>6. CASE Dies
  BY <1>6 DEF Dies, ReachedInv, RoundKept, Running
<1>7. CASE WorldMoves
  BY <1>7 DEF WorldMoves, SameStarts, ReachedInv, RoundKept, Running
<1>8. CASE Attaches \/ Resumes
  <2>1. StartsWork /\ seen'.reached = seen.reached
    BY <1>8, RestartedType DEF Attaches, Resumes, StartsWork
  <2>2. ReachedInv'
    BY <2>1 DEF StartsWork, ReachedInv
  <2>3. CASE Attaches
    <3>1. mem'.round >= seen.reached
      BY <1>0, <2>3 DEF Attaches, ReachedInv, Numbers
    <3> QED
      BY <2>1, <2>2, <3>1 DEF RoundKept
  <2>4. CASE Resumes
    <3>1. ASSUME used'.lost = 0, used'.failed = 0
          PROVE  mem'.round >= seen.reached
      <4>1. used.lost = 0 /\ used.failed = 0 /\ pc = "paused"
        BY <1>0, <2>4, <3>1 DEF Resumes, SameStarts, WritesMem, Writes, Numbers
      <4>2. store # None /\ store.round >= seen.reached /\ mem'.round >= store.round
        BY <2>1, <4>1 DEF ReachedInv, StartsWork
      <4> QED
        BY <1>0, <4>2 DEF Numbers
    <3> QED
      BY <2>1, <2>2, <3>1 DEF RoundKept
  <2> QED
    BY <1>8, <2>3, <2>4
<1>9. CASE FailsToStart
  <2>1. used'.failed # 0 /\ seen'.reached = seen.reached
    BY <1>0, <1>9, RestartedType DEF FailsToStart, Numbers
  <2> QED
    BY <1>9, <2>1 DEF FailsToStart, ReachedInv, RoundKept
<1>10. CASE UNCHANGED vars
  BY <1>10 DEF vars, ReachedInv, RoundKept, Running
<1> QED
  BY <1>1, <1>2, <1>3, <1>4, <1>5, <1>6, <1>7, <1>8, <1>9, <1>10 DEF Kind

\* The findings of the last assessed round.
LEMMA BlockingStep ==
  ASSUME RoundLoopTypeOK, RoundLoopTypeOK', BlockingInv, Kind
  PROVE  BlockingInv'
<1>0. Numbers /\ Numbers' /\ seen \in History /\ mem' \in DriverState
  BY NumbersTyped DEF RoundLoopTypeOK
<1>1. SUFFICES ASSUME used'.lost = 0
               PROVE  /\ StoredBlocking' = seen'.blocking
                      /\ Running' => mem'.ls.lastBlockingFindings = seen'.blocking
  BY DEF BlockingInv
<1>2. SUFFICES ASSUME used.lost = 0, StoredBlocking = seen.blocking,
                      Running => mem.ls.lastBlockingFindings = seen.blocking
               PROVE  /\ StoredBlocking' = seen'.blocking
                      /\ Running' => mem'.ls.lastBlockingFindings = seen'.blocking
  <2>1. used.lost = 0
    BY <1>0, <1>1, LostGrows DEF Numbers
  <2> QED
    BY <2>1 DEF BlockingInv
<1>3. ASSUME NEW r, NEW s, NEW i, NEW b, Writes(r, s, i, b)
      PROVE  store' # None /\ store'.blocking = b
  BY <1>1, <1>2, <1>3 DEF Writes
<1>4. CASE Works \/ Reads \/ Stalls
  <2>1. /\ Running /\ mem'.ls.lastBlockingFindings = mem.ls.lastBlockingFindings
        /\ seen'.blocking = seen.blocking
    BY <1>0, <1>4 DEF Works, Reads, Stalls, GoesOn, SameRound, SeenGate, History
  <2>2. store' = store \/ (store' # None /\ store'.blocking = mem'.ls.lastBlockingFindings)
    BY <1>3, <1>4 DEF Works, Reads, Stalls, KeepsRecord, WritesMem
  <2> QED
    BY <1>2, <2>1, <2>2 DEF StoredBlocking
<1>5. CASE EndsRound
  <2>1. seen'.blocking = mem'.ls.lastBlockingFindings
    BY <1>0, <1>5 DEF EndsRound, SeenRound, History
  <2>2. store' # None /\ store'.blocking = mem'.ls.lastBlockingFindings
    BY <1>3, <1>5 DEF EndsRound, WritesMem
  <2> QED
    BY <2>1, <2>2 DEF StoredBlocking
<1>6. CASE Reviews
  <2>1. Running
    BY <1>6 DEF Reviews, Running
  <2>2. CASE /\ KeepsRecord \/ WritesMem
             /\ seen'.blocking = seen.blocking
             /\ mem'.ls.lastBlockingFindings = mem.ls.lastBlockingFindings
    BY <1>2, <1>3, <2>1, <2>2 DEF KeepsRecord, WritesMem, StoredBlocking
  <2>3. CASE WritesMem /\ seen'.blocking = mem'.ls.lastBlockingFindings
    BY <1>3, <2>3 DEF WritesMem, StoredBlocking
  <2> QED
    BY <1>6, <2>2, <2>3 DEF Reviews
<1>7. CASE Publishes \/ Pauses
  <2>1. Running /\ ~Running' /\ seen' = seen
    BY <1>7 DEF Publishes, Pauses, Running
  <2>2. store' # None /\ store'.blocking = mem.ls.lastBlockingFindings
    BY <1>3, <1>7 DEF Publishes, Pauses
  <2> QED
    BY <1>2, <2>1, <2>2 DEF StoredBlocking
<1>8. CASE Dies \/ WorldMoves \/ UNCHANGED vars
  BY <1>2, <1>8 DEF Dies, WorldMoves, vars, KeepsRecord, StoredBlocking, Running
<1>9. CASE Attaches \/ Resumes
  <2>1. StartsWork /\ seen'.blocking = seen.blocking
    BY <1>9, RestartedType DEF Attaches, Resumes, StartsWork
  <2>2. mem'.ls.lastBlockingFindings = StoredBlocking
    BY <2>1 DEF StartsWork
  <2>3. store' = store \/ (store' # None /\ store'.blocking = StoredBlocking)
    BY <1>3, <1>9, <2>2 DEF Attaches, Resumes, KeepsRecord, WritesMem
  <2> QED
    BY <1>2, <2>1, <2>2, <2>3 DEF StoredBlocking
<1>10. CASE FailsToStart
  <2>1. store' # None /\ store'.blocking = StoredBlocking
    BY <1>3, <1>10 DEF FailsToStart
  <2> QED
    BY <1>2, <1>10, <2>1, RestartedType DEF FailsToStart, StoredBlocking, Running
<1> QED
  BY <1>4, <1>5, <1>6, <1>7, <1>8, <1>9, <1>10 DEF Kind

\* The retries and the bare resumes they pay for.
LEMMA BareStep ==
  ASSUME RoundLoopTypeOK, RoundLoopTypeOK', ApprovalInv, BareInv, BareResumesBounded, Kind
  PROVE  BareInv' /\ BareResumesBounded'
<1>0. Numbers /\ Numbers' /\ seen \in History
  BY NumbersTyped DEF RoundLoopTypeOK
<1>1. used'.lost >= used.lost
  BY <1>0, LostGrows
<1>2. ASSUME NEW r, NEW s, NEW i \in Nat, NEW b, Writes(r, s, i, b), i >= StoredInfra
      PROVE  StoredInfra' + used'.lost >= StoredInfra + used.lost
  BY <1>0, <1>2 DEF Writes, StoredInfra, Numbers
<1>3. ASSUME NEW r, NEW s, NEW i \in Nat, NEW b, Writes(r, s, i, b), NEW n \in Nat,
             n <= i + used.lost, n <= StoredInfra + used.lost + 1
      PROVE  n <= StoredInfra' + used'.lost
  BY <1>0, <1>3 DEF Writes, StoredInfra, Numbers
<1>4. CASE Works \/ Reads \/ Stalls \/ EndsRound
  <2>1. GoesOn /\ seen'.bare = seen.bare
    BY <1>0, <1>4 DEF Works, Reads, Stalls, EndsRound, SeenGate, SeenRound, History
  <2>2. /\ seen.bare <= mem.infra + used.lost /\ seen.bare <= StoredInfra + used.lost
        /\ mem'.infra >= mem.infra /\ pc' # "paused"
    BY <2>1 DEF GoesOn, WorkPlace, BareInv
  <2>3. seen'.bare <= mem'.infra + used'.lost
    BY <1>0, <1>1, <2>1, <2>2 DEF Numbers
  <2>4. seen'.bare <= StoredInfra' + used'.lost
    <3>1. CASE KeepsRecord
      BY <2>1, <2>2, <3>1 DEF KeepsRecord, StoredInfra
    <3>2. CASE ~KeepsRecord
      <4>1. \E r, s, b : \E i \in {mem.infra, mem'.infra} : Writes(r, s, i, b)
        BY <1>4, <3>2 DEF Works, Reads, Stalls, EndsRound, WritesMem
      <4>2. PICK r, s, b, i : i \in {mem.infra, mem'.infra} /\ Writes(r, s, i, b)
        BY <4>1
      <4>3. i \in Nat /\ seen.bare <= i + used.lost /\ seen.bare <= StoredInfra + used.lost + 1
            /\ seen.bare \in Nat
        BY <1>0, <2>2, <4>2 DEF Numbers
      <4> QED
        BY <1>3, <2>1, <4>2, <4>3
    <3> QED
      BY <3>1, <3>2
  <2>5. ASSUME pc' = "pause", mem'.reason \in Automatic
        PROVE  mem'.infra >= MaxInfra \/ seen'.bare + 1 <= mem'.infra + used'.lost
    BY <1>0, <1>1, <2>1, <2>2, <2>5 DEF GoesOn, Numbers
  <2>6. BareResumesBounded'
    BY <1>0, <1>1, <2>1 DEF BareResumesBounded, Numbers
  <2> QED
    BY <2>2, <2>3, <2>4, <2>5, <2>6 DEF BareInv
<1>5. CASE Reviews
  <2>1. /\ seen'.bare = seen.bare /\ mem'.infra = mem.infra /\ pc' \notin {"pause", "paused"}
        /\ seen.bare <= mem.infra + used.lost /\ seen.bare <= StoredInfra + used.lost
    BY <1>5 DEF Reviews, Running, BareInv
  <2>2. seen'.bare <= StoredInfra' + used'.lost
    <3>1. CASE KeepsRecord
      BY <2>1, <3>1 DEF KeepsRecord, StoredInfra
    <3>2. CASE WritesMem
      <4>1. mem'.infra \in Nat /\ seen.bare \in Nat /\ seen.bare <= mem'.infra + used.lost
            /\ seen.bare <= StoredInfra + used.lost + 1
        BY <1>0, <2>1 DEF Numbers
      <4> QED
        BY <1>3, <2>1, <3>2, <4>1 DEF WritesMem
    <3> QED
      BY <1>5, <3>1, <3>2 DEF Reviews
  <2> QED
    BY <1>0, <1>1, <2>1, <2>2 DEF BareInv, BareResumesBounded, Numbers
<1>6. CASE Publishes
  <2>1. /\ seen'.bare = seen.bare /\ pc' = "published"
        /\ seen.bare <= mem.infra + used.lost /\ seen.bare <= StoredInfra + used.lost
    BY <1>6 DEF Publishes, Running, BareInv
  <2>2. seen'.bare <= StoredInfra' + used'.lost
    <3>1. mem.infra \in Nat /\ seen.bare \in Nat /\ seen.bare <= StoredInfra + used.lost + 1
      BY <1>0, <2>1 DEF Numbers
    <3> QED
      BY <1>3, <1>6, <2>1, <3>1 DEF Publishes
  <2> QED
    BY <1>0, <1>1, <2>1, <2>2 DEF BareInv, BareResumesBounded, Running, Numbers
<1>7. CASE Pauses
  <2> DEFINE i == disk'.pause.infra
  <2>1. /\ seen' = seen /\ pc' = "paused" /\ i >= mem.infra /\ i \in Nat
        /\ Writes(mem.round, mem.stalled, i, mem.ls.lastBlockingFindings)
        /\ seen.bare <= mem.infra + used.lost /\ seen.bare <= StoredInfra + used.lost
    BY <1>7 DEF Pauses, PauseState, BareInv
  <2>2. ASSUME disk'.pause.reason \in Automatic
        PROVE  i >= MaxInfra \/ seen.bare + 1 <= i + used.lost
    <3>1. CASE pc = "pause" /\ mem.reason \in Automatic
      BY <1>0, <2>1, <3>1 DEF BareInv, Numbers
    <3>2. CASE i = mem.infra + 1
      BY <1>0, <2>1, <3>2 DEF Numbers
    <3>3. i >= MaxInfra \/ i = mem.infra + 1 \/ (pc = "pause" /\ mem.reason \in Automatic)
      BY <1>7, <2>2 DEF Pauses
    <3> QED
      BY <3>1, <3>2, <3>3
  <2> HIDE DEF i
  <2>3. seen.bare <= StoredInfra' + used'.lost
    <3>1. seen.bare \in Nat /\ seen.bare <= i + used.lost
          /\ seen.bare <= StoredInfra + used.lost + 1
      BY <1>0, <2>1 DEF Numbers
    <3> QED
      BY <1>3, <2>1, <3>1
  <2>4. ASSUME disk'.pause.reason \in Automatic
        PROVE  i >= MaxInfra \/ seen.bare + 1 <= StoredInfra' + used'.lost
    <3>1. CASE seen.bare + 1 <= i + used.lost
      <4>1. seen.bare + 1 \in Nat /\ seen.bare + 1 <= StoredInfra + used.lost + 1
        BY <1>0, <2>1 DEF Numbers
      <4> QED
        BY <1>3, <2>1, <3>1, <4>1
    <3> QED
      BY <2>2, <2>4, <3>1
  <2>5. BareResumesBounded'
    BY <1>0, <1>1, <2>1 DEF BareResumesBounded, Numbers
  <2> QED
    BY <2>1, <2>3, <2>4, <2>5 DEF BareInv, Running, i
<1>8. CASE Dies \/ WorldMoves \/ UNCHANGED vars
  BY <1>8 DEF Dies, WorldMoves, vars, KeepsRecord, BareInv, BareResumesBounded, StoredInfra,
     Running
<1>9. ASSUME pc \in {"down", "paused"}, seen' = Restarted
      PROVE  /\ seen'.bare \in Nat /\ seen'.bare <= StoredInfra + used.lost
             /\ seen'.bare < MaxInfra + used.lost
  <2>1. CASE pc = "paused" /\ Bare
    <3>1. disk.pause.infra \in Nat /\ disk.pause.reason \in Automatic
          /\ Larger(disk.pause.infra, StoredInfra) < MaxInfra
      BY <2>1 DEF ApprovalInv, PauseState, Bare, StoredInfra
    <3>2. disk.pause.infra < MaxInfra /\ StoredInfra < MaxInfra
      BY <1>0, <3>1 DEF Larger, Numbers
    <3>3. seen.bare + 1 <= StoredInfra + used.lost
      BY <1>0, <2>1, <3>1, <3>2 DEF BareInv, Numbers
    <3> QED
      BY <1>0, <1>9, <2>1, <3>2, <3>3, RestartedType DEF Numbers
  <2>2. CASE ~(pc = "paused" /\ Bare)
    BY <1>0, <1>9, <2>2, RestartedType DEF BareInv, BareResumesBounded, Numbers
  <2> QED
    BY <2>1, <2>2
<1>10. CASE Attaches \/ Resumes
  <2>1. StartsWork
    BY <1>10 DEF Attaches, Resumes
  <2>2. /\ seen'.bare \in Nat /\ seen'.bare <= StoredInfra + used.lost
        /\ seen'.bare < MaxInfra + used.lost /\ mem'.infra >= StoredInfra
        /\ pc' # "paused" /\ (pc' = "pause" => mem'.reason \notin Automatic)
    BY <1>9, <2>1 DEF StartsWork
  <2>3. StoredInfra' + used'.lost >= StoredInfra + used.lost
    <3>1. CASE KeepsRecord
      BY <1>0, <3>1 DEF KeepsRecord, StoredInfra, Numbers
    <3>2. CASE ~KeepsRecord
      <4>1. \E r, s, b : \E i \in {StoredInfra, mem'.infra} : Writes(r, s, i, b)
        BY <1>10, <3>2 DEF Attaches, Resumes, WritesMem
      <4>2. PICK r, s, b, i : i \in {StoredInfra, mem'.infra} /\ Writes(r, s, i, b)
        BY <4>1
      <4>3. i \in Nat /\ i >= StoredInfra
        BY <1>0, <2>2, <4>2 DEF Numbers
      <4> QED
        BY <1>2, <4>2, <4>3
    <3> QED
      BY <3>1, <3>2
  <2> QED
    BY <1>0, <1>1, <2>2, <2>3 DEF BareInv, BareResumesBounded, Numbers
<1>11. CASE FailsToStart
  <2> DEFINE i == disk'.pause.infra
  <2>1. /\ seen'.bare \in Nat /\ seen'.bare <= StoredInfra + used.lost
        /\ seen'.bare < MaxInfra + used.lost
    BY <1>9, <1>11 DEF FailsToStart
  <2>2. /\ pc' = "paused" /\ i \in Nat /\ i >= StoredInfra
        /\ i >= MaxInfra \/ i = StoredInfra + 1
        /\ Writes(disk'.pause.round, StoredStalled, i, StoredBlocking)
    BY <1>11 DEF FailsToStart, PauseState
  <2> HIDE DEF i
  <2>3. StoredInfra' + used'.lost >= StoredInfra + used.lost
    BY <1>2, <2>2
  <2>4. i >= MaxInfra \/ seen'.bare + 1 <= StoredInfra' + used'.lost
    <3>1. CASE i = StoredInfra + 1
      <4>1. /\ seen'.bare + 1 \in Nat /\ seen'.bare + 1 <= i + used.lost
            /\ seen'.bare + 1 <= StoredInfra + used.lost + 1
        BY <1>0, <2>1, <3>1 DEF Numbers
      <4> QED
        BY <1>3, <2>2, <4>1
    <3> QED
      BY <2>2, <3>1
  <2>5. seen'.bare <= StoredInfra' + used'.lost /\ BareResumesBounded'
    BY <1>0, <1>1, <2>1, <2>3 DEF BareResumesBounded, Numbers
  <2> QED
    BY <2>2, <2>4, <2>5 DEF BareInv, Running, i
<1> QED
  BY <1>4, <1>5, <1>6, <1>7, <1>8, <1>10, <1>11 DEF Kind

\* The stall count.
LEMMA StallStep ==
  ASSUME RoundLoopTypeOK, RoundLoopTypeOK', NumberInv, StallInv, Kind
  PROVE  StallInv'
<1>0. Numbers /\ Numbers' /\ seen \in History
  BY NumbersTyped DEF RoundLoopTypeOK
<1>1. SUFFICES ASSUME used'.lost = 0
               PROVE  /\ seen'.idle <= StoredStalled'
                      /\ Running' => seen'.idle <= mem'.stalled
                      /\ Running' /\ pc' # "pause" =>
                           /\ seen'.read \/ mem'.survives
                           /\ seen'.idle + 1 < MaxStalled + used'.attaches
                      /\ seen'.idle < MaxStalled + used'.attaches
  BY DEF StallInv
<1>2. used.lost = 0
  BY <1>0, <1>1, LostGrows DEF Numbers
<1>3. /\ seen.idle <= StoredStalled
      /\ Running => seen.idle <= mem.stalled
      /\ Running /\ pc # "pause" =>
           /\ seen.read \/ mem.survives
           /\ seen.idle + 1 < MaxStalled + used.attaches
      /\ seen.idle < MaxStalled + used.attaches
  BY <1>2 DEF StallInv
<1>4. pc # "down" => used.attaches >= 1
  BY <1>0 DEF NumberInv, Numbers
<1>5. ASSUME NEW r, NEW s, NEW i, NEW b, Writes(r, s, i, b)
      PROVE  StoredStalled' = s
  BY <1>1, <1>2, <1>5 DEF Writes, StoredStalled
<1>6. ASSUME KeepsRecord
      PROVE  StoredStalled' = StoredStalled
  BY <1>6 DEF KeepsRecord, StoredStalled
<1>7. CASE Works \/ EndsRound
  <2>1. /\ Running /\ pc # "pause" /\ mem'.stalled = mem.stalled /\ used'.attaches = used.attaches
        /\ pc' # "pause" => mem'.survives = mem.survives
    BY <1>7 DEF Works, EndsRound, GoesOn, SameStall, SameStarts
  <2>2. seen'.idle = seen.idle /\ seen'.read = seen.read
    BY <1>0, <1>7 DEF Works, EndsRound, SeenRound, History
  <2>3. StoredStalled' \in {StoredStalled, mem'.stalled}
    BY <1>5, <1>6, <1>7 DEF Works, EndsRound, WritesMem
  <2>4. seen'.idle <= StoredStalled'
    BY <1>3, <2>1, <2>2, <2>3
  <2> QED
    BY <1>3, <2>1, <2>2, <2>4
<1>8. CASE Reads
  <2>1. /\ Running /\ pc # "pause" /\ used'.attaches = used.attaches
        /\ mem'.stalled = IF mem.survives THEN mem.stalled ELSE 0
    BY <1>8 DEF Reads, GoesOn, SameStarts
  <2>2. seen'.idle = (IF seen.read THEN 0 ELSE seen.idle) /\ seen'.read
    BY <1>0, <1>8 DEF Reads, SeenGate, History
  <2>3. StoredStalled' = mem'.stalled
    BY <1>5, <1>8 DEF Reads, WritesMem
  <2>4. seen'.idle <= mem'.stalled
    <3>1. CASE seen.read
      BY <1>0, <2>2, <3>1 DEF Numbers
    <3>2. CASE ~seen.read
      BY <1>3, <2>1, <2>2, <3>2
    <3> QED
      BY <3>1, <3>2
  <2>5. seen'.idle <= seen.idle
    BY <1>0, <2>2 DEF Numbers
  <2>6. seen'.idle + 1 < MaxStalled + used'.attaches
    BY <1>0, <1>3, <2>1, <2>5 DEF Numbers
  <2> QED
    BY <1>0, <2>2, <2>3, <2>4, <2>6 DEF Numbers
<1>9. CASE Stalls
  <2>1. /\ Running /\ pc # "pause" /\ pc # "down" /\ used'.attaches = used.attaches
        /\ mem'.stalled = mem.stalled + 1
    BY <1>9 DEF Stalls, GoesOn, SameStarts, Running
  <2>2. pc' # "pause" => mem'.survives = mem.survives /\ mem'.stalled < MaxStalled
    BY <1>9 DEF Stalls
  <2>3. seen'.idle = seen.idle + 1 /\ seen'.read = seen.read
    BY <1>0, <1>9 DEF Stalls, History
  <2>4. StoredStalled' = mem'.stalled
    BY <1>5, <1>9 DEF Stalls
  <2>5. seen'.idle <= mem'.stalled /\ seen'.idle < MaxStalled + used'.attaches
    BY <1>0, <1>3, <2>1, <2>3 DEF Numbers
  <2>6. pc' # "pause" => seen'.idle + 1 < MaxStalled + used'.attaches
    BY <1>0, <1>4, <2>1, <2>2, <2>5 DEF Numbers
  <2>7. pc' # "pause" => seen'.read \/ mem'.survives
    BY <1>3, <2>1, <2>2, <2>3
  <2> QED
    BY <2>4, <2>5, <2>6, <2>7
<1>10. CASE Reviews
  <2>1. /\ Running /\ pc # "pause" /\ mem'.stalled = mem.stalled /\ used'.attaches = used.attaches
        /\ mem'.survives = mem.survives
    BY <1>10 DEF Reviews, SameStall, SameStarts, Running
  <2>2. seen'.idle = seen.idle /\ seen'.read = seen.read
    BY <1>10 DEF Reviews
  <2>3. StoredStalled' \in {StoredStalled, mem'.stalled}
    BY <1>5, <1>6, <1>10 DEF Reviews, WritesMem
  <2>4. seen'.idle <= StoredStalled'
    BY <1>3, <2>1, <2>2, <2>3
  <2> QED
    BY <1>3, <2>1, <2>2, <2>4
<1>11. CASE Publishes \/ Pauses
  <2>1. Running /\ ~Running' /\ seen' = seen /\ used'.attaches = used.attaches
    BY <1>11 DEF Publishes, Pauses, Running, SameStarts
  <2>2. StoredStalled' = mem.stalled
    BY <1>5, <1>11 DEF Publishes, Pauses
  <2> QED
    BY <1>3, <2>1, <2>2
<1>12. CASE Dies \/ WorldMoves \/ UNCHANGED vars
  <2>1. StoredStalled' = StoredStalled
    BY <1>12 DEF Dies, WorldMoves, vars, KeepsRecord, StoredStalled
  <2> QED
    BY <1>3, <1>12, <2>1 DEF Dies, WorldMoves, vars, SameStarts, Running
<1>13. ASSUME seen' = Restarted, pc \in {"down", "paused"}
       PROVE  /\ seen'.idle = 0 \/ (seen'.idle = seen.idle /\ pc = "down")
              /\ seen'.idle > 0 \/ seen'.read
              /\ seen'.idle \in Nat
  <2>1. seen'.idle = (IF pc = "paused" THEN 0 ELSE seen.idle)
        /\ (pc = "paused" \/ seen.idle = 0 => seen'.read)
    BY <1>13, RestartedType
  <2> QED
    BY <1>0, <1>13, <2>1 DEF Numbers
<1>14. CASE Attaches \/ Resumes
  <2>1. StartsWork /\ pc \in {"down", "paused"} /\ mem'.stalled = StoredStalled
    BY <1>14 DEF Attaches, Resumes, StartsWork
  <2>2. /\ seen'.idle = 0 \/ (seen'.idle = seen.idle /\ pc = "down")
        /\ seen'.idle > 0 \/ seen'.read
        /\ seen'.idle \in Nat
    BY <1>13, <2>1 DEF StartsWork
  <2>3. seen'.idle <= StoredStalled
    BY <1>0, <1>3, <2>2 DEF Numbers
  <2>4. StoredStalled' = StoredStalled
    BY <1>5, <1>6, <1>14, <2>1 DEF Attaches, Resumes, WritesMem
  <2>5. pc' # "pause" => seen'.read \/ mem'.survives
    <3>1. StoredStalled > 0 \/ seen'.read
      BY <1>0, <2>2, <2>3 DEF Numbers
    <3> QED
      BY <2>1, <3>1 DEF StartsWork
  <2>6. seen'.idle + 1 < MaxStalled + used'.attaches
    <3>1. CASE Attaches
      BY <1>0, <1>3, <2>2, <3>1 DEF Attaches, Numbers
    <3>2. CASE Resumes
      BY <1>0, <1>4, <2>2, <3>2 DEF Resumes, SameStarts, Numbers
    <3> QED
      BY <1>14, <3>1, <3>2
  <2> QED
    BY <1>0, <2>1, <2>2, <2>3, <2>4, <2>5, <2>6 DEF Numbers
<1>15. CASE FailsToStart
  <2>1. /\ seen'.idle = 0 \/ (seen'.idle = seen.idle /\ pc = "down")
        /\ seen'.idle \in Nat /\ ~Running' /\ used'.attaches = used.attaches + 1
    BY <1>13, <1>15 DEF FailsToStart, Running
  <2>2. StoredStalled' = StoredStalled
    BY <1>5, <1>15 DEF FailsToStart
  <2> QED
    BY <1>0, <1>3, <2>1, <2>2 DEF Numbers
<1> QED
  BY <1>7, <1>8, <1>9, <1>10, <1>11, <1>12, <1>14, <1>15 DEF Kind

-----------------------------------------------------------------------------
\* The initial state satisfies the types and the invariant.
LEMMA RoundLoopInit ==
  ASSUME Init
  PROVE  RoundLoopTypeOK /\ RoundLoopInv
<1>1. /\ pc = "down" /\ mem = NoDriver /\ store = None
      /\ disk = [held |-> {}, redelivered |-> {}, pause |-> None]
      /\ forge = [head |-> [patch |-> 1, rev |-> 0], clash |-> FALSE, marks |-> {},
                  ordinal |-> 0, published |-> None]
      /\ used = [events |-> 0, lost |-> 0, attaches |-> 0, resumes |-> 0, failed |-> 0]
      /\ seen = [reached |-> 1, blocking |-> {}, cleared |-> {}, idle |-> 0,
                 read |-> TRUE, bare |-> 0]
  BY DEF Init
<1>2. [patch |-> 1, rev |-> 0] \in Head
  BY DEF Head
<1>3. disk \in RunFolder /\ forge \in PullRequest
  BY <1>1, <1>2 DEF RunFolder, PullRequest
<1>4. used \in Usage /\ seen \in History
  BY <1>1 DEF Usage, History
<1>5. RoundLoopTypeOK
  BY <1>1, <1>3, <1>4, NoDriverType DEF RoundLoopTypeOK, Place
<1>6. /\ ~Running /\ mem.round = 1
      /\ disk.held = {} /\ forge.marks = {} /\ forge.ordinal = 0 /\ forge.published = None
      /\ used.lost = 0 /\ used.attaches = 0
      /\ seen.reached = 1 /\ seen.idle = 0 /\ seen.bare = 0 /\ seen.blocking = {}
      /\ StoredInfra = 0 /\ StoredStalled = 0 /\ StoredBlocking = {}
  BY <1>1, NoDriverType DEF Running, StoredInfra, StoredStalled, StoredBlocking
<1>7. /\ MaxRounds \in Nat /\ MaxRounds >= 1 /\ MaxInfra \in Nat /\ MaxInfra >= 1
      /\ MaxStalled \in Nat /\ MaxStalled >= 1
  BY PolicyAssumption, LoopAssumption
<1>8. ApprovalInv /\ PublishedIsApproved
  BY <1>1, <1>6 DEF ApprovalInv, PublishedIsApproved
<1>9. NumberInv /\ RoundBound
  BY <1>1, <1>6, <1>7 DEF NumberInv, RoundBound, Larger
<1>10. ReachedInv /\ RoundKept
  BY <1>1, <1>6 DEF ReachedInv, RoundKept
<1>11. StallInv
  BY <1>1, <1>6, <1>7 DEF StallInv
<1>12. BareInv /\ BareResumesBounded
  BY <1>1, <1>6, <1>7 DEF BareInv, BareResumesBounded, Running
<1>13. BlockingInv
  BY <1>1, <1>6 DEF BlockingInv
<1> QED
  BY <1>5, <1>8, <1>9, <1>10, <1>11, <1>12, <1>13 DEF RoundLoopInv

\* Every step preserves both.
LEMMA RoundLoopStep ==
  ASSUME RoundLoopTypeOK, RoundLoopInv, [Next]_vars
  PROVE  RoundLoopTypeOK' /\ RoundLoopInv'
<1>1. RoundLoopTypeOK' /\ Kind
  BY EveryStepHasAKind DEF RoundLoopInv
<1> QED
  BY <1>1, ApprovalStep, NumberStep, ReachedStep, StallStep, BareStep, BlockingStep
  DEF RoundLoopInv

\* A round that goes back to the Developer is blocked on nothing that blocked the
\* round assessed before it.
LEMMA RepeatStep ==
  ASSUME RoundLoopTypeOK, RoundLoopInv, [Next]_vars,
         pc = "held", pc' = "dispatch_developer", used'.lost = 0
  PROVE  mem.verdict.blocking \cap seen.blocking = {}
<1>1. RoundLoopTypeOK' /\ Kind /\ ApprovalInv /\ BlockingInv
  BY EveryStepHasAKind DEF RoundLoopInv
<1>2. used.lost = 0
  BY <1>1, NumbersTyped, LostGrows DEF Numbers
<1>3. mem.ls.lastBlockingFindings = seen.blocking
  BY <1>1, <1>2 DEF BlockingInv, Running
<1>4. /\ mem.ls \in LoopState /\ mem.round \in Nat /\ mem.verdict \in Verdict
      /\ mem.verdict \in MergedVerdict
  BY <1>1, HeldVerdict DEF RoundLoopTypeOK, DriverState, ApprovalInv
<1> DEFINE result == AssessVerdicts(mem.ls, mem.round, mem.verdict)
<1>5. /\ result.type \in {"dispatch_developer", "publish", "pause"}
      /\ result.type = "pause" => result.reason \in Reason \ Automatic
      /\ result.state \in LoopState
      /\ result.type = "publish" => mem.verdict.verdict = "clean"
      /\ result.type = "dispatch_developer" =>
           mem.verdict.blocking \cap mem.ls.lastBlockingFindings = {}
  BY <1>4, VerdictsAnswer
<1>6. AssessReview \/ LiveFailed
  BY DEF Next, DriverStep, BeginTurn, ConnectionRetry, TurnEnds, UnpushedWork, Stall, ReadRed,
     ResumedTurnEnds, RerunChecks, GreenAtStall, GateConflict, ReadGreen, AskConfidence,
     ReviewConflict, StartReview, ReviewFails, InputsMoved, HoldVerdicts, LivePassed,
     CarriedLivePassed, CarriedLiveFailed, PublishConflict, PublishRound, StaleDriver,
     TopOfLoop, WritePause, Crash, Attach, AttachRedelivers, AttachNoProgress, AttachFails,
     Starting, Reattaches, MayResume, Resume, Kill, Push, Rebase, BaseMoves, Rule, vars, Becomes
<1>7. CASE AssessReview
  <2> HIDE DEF result
  <2>1. result.type # "publish" /\ \E m : Decided(m, result)
    BY <1>7 DEF AssessReview, result
  <2>2. result.type = "dispatch_developer"
    BY <1>5, <2>1 DEF Decided, PausesFor, Becomes
  <2> QED
    BY <1>3, <1>5, <2>2
<1>8. CASE LiveFailed
  <2>1. mem.verdict.verdict = "clean"
    BY <1>5, <1>8 DEF LiveFailed
  <2> QED
    BY <1>4, <2>1, LoopAssumption
<1> QED
  BY <1>6, <1>7, <1>8

-----------------------------------------------------------------------------
(***************************************************************************)
(* The driver's variables, the records it writes and the pull request stay *)
(* well typed, whatever is killed, lost or moved in between.               *)
(***************************************************************************)
THEOREM RoundLoopTypeCorrect == Spec => []RoundLoopTypeOK
<1>1. Init => RoundLoopTypeOK /\ RoundLoopInv
  BY RoundLoopInit
<1>2. RoundLoopTypeOK /\ RoundLoopInv /\ [Next]_vars => (RoundLoopTypeOK /\ RoundLoopInv)'
  BY RoundLoopStep
<1> QED
  BY <1>1, <1>2, PTL DEF Spec

(***************************************************************************)
(* The inductive invariant: what is held, recorded and marked covers what  *)
(* a driver that starts again will need.                                   *)
(***************************************************************************)
THEOREM RoundLoopInvariant == Spec => []RoundLoopInv
<1>1. Init => RoundLoopTypeOK /\ RoundLoopInv
  BY RoundLoopInit
<1>2. RoundLoopTypeOK /\ RoundLoopInv /\ [Next]_vars => (RoundLoopTypeOK /\ RoundLoopInv)'
  BY RoundLoopStep
<1> QED
  BY <1>1, <1>2, PTL DEF Spec

\* What is published was approved by both reviewers and passed its live check, over
\* any number of restarts, rebases and carried approvals.
THEOREM PublishedIsApprovedHolds == Spec => []PublishedIsApproved
<1>1. RoundLoopInv => PublishedIsApproved
  BY DEF RoundLoopInv
<1> QED
  BY <1>1, RoundLoopInvariant, PTL

\* The round number passes the cap only by attaches and by the rulings' ordinal.
THEOREM RoundBoundHolds == Spec => []RoundBound
<1>1. RoundLoopInv => RoundBound
  BY DEF RoundLoopInv
<1> QED
  BY <1>1, RoundLoopInvariant, PTL

\* No driver works below the round the task had reached, unless a write was lost or
\* an attach failed at its first reads.
THEOREM RoundKeptHolds == Spec => []RoundKept
<1>1. RoundLoopInv => RoundKept
  BY DEF RoundLoopInv
<1> QED
  BY <1>1, RoundLoopInvariant, PTL

\* The idle turns of a stall episode stay within the budget and one more for each
\* driver that was started, while no write is lost.
THEOREM StallBudgetKeptHolds == Spec => []StallBudgetKept
<1>1. RoundLoopTypeOK /\ RoundLoopInv => StallBudgetKept
  <2> SUFFICES ASSUME RoundLoopTypeOK, RoundLoopInv, used.lost = 0
               PROVE  seen.idle < MaxStalled + Larger(used.attaches, 1)
    BY DEF StallBudgetKept
  <2>1. seen.idle < MaxStalled + used.attaches
    BY DEF RoundLoopInv, StallInv
  <2>2. used.attaches \in Nat /\ seen.idle \in Nat /\ MaxStalled \in Nat
    BY LoopAssumption DEF RoundLoopTypeOK, Usage, History
  <2> QED
    BY <2>1, <2>2 DEF Larger
<1> QED
  BY <1>1, RoundLoopTypeCorrect, RoundLoopInvariant, PTL

\* Resumes without a ruling stay below the retries and the writes that were lost.
THEOREM BareResumesBoundedHolds == Spec => []BareResumesBounded
<1>1. RoundLoopInv => BareResumesBounded
  BY DEF RoundLoopInv
<1> QED
  BY <1>1, RoundLoopInvariant, PTL

\* A finding that blocked the last assessed round never goes back to the Developer
\* a second time, whatever restarts lie between the two rounds, while no write is
\* lost.
THEOREM RepeatFindingPausesHolds == Spec => RepeatFindingPauses
<1> DEFINE P == /\ pc = "held" /\ pc' = "dispatch_developer" /\ used'.lost = 0
                => mem.verdict.blocking \cap seen.blocking = {}
<1>1. RoundLoopTypeOK /\ RoundLoopInv /\ [Next]_vars => [P]_vars
  BY RepeatStep
<1>2. [][P]_vars => RepeatFindingPauses
  BY DEF RepeatFindingPauses
<1> HIDE DEF P
<1> QED
  BY <1>1, <1>2, RoundLoopTypeCorrect, RoundLoopInvariant, PTL DEF Spec
=============================================================================
