-------------------------- MODULE ResolutionProofs --------------------------
(***************************************************************************)
(* Proofs about Resolution, for any number of watching drivers, operators, *)
(* pauses, rulings, epochs, retries and faults.                            *)
(***************************************************************************)
EXTENDS Resolution, TLAPS

-----------------------------------------------------------------------------
(***************************************************************************)
(* What the steps of a process do to its record.                           *)
(***************************************************************************)
Moved(a, x) == [a EXCEPT !.pc = x]
Bound(a, op, n) == [a EXCEPT !.pc = "check", !.op = op, !.esc = n]
Unbound(a) == [a EXCEPT !.pc = "gate", !.esc = 0]
Owning(a, e) == [a EXCEPT !.pc = "assert", !.mine = e]

\* Each of the updates keeps the fields it does not name.
LEMMA Updates ==
  ASSUME NEW a \in Attempt, NEW x \in Place, NEW op \in Decision,
         NEW n \in 0..MaxPauses, NEW e \in 0..MaxEpoch
  PROVE  /\ /\ Moved(a, x) \in Attempt
            /\ Moved(a, x).pc = x /\ Moved(a, x).op = a.op /\ Moved(a, x).esc = a.esc
         /\ /\ Bound(a, op, n) \in Attempt
            /\ Bound(a, op, n).pc = "check"
            /\ Bound(a, op, n).op = op /\ Bound(a, op, n).esc = n
         /\ Unbound(a) \in Attempt /\ Unbound(a).pc = "gate" /\ Unbound(a).esc = 0
         /\ /\ Owning(a, e) \in Attempt
            /\ Owning(a, e).pc = "assert" /\ Owning(a, e).esc = a.esc
<1>1. "check" \in Place /\ "gate" \in Place /\ "assert" \in Place /\ 0 \in 0..MaxPauses
  BY ResolutionAssumption DEF Place, Stepping
<1> HIDE DEF Place
<1>2. Moved(a, x) \in Attempt /\ Moved(a, x).pc = x
      /\ Moved(a, x).op = a.op /\ Moved(a, x).esc = a.esc
  BY DEF Attempt, Moved
<1>3. Bound(a, op, n) \in Attempt /\ Bound(a, op, n).pc = "check"
      /\ Bound(a, op, n).op = op /\ Bound(a, op, n).esc = n
  BY <1>1 DEF Attempt, Bound
<1>4. Unbound(a) \in Attempt /\ Unbound(a).pc = "gate" /\ Unbound(a).esc = 0
  BY <1>1 DEF Attempt, Unbound
<1>5. Owning(a, e) \in Attempt /\ Owning(a, e).pc = "assert" /\ Owning(a, e).esc = a.esc
  BY <1>1 DEF Attempt, Owning
<1> QED
  BY <1>2, <1>3, <1>4, <1>5

\* A process that is out of the task remembers nothing of it.
LEMMA OutType == Out \in Attempt /\ Out.pc = "out" /\ Out.op = "resume" /\ Out.esc = 0
BY ResolutionAssumption DEF Out, Attempt, Place, Stepping, Decision

\* A process that goes on keeps its decision and its pause.
LEMMA GoFacts ==
  ASSUME at \in [Proc -> Attempt], NEW p \in Proc, NEW x \in Place, Go(p, x)
  PROVE  /\ at' \in [Proc -> Attempt]
         /\ at'[p].pc = x /\ at'[p].op = at[p].op /\ at'[p].esc = at[p].esc
         /\ \A q \in Proc \ {p} : at'[q] = at[q]
<1>1. at' = [at EXCEPT ![p] = Moved(at[p], x)]
  BY DEF Go, Moved
<1> QED
  <2>1. PICK op \in Decision, n \in 0..MaxPauses, e \in 0..MaxEpoch : TRUE
    BY ResolutionAssumption DEF Decision
  <2> QED
    BY <1>1, <2>1, Updates

\* A process that leaves the task forgets it.
LEMMA LeaveFacts ==
  ASSUME at \in [Proc -> Attempt], NEW p \in Proc, Leave(p)
  PROVE  /\ at' \in [Proc -> Attempt]
         /\ at'[p].pc = "out" /\ \A q \in Proc \ {p} : at'[q] = at[q]
BY OutType DEF Leave

\* An attempt begins bound to the current pause.
LEMMA BeginFacts ==
  ASSUME at \in [Proc -> Attempt], NEW p \in Proc, NEW op \in Decision,
         pause \in Pause, Begin(p, op)
  PROVE  /\ at' \in [Proc -> Attempt]
         /\ at'[p].pc = "check" /\ at'[p].op = op /\ at'[p].esc = pause
         /\ \A q \in Proc \ {p} : at'[q] = at[q]
<1>1. at' = [at EXCEPT ![p] = Bound(Out, op, pause)]
  BY DEF Begin, Bound
<1>2. pause \in 0..MaxPauses /\ 0 \in 0..MaxEpoch /\ "out" \in Place
  BY ResolutionAssumption DEF Pause, Place
<1> QED
  BY <1>1, <1>2, OutType, Updates

\* A failed retry keeps the types of what it counts.
LEMMA CountRetryFacts ==
  ASSUME spent \in [Pause -> Nat], watch \in [Watcher -> Watch],
         NEW p \in Watcher, NEW n, NEW w \in Watch, NEW cost \in 0..1,
         CountRetry(p, n, w, cost)
  PROVE  spent' \in [Pause -> Nat] /\ watch' \in [Watcher -> Watch]
<1> DEFINE c == IF w.bare THEN cost ELSE 0
           b == w.exhausted \/ (w.bare /\ spent[n] + c >= MaxRetries)
<1>1. c \in Nat /\ b \in BOOLEAN
  BY DEF Watch
<1>2. spent' = [spent EXCEPT ![n] = spent[n] + c]
      /\ watch' = [watch EXCEPT ![p] = [w EXCEPT !.exhausted = b]]
  BY DEF CountRetry
<1> HIDE DEF b, c
<1>3. [w EXCEPT !.exhausted = b] \in Watch
  BY <1>1 DEF Watch
<1>4. \A m \in Pause : (IF m = n THEN spent[n] + c ELSE spent[m]) \in Nat
  BY <1>1
<1>5. spent' = [m \in Pause |-> IF m = n THEN spent[n] + c ELSE spent[m]]
  BY <1>2
<1> QED
  BY <1>2, <1>3, <1>4, <1>5

\* An attempt that throws keeps its decision and the types, whatever it costs.
LEMMA FailFacts ==
  ASSUME ResolutionTypeOK, NEW p \in Proc, NEW cost \in 0..1, Fail(p, cost)
  PROVE  /\ spent' \in [Pause -> Nat] /\ watch' \in [Watcher -> Watch]
         /\ at' \in [Proc -> Attempt]
         /\ \/ p \in Watcher /\ at'[p].pc = "watching"
            \/ p \in Operator /\ at'[p].pc = "out"
         /\ \A q \in Proc \ {p} : at'[q] = at[q]
<1>1. "watching" \in Place
  BY DEF Place
<1>2. CASE p \in Watcher /\ Go(p, "watching") /\ CountRetry(p, pause, watch[p], cost)
  BY <1>1, <1>2, GoFacts, CountRetryFacts DEF ResolutionTypeOK
<1>3. CASE p \in Operator /\ Leave(p) /\ UNCHANGED <<spent, watch>>
  BY <1>3, LeaveFacts DEF ResolutionTypeOK
<1> QED
  BY <1>2, <1>3 DEF Fail

\* A driver that pauses keeps the lock exactly when it is going to watch.
LEMMA PausedFacts ==
  ASSUME at \in [Proc -> Attempt], NEW p \in Proc, Paused(p)
  PROVE  /\ at' \in [Proc -> Attempt]
         /\ \/ p \in Watcher /\ at'[p].pc = "paused" /\ holder' = holder
            \/ p \in Operator /\ at'[p].pc = "out" /\ holder' = Nobody
         /\ \A q \in Proc \ {p} : at'[q] = at[q]
<1>1. "paused" \in Place
  BY DEF Place
<1> QED
  BY <1>1, GoFacts, LeaveFacts DEF Paused

-----------------------------------------------------------------------------
(***************************************************************************)
(* Types.                                                                  *)
(***************************************************************************)
\* Every step keeps the types of the records and of the processes' memories.
LEMMA TypeStep ==
  ResolutionTypeOK /\ ResolutionInv /\ [Next]_vars => ResolutionTypeOK'
<1> SUFFICES ASSUME ResolutionTypeOK, ResolutionInv, [Next]_vars
             PROVE  ResolutionTypeOK'
  OBVIOUS
<1> USE ResolutionAssumption
<1> USE DEF ResolutionTypeOK
<1>1. ASSUME NEW p \in Proc, PauseRun(p)
      PROVE  ResolutionTypeOK'
  <2>1. /\ at' \in [Proc -> Attempt] /\ holder' \in Proc \cup {Nobody}
    BY <1>1, PausedFacts DEF PauseRun
  <2>2. pause' \in 0..MaxPauses /\ epoch' \in 0..MaxEpoch /\ pause + 1 \in Pause
    BY <1>1 DEF PauseRun, Pause
  <2>3. kind' \in [Pause -> {"bare", "ruling"}] /\ spent' \in [Pause -> Nat]
    BY <1>1, <2>2 DEF PauseRun
  <2>4. recorded' \in [Pause -> BOOLEAN] /\ raised' \in [Pause -> 0..MaxRulings]
    BY <1>1, <2>2 DEF PauseRun
  <2> QED
    BY <1>1, <2>1, <2>2, <2>3, <2>4 DEF PauseRun, faults
<1>2. ASSUME NEW p \in Proc, PauseAgain(p)
      PROVE  ResolutionTypeOK'
  <2>1. /\ at' \in [Proc -> Attempt] /\ holder' \in Proc \cup {Nobody}
    BY <1>2, PausedFacts DEF PauseAgain
  <2>2. epoch' \in 0..MaxEpoch /\ pause \in Pause
    BY <1>2 DEF PauseAgain, Pause
  <2>3. spent' \in [Pause -> Nat]
    BY <1>2, <2>2 DEF PauseAgain
  <2>4. recorded' \in [Pause -> BOOLEAN] /\ raised' \in [Pause -> 0..MaxRulings]
    BY <1>2, <2>2 DEF PauseAgain
  <2> QED
    BY <1>2, <2>1, <2>2, <2>3, <2>4 DEF PauseAgain, faults
<1>3. ASSUME NEW p \in Proc, EndRun(p)
      PROVE  ResolutionTypeOK'
  BY <1>3, LeaveFacts DEF EndRun, store, escalation, faults
<1>4. ASSUME NEW p \in Proc, Check(p)
      PROVE  ResolutionTypeOK'
  <2>1. "replay" \in Place /\ "acquire" \in Place
    BY DEF Place, Stepping
  <2>2. CASE at' = [at EXCEPT ![p] = Unbound(at[p])]
    <3>1. Unbound(at[p]) \in Attempt
      BY <2>1, Updates DEF Decision
    <3> QED
      BY <1>4, <2>2, <3>1 DEF Check, store, escalation, review, faults
  <2>3. CASE Go(p, "replay") \/ Go(p, "acquire")
    BY <1>4, <2>1, <2>3, GoFacts DEF Check, store, escalation, review, faults
  <2> QED
    BY <1>4, <2>2, <2>3 DEF Check, Unbound
<1>5. ASSUME NEW p \in Proc, AcquireEpoch(p)
      PROVE  ResolutionTypeOK'
  <2>1. epoch + 1 \in 0..MaxEpoch /\ "out" \in Place
    BY <1>5 DEF AcquireEpoch, Place
  <2>2. Owning(at[p], epoch + 1) \in Attempt
    BY <2>1, Updates DEF Decision
  <2>3. at' = [at EXCEPT ![p] = Owning(at[p], epoch + 1)]
    BY <1>5 DEF AcquireEpoch, Owning
  <2> QED
    BY <1>5, <2>1, <2>2, <2>3 DEF AcquireEpoch, escalation, review, faults
<1>6. ASSUME NEW p \in Proc, AssertEpoch(p)
      PROVE  ResolutionTypeOK'
  <2>1. "link" \in Place /\ "log" \in Place
    BY DEF Place, Stepping
  <2> QED
    BY <1>6, <2>1, GoFacts, FailFacts DEF AssertEpoch, escalation, review, faults
<1>7. ASSUME NEW p \in Proc, ConsumeResolution(p)
      PROVE  ResolutionTypeOK'
  <2>1. "assertlog" \in Place /\ "replay" \in Place /\ at[p].op \in Decision
    BY DEF Place, Stepping, Attempt
  <2>2. resolution' \in [Pause -> Decision \cup {"none"}]
    BY <1>7, <2>1 DEF ConsumeResolution
  <2>3. at' \in [Proc -> Attempt]
    BY <1>7, <2>1, GoFacts DEF ConsumeResolution
  <2> QED
    BY <1>7, <2>2, <2>3 DEF ConsumeResolution, escalation, review, faults
<1>8. ASSUME NEW p \in Proc, AppendTransition(p)
      PROVE  ResolutionTypeOK'
  <2>1. "gate" \in Place /\ "fence" \in Place /\ at[p].op \in Decision
    BY DEF Place, Stepping, Attempt
  <2>2. journal' \in [Pause -> SUBSET Decision]
    BY <1>8, <2>1 DEF AppendTransition
  <2>3. at' \in [Proc -> Attempt]
    BY <1>8, <2>1, GoFacts DEF AppendTransition
  <2> QED
    BY <1>8, <2>2, <2>3 DEF AppendTransition, escalation, review, faults
<1>9. ASSUME NEW p \in Proc, ReplayResume(p)
      PROVE  ResolutionTypeOK'
  <2>1. "gate" \in Place
    BY DEF Place, Stepping
  <2> QED
    BY <1>9, <2>1, GoFacts, FailFacts DEF ReplayResume, escalation, review, faults
<1>10. ASSUME NEW p \in Proc, ReplayCancel(p)
       PROVE  ResolutionTypeOK'
  BY <1>10, LeaveFacts DEF ReplayCancel, store, escalation, review, faults
<1>11. ASSUME NEW p \in Proc, EnterGate(p)
       PROVE  ResolutionTypeOK'
  <2>1. "driving" \in Place
    BY DEF Place
  <2>2. /\ at' \in [Proc -> Attempt] /\ spent' \in [Pause -> Nat]
        /\ watch' \in [Watcher -> Watch]
    BY <1>11, <2>1, GoFacts, FailFacts DEF EnterGate
  <2>3. hiccups' \in 0..MaxHiccups /\ holder' \in Proc \cup {Nobody}
    BY <1>11 DEF EnterGate, Hiccup
  <2> QED
    BY <1>11, <2>2, <2>3 DEF EnterGate, escalation, review
<1>12. ASSUME NEW p \in Proc, FenceEffects(p)
       PROVE  ResolutionTypeOK'
  <2>1. at' \in [Proc -> Attempt] /\ epoch' \in 0..MaxEpoch
    BY <1>12, LeaveFacts DEF FenceEffects
  <2> QED
    BY <1>12, <2>1 DEF FenceEffects, escalation, review, faults
<1>13. ASSUME NEW p \in Proc, Crash(p)
       PROVE  ResolutionTypeOK'
  BY <1>13, LeaveFacts DEF Crash, store, escalation, review
<1>14. ASSUME NEW p \in Watcher, StartWatch(p)
       PROVE  ResolutionTypeOK'
  <2>1. "watching" \in Place /\ p \in Proc
    BY DEF Place, Proc
  <2>2. FreshWatch \in Watch /\ [FreshWatch EXCEPT !.baseline = ruling] \in Watch
    <3>1. FreshWatch \in Watch
      BY DEF FreshWatch, Watch
    <3> QED
      BY <3>1 DEF Watch
  <2>3. watch' \in [Watcher -> Watch] /\ hiccups' \in 0..MaxHiccups
    BY <1>14, <2>2 DEF StartWatch, Hiccup
  <2> QED
    BY <1>14, <2>1, <2>3, GoFacts DEF StartWatch, store, escalation, review
<1>15. ASSUME NEW p \in Watcher, WatchCancelled(p)
       PROVE  ResolutionTypeOK'
  BY <1>15, LeaveFacts DEF WatchCancelled, store, escalation, review, faults, Proc
<1>16. ASSUME NEW p \in Watcher, WatchResume(p)
       PROVE  ResolutionTypeOK'
  <2>0. pause \in Pause
    BY <1>16 DEF WatchResume, ResolutionInv, Proc
  <2> DEFINE w == [watch[p] EXCEPT !.bare = ~RulingReady(p)]
  <2>1. w \in Watch /\ p \in Proc
    <3>1. watch[p] \in Watch /\ (~RulingReady(p)) \in BOOLEAN /\ p \in Proc
      BY DEF RulingReady, Proc
    <3> QED
      BY <3>1 DEF Watch
  <2> HIDE DEF w
  <2>2. CASE /\ Begin(p, "resume") /\ watch' = [watch EXCEPT ![p] = w] /\ UNCHANGED spent
    <3>1. at' \in [Proc -> Attempt]
      BY <2>0, <2>1, <2>2, BeginFacts DEF Decision
    <3>2. watch' \in [Watcher -> Watch] /\ hiccups' \in 0..MaxHiccups
      BY <1>16, <2>1, <2>2 DEF WatchResume, Hiccup
    <3> QED
      BY <1>16, <2>2, <3>1, <3>2 DEF WatchResume, escalation, review
  <2>3. CASE CountRetry(p, pause, w, 1) /\ UNCHANGED at
    <3>1. spent' \in [Pause -> Nat] /\ watch' \in [Watcher -> Watch]
      BY <2>1, <2>3, CountRetryFacts
    <3>2. hiccups' \in 0..MaxHiccups
      BY <1>16 DEF WatchResume, Hiccup
    <3> QED
      BY <1>16, <2>3, <3>1, <3>2 DEF WatchResume, escalation, review
  <2> QED
    BY <1>16, <2>2, <2>3 DEF WatchResume, w
<1>17. ASSUME NEW p \in Operator, OperatorResume(p) \/ OperatorCancel(p)
       PROVE  ResolutionTypeOK'
  <2>1. p \in Proc /\ pause \in Pause
    BY <1>17 DEF OperatorResume, OperatorCancel, Proc, Pause
  <2>2. at' \in [Proc -> Attempt]
    BY <1>17, <2>1, BeginFacts DEF OperatorResume, OperatorCancel, Decision
  <2> QED
    BY <1>17, <2>2 DEF OperatorResume, OperatorCancel, store, escalation, review, faults
<1>18. CASE PostRuling
  BY <1>18 DEF PostRuling, store, escalation, faults
<1>19. CASE UNCHANGED vars
  BY <1>19 DEF vars, store, escalation, review, faults
<1> QED
  BY <1>1, <1>2, <1>3, <1>4, <1>5, <1>6, <1>7, <1>8, <1>9, <1>10, <1>11, <1>12, <1>13,
     <1>14, <1>15, <1>16, <1>17, <1>18, <1>19
  DEF Next, AttemptStep

-----------------------------------------------------------------------------
(***************************************************************************)
(* The inductive invariant.                                                *)
(***************************************************************************)
\* Steps that change no resolution, no transition and no other process: it is
\* enough to look at the process that moves and at the lock.
LEMMA MoveStep ==
  ASSUME ResolutionTypeOK, ResolutionInv, NEW p \in Proc,
         journal' = journal, resolution' = resolution,
         pause' = pause \/ pause' \in Pause,
         \A q \in Proc \ {p} : at'[q] = at[q],
         holder' = holder \/ (holder = p /\ holder' = Nobody) \/ (holder = Nobody /\ holder' = p),
         at'[p].pc \in {"check", "acquire", "assert", "link", "assertlog", "log", "replay"}
           => at'[p].esc \in Pause,
         at'[p].pc \in {"assertlog", "log"} => resolution[at'[p].esc] = at'[p].op,
         at'[p].pc \in {"gate", "driving"} /\ at'[p].esc > 0 =>
           resolution[at'[p].esc] = "resume",
         at'[p].pc \in {"driving", "paused", "watching"} => holder' = p,
         p \in Watcher /\ at'[p].pc # "out" => holder' = p,
         p \in Watcher /\ at'[p].pc \notin {"out", "driving"} => pause' \in Pause,
         p \in Operator => at'[p].pc \notin {"paused", "watching"}
  PROVE  ResolutionInv'
<1> USE ResolutionAssumption
<1>1. JournalMatchesResolution'
  BY DEF ResolutionInv, JournalMatchesResolution
<1>2. CancelledNeverResumed'
  BY DEF ResolutionInv, CancelledNeverResumed
<1>3. WorkerHoldsLock'
  BY DEF ResolutionInv, WorkerHoldsLock
<1>4. ASSUME NEW q \in Proc
      PROVE  /\ at'[q].pc \in {"check", "acquire", "assert", "link", "assertlog", "log",
                                "replay"} => at'[q].esc \in Pause
             /\ at'[q].pc \in {"assertlog", "log"} => resolution[at'[q].esc] = at'[q].op
             /\ q \in Watcher /\ at'[q].pc # "out" => holder' = q
             /\ q \in Watcher /\ at'[q].pc \notin {"out", "driving"} => pause' \in Pause
             /\ q \in Operator => at'[q].pc \notin {"paused", "watching"}
  BY DEF ResolutionInv
<1> QED
  BY <1>1, <1>2, <1>3, <1>4 DEF ResolutionInv

\* Every step of a driver, a watch, an operator and the Principal keeps it.
LEMMA InvStep ==
  ResolutionTypeOK /\ ResolutionInv /\ [Next]_vars => ResolutionInv'
<1> SUFFICES ASSUME ResolutionTypeOK, ResolutionInv, [Next]_vars
             PROVE  ResolutionInv'
  OBVIOUS
<1> USE ResolutionAssumption
<1>0. at \in [Proc -> Attempt] /\ pause \in 0..MaxPauses
  BY DEF ResolutionTypeOK
<1>1. ASSUME NEW p \in Proc, PauseRun(p)
      PROVE  ResolutionInv'
  <2>1. holder = p /\ pause' \in Pause
    BY <1>0, <1>1 DEF PauseRun, ResolutionInv, WorkerHoldsLock, Pause
  <2>2. /\ \/ p \in Watcher /\ at'[p].pc = "paused" /\ holder' = holder
           \/ p \in Operator /\ at'[p].pc = "out" /\ holder' = Nobody
        /\ \A q \in Proc \ {p} : at'[q] = at[q]
    BY <1>0, <1>1, PausedFacts DEF PauseRun
  <2> QED
    BY <1>1, <2>1, <2>2, MoveStep DEF PauseRun
<1>2. ASSUME NEW p \in Proc, PauseAgain(p)
      PROVE  ResolutionInv'
  <2>1. holder = p /\ pause' = pause /\ pause \in Pause
    BY <1>0, <1>2 DEF PauseAgain, ResolutionInv, WorkerHoldsLock, Pause
  <2>2. /\ \/ p \in Watcher /\ at'[p].pc = "paused" /\ holder' = holder
           \/ p \in Operator /\ at'[p].pc = "out" /\ holder' = Nobody
        /\ \A q \in Proc \ {p} : at'[q] = at[q]
    BY <1>0, <1>2, PausedFacts DEF PauseAgain
  <2> QED
    BY <1>2, <2>1, <2>2, MoveStep DEF PauseAgain
<1>3. ASSUME NEW p \in Proc, EndRun(p)
      PROVE  ResolutionInv'
  <2>1. holder = p
    BY <1>3 DEF EndRun, ResolutionInv, WorkerHoldsLock
  <2>2. at'[p].pc = "out" /\ \A q \in Proc \ {p} : at'[q] = at[q]
    BY <1>0, <1>3, LeaveFacts DEF EndRun
  <2> QED
    BY <1>3, <2>1, <2>2, MoveStep DEF EndRun, store
<1>4. ASSUME NEW p \in Proc, Check(p)
      PROVE  ResolutionInv'
  <2>1. "replay" \in Place /\ "acquire" \in Place
    BY DEF Place, Stepping
  <2>2. at[p].esc \in Pause /\ (p \in Watcher => holder = p /\ pause \in Pause)
    BY <1>4 DEF Check, ResolutionInv
  <2>3. CASE at' = [at EXCEPT ![p] = Unbound(at[p])]
    <3>1. at'[p] = Unbound(at[p]) /\ \A q \in Proc \ {p} : at'[q] = at[q]
      BY <1>0, <2>3
    <3>2. Unbound(at[p]).pc = "gate" /\ Unbound(at[p]).esc = 0
      BY <1>0, <2>1, Updates DEF Decision
    <3> QED
      BY <1>4, <2>2, <3>1, <3>2, MoveStep DEF Check, store
  <2>4. CASE Go(p, "replay") \/ Go(p, "acquire")
    <3>1. /\ at'[p].pc \in {"replay", "acquire"} /\ at'[p].esc = at[p].esc
          /\ \A q \in Proc \ {p} : at'[q] = at[q]
      BY <1>0, <2>1, <2>4, GoFacts
    <3> QED
      BY <1>4, <2>2, <3>1, MoveStep DEF Check, store
  <2> QED
    BY <1>4, <2>3, <2>4 DEF Check, Unbound
<1>5. ASSUME NEW p \in Proc, AcquireEpoch(p)
      PROVE  ResolutionInv'
  <2>1. epoch + 1 \in 0..MaxEpoch /\ "out" \in Place
    BY <1>5 DEF AcquireEpoch, Place, ResolutionTypeOK
  <2>2. /\ at'[p] = Owning(at[p], epoch + 1)
        /\ \A q \in Proc \ {p} : at'[q] = at[q]
    BY <1>0, <1>5 DEF AcquireEpoch, Owning
  <2>3. Owning(at[p], epoch + 1).pc = "assert" /\ Owning(at[p], epoch + 1).esc = at[p].esc
    BY <1>0, <2>1, Updates DEF Decision
  <2>4. at[p].esc \in Pause /\ (p \in Watcher => holder = p /\ pause \in Pause)
    BY <1>5 DEF AcquireEpoch, ResolutionInv
  <2> QED
    BY <1>5, <2>2, <2>3, <2>4, MoveStep DEF AcquireEpoch
<1>6. ASSUME NEW p \in Proc, NEW cost \in 0..1, Fail(p, cost), at[p].pc \in Stepping,
             UNCHANGED <<pause, resolution, journal, holder>>
      PROVE  ResolutionInv'
  <2>1. p \in Watcher => holder = p /\ pause \in Pause
    BY <1>6 DEF ResolutionInv, Stepping
  <2>2. /\ \/ p \in Watcher /\ at'[p].pc = "watching"
           \/ p \in Operator /\ at'[p].pc = "out"
        /\ \A q \in Proc \ {p} : at'[q] = at[q]
    BY <1>6, FailFacts
  <2> QED
    BY <1>6, <2>1, <2>2, MoveStep
<1>7. ASSUME NEW p \in Proc, AssertEpoch(p)
      PROVE  ResolutionInv'
  <2>1. "link" \in Place /\ "log" \in Place /\ at[p].pc \in Stepping
    BY <1>7 DEF Place, Stepping, AssertEpoch
  <2>2. CASE Fail(p, 1)
    BY <1>6, <1>7, <2>1, <2>2 DEF AssertEpoch
  <2>3. CASE Go(p, IF at[p].pc = "assert" THEN "link" ELSE "log")
    <3>1. /\ at'[p].pc = (IF at[p].pc = "assert" THEN "link" ELSE "log")
          /\ at'[p].esc = at[p].esc /\ at'[p].op = at[p].op
          /\ \A q \in Proc \ {p} : at'[q] = at[q]
      BY <1>0, <2>1, <2>3, GoFacts
    <3>2. /\ at[p].esc \in Pause /\ (p \in Watcher => holder = p /\ pause \in Pause)
          /\ at[p].pc = "assertlog" => resolution[at[p].esc] = at[p].op
      BY <1>7 DEF AssertEpoch, ResolutionInv
    <3> QED
      BY <1>7, <3>1, <3>2, MoveStep DEF AssertEpoch
  <2> QED
    BY <1>7, <2>2, <2>3 DEF AssertEpoch
<1>8. ASSUME NEW p \in Proc, ConsumeResolution(p)
      PROVE  ResolutionInv'
  <2> DEFINE n == at[p].esc
  <2>1. /\ "assertlog" \in Place /\ "replay" \in Place
        /\ n \in Pause /\ (p \in Watcher => holder = p /\ pause \in Pause)
    BY <1>8 DEF Place, Stepping, ConsumeResolution, ResolutionInv
  <2>2. CASE resolution[n] = "none"
    <3>1. /\ at'[p].pc = "assertlog" /\ at'[p].esc = n /\ at'[p].op = at[p].op
          /\ \A q \in Proc \ {p} : at'[q] = at[q]
      BY <1>0, <1>8, <2>1, <2>2, GoFacts DEF ConsumeResolution
    <3>2. /\ resolution'[n] = at[p].op
          /\ \A m \in Pause \ {n} : resolution'[m] = resolution[m]
      BY <1>8, <2>1, <2>2 DEF ConsumeResolution, ResolutionTypeOK
    <3>3. journal[n] = {}
      <4>1. journal[n] \subseteq {"none"} /\ journal[n] \subseteq Decision
        BY <2>1, <2>2 DEF ResolutionInv, JournalMatchesResolution, ResolutionTypeOK
      <4> QED
        BY <4>1 DEF Decision
    <3>4. JournalMatchesResolution'
      BY <1>8, <2>1, <3>2, <3>3
      DEF ResolutionInv, JournalMatchesResolution, ConsumeResolution
    <3>5. CancelledNeverResumed'
      <4> SUFFICES ASSUME NEW q \in Proc, at'[q].pc \in {"gate", "driving"},
                          at'[q].esc > 0
                   PROVE  resolution'[at'[q].esc] = "resume"
        BY DEF CancelledNeverResumed
      <4>1. q # p /\ at'[q] = at[q]
        BY <3>1
      <4>2. resolution[at[q].esc] = "resume" /\ at[q].esc \in Pause
        BY <1>0, <4>1 DEF ResolutionInv, CancelledNeverResumed, Attempt, Pause
      <4> QED
        BY <2>2, <3>2, <4>1, <4>2
    <3>6. WorkerHoldsLock'
      BY <1>8, <3>1 DEF ResolutionInv, WorkerHoldsLock, ConsumeResolution
    <3>7. ASSUME NEW q \in Proc, at'[q].pc \in {"assertlog", "log"}
          PROVE  resolution'[at'[q].esc] = at'[q].op
      <4>1. CASE q = p
        BY <3>1, <3>2, <4>1
      <4>2. CASE q # p
        <5>1. at'[q] = at[q] /\ at[q].esc \in Pause /\ resolution[at[q].esc] = at[q].op
          BY <3>1, <3>7, <4>2 DEF ResolutionInv
        <5>2. at[q].op # "none"
          BY <1>0 DEF Attempt, Decision
        <5> QED
          BY <2>2, <3>2, <5>1, <5>2
      <4> QED
        BY <4>1, <4>2
    <3>8. ASSUME NEW q \in Proc
          PROVE  /\ at'[q].pc \in {"check", "acquire", "assert", "link", "assertlog",
                                    "log", "replay"} => at'[q].esc \in Pause
                 /\ q \in Watcher /\ at'[q].pc # "out" => holder' = q
                 /\ q \in Watcher /\ at'[q].pc \notin {"out", "driving"} => pause' \in Pause
                 /\ q \in Operator => at'[q].pc \notin {"paused", "watching"}
      BY <1>8, <2>1, <3>1 DEF ResolutionInv, ConsumeResolution
    <3> QED
      BY <3>4, <3>5, <3>6, <3>7, <3>8 DEF ResolutionInv
  <2>3. CASE resolution[n] # "none"
    <3>1. /\ at'[p].pc = "replay" /\ at'[p].esc = n
          /\ \A q \in Proc \ {p} : at'[q] = at[q]
      BY <1>0, <1>8, <2>1, <2>3, GoFacts DEF ConsumeResolution
    <3> QED
      BY <1>8, <2>1, <2>3, <3>1, MoveStep DEF ConsumeResolution
  <2> QED
    BY <2>2, <2>3
<1>9. ASSUME NEW p \in Proc, AppendTransition(p)
      PROVE  ResolutionInv'
  <2> DEFINE n == at[p].esc
  <2>1. /\ "gate" \in Place /\ "fence" \in Place
        /\ n \in Pause /\ (p \in Watcher => holder = p /\ pause \in Pause)
        /\ resolution[n] = at[p].op
    BY <1>9 DEF Place, Stepping, AppendTransition, ResolutionInv
  <2>2. /\ at'[p].pc = (IF at[p].op = "resume" THEN "gate" ELSE "fence")
        /\ at'[p].esc = n /\ \A q \in Proc \ {p} : at'[q] = at[q]
    BY <1>0, <1>9, <2>1, GoFacts DEF AppendTransition
  <2>3. JournalMatchesResolution'
    <3>1. /\ journal'[n] = journal[n] \cup {at[p].op}
          /\ \A m \in Pause \ {n} : journal'[m] = journal[m]
      BY <1>9, <2>1 DEF AppendTransition, ResolutionTypeOK
    <3> QED
      BY <1>9, <2>1, <3>1
      DEF ResolutionInv, JournalMatchesResolution, AppendTransition
  <2>4. CancelledNeverResumed'
    BY <1>9, <2>1, <2>2 DEF ResolutionInv, CancelledNeverResumed, AppendTransition
  <2>5. WorkerHoldsLock'
    BY <1>9, <2>2 DEF ResolutionInv, WorkerHoldsLock, AppendTransition
  <2>6. ASSUME NEW q \in Proc
        PROVE  /\ at'[q].pc \in {"check", "acquire", "assert", "link", "assertlog",
                                  "log", "replay"} => at'[q].esc \in Pause
               /\ at'[q].pc \in {"assertlog", "log"} => resolution'[at'[q].esc] = at'[q].op
               /\ q \in Watcher /\ at'[q].pc # "out" => holder' = q
               /\ q \in Watcher /\ at'[q].pc \notin {"out", "driving"} => pause' \in Pause
               /\ q \in Operator => at'[q].pc \notin {"paused", "watching"}
    BY <1>9, <2>1, <2>2 DEF ResolutionInv, AppendTransition
  <2> QED
    BY <2>3, <2>4, <2>5, <2>6 DEF ResolutionInv
<1>10. ASSUME NEW p \in Proc, ReplayResume(p)
       PROVE  ResolutionInv'
  <2>1. "gate" \in Place /\ at[p].pc \in Stepping
    BY <1>10 DEF Place, Stepping, ReplayResume
  <2>2. CASE Fail(p, 1)
    BY <1>6, <1>10, <2>1, <2>2 DEF ReplayResume
  <2>3. CASE resolution[at[p].esc] = "resume" /\ Go(p, "gate")
    <3>1. /\ at'[p].pc = "gate" /\ at'[p].esc = at[p].esc
          /\ \A q \in Proc \ {p} : at'[q] = at[q]
      BY <1>0, <2>1, <2>3, GoFacts
    <3>2. p \in Watcher => holder = p /\ pause \in Pause
      BY <1>10 DEF ReplayResume, ResolutionInv
    <3> QED
      BY <1>10, <2>3, <3>1, <3>2, MoveStep DEF ReplayResume
  <2> QED
    BY <1>10, <2>2, <2>3 DEF ReplayResume
<1>11. ASSUME NEW p \in Proc, ReplayCancel(p) \/ FenceEffects(p)
       PROVE  ResolutionInv'
  <2>1. at'[p].pc = "out" /\ \A q \in Proc \ {p} : at'[q] = at[q]
    BY <1>0, <1>11, LeaveFacts DEF ReplayCancel, FenceEffects
  <2> QED
    BY <1>11, <2>1, MoveStep DEF ReplayCancel, FenceEffects, store
<1>12. ASSUME NEW p \in Proc, EnterGate(p)
       PROVE  ResolutionInv'
  <2>1. "driving" \in Place /\ at[p].pc \in Stepping
    BY <1>12 DEF Place, Stepping, EnterGate
  <2>2. CASE \E cost \in 0..1 : Fail(p, cost) /\ UNCHANGED holder
    BY <1>6, <1>12, <2>1, <2>2 DEF EnterGate
  <2>3. CASE holder \in {Nobody, p} /\ holder' = p /\ Go(p, "driving")
    <3>1. /\ at'[p].pc = "driving" /\ at'[p].esc = at[p].esc
          /\ \A q \in Proc \ {p} : at'[q] = at[q]
      BY <1>0, <2>1, <2>3, GoFacts
    <3>2. at[p].esc > 0 => resolution[at[p].esc] = "resume"
      BY <1>12 DEF EnterGate, ResolutionInv, CancelledNeverResumed
    <3> QED
      BY <1>12, <2>3, <3>1, <3>2, MoveStep DEF EnterGate
  <2> QED
    BY <1>12, <2>2, <2>3 DEF EnterGate
<1>13. ASSUME NEW p \in Proc, Crash(p)
       PROVE  ResolutionInv'
  <2>1. at'[p].pc = "out" /\ \A q \in Proc \ {p} : at'[q] = at[q]
    BY <1>0, <1>13, LeaveFacts DEF Crash
  <2> QED
    BY <1>13, <2>1, MoveStep DEF Crash, store
<1>14. ASSUME NEW p \in Watcher, StartWatch(p)
       PROVE  ResolutionInv'
  <2>1. "watching" \in Place /\ p \in Proc
    BY DEF Place, Proc
  <2>2. at'[p].pc = "watching" /\ \A q \in Proc \ {p} : at'[q] = at[q]
    BY <1>0, <1>14, <2>1, GoFacts DEF StartWatch
  <2>3. holder = p /\ pause \in Pause
    BY <1>14, <2>1 DEF StartWatch, ResolutionInv
  <2> QED
    BY <1>14, <2>1, <2>2, <2>3, MoveStep DEF StartWatch, store
<1>15. ASSUME NEW p \in Watcher, WatchCancelled(p)
       PROVE  ResolutionInv'
  <2>1. p \in Proc /\ at'[p].pc = "out" /\ \A q \in Proc \ {p} : at'[q] = at[q]
    BY <1>0, <1>15, LeaveFacts DEF WatchCancelled, Proc
  <2>2. holder = p
    BY <1>15, <2>1 DEF WatchCancelled, ResolutionInv
  <2> QED
    BY <1>15, <2>1, <2>2, MoveStep DEF WatchCancelled, store
<1>16. ASSUME NEW p \in Watcher, WatchResume(p)
       PROVE  ResolutionInv'
  <2>1. p \in Proc /\ holder = p /\ pause \in Pause /\ at[p].pc = "watching"
    BY <1>16 DEF WatchResume, ResolutionInv, Proc
  <2>2. CASE Begin(p, "resume")
    <3>1. /\ at'[p].pc = "check" /\ at'[p].esc = pause
          /\ \A q \in Proc \ {p} : at'[q] = at[q]
      BY <1>0, <2>1, <2>2, BeginFacts DEF Decision
    <3> QED
      BY <1>16, <2>1, <3>1, MoveStep DEF WatchResume
  <2>3. CASE UNCHANGED at
    BY <1>16, <2>1, <2>3, MoveStep DEF WatchResume
  <2> QED
    BY <1>16, <2>2, <2>3 DEF WatchResume
<1>17. ASSUME NEW p \in Operator, OperatorResume(p) \/ OperatorCancel(p)
       PROVE  ResolutionInv'
  <2>1. p \in Proc /\ p \notin Watcher /\ pause \in Pause
    BY <1>0, <1>17 DEF OperatorResume, OperatorCancel, Proc, Pause
  <2>2. /\ at'[p].pc = "check" /\ at'[p].esc = pause
        /\ \A q \in Proc \ {p} : at'[q] = at[q]
    BY <1>0, <1>17, <2>1, BeginFacts DEF OperatorResume, OperatorCancel, Decision
  <2> QED
    BY <1>17, <2>1, <2>2, MoveStep DEF OperatorResume, OperatorCancel, store
<1>18. CASE PostRuling
  BY <1>18 DEF PostRuling, store, ResolutionInv, JournalMatchesResolution,
               CancelledNeverResumed, WorkerHoldsLock
<1>19. CASE UNCHANGED vars
  BY <1>19 DEF vars, store, ResolutionInv, JournalMatchesResolution,
               CancelledNeverResumed, WorkerHoldsLock
<1> QED
  BY <1>1, <1>2, <1>3, <1>4, <1>5, <1>7, <1>8, <1>9, <1>10, <1>11, <1>12, <1>13, <1>14,
     <1>15, <1>16, <1>17, <1>18, <1>19
  DEF Next, AttemptStep

\* Pauses, resolutions, transitions and the driver lock stay well typed and keep
\* the inductive invariant, through every race, crash and failed read.
THEOREM ResolutionInvariant == Spec => [](ResolutionTypeOK /\ ResolutionInv)
<1>1. Init => ResolutionTypeOK /\ ResolutionInv
  <2> SUFFICES ASSUME Init PROVE ResolutionTypeOK /\ ResolutionInv
    OBVIOUS
  <2> USE ResolutionAssumption
  <2>1. PICK w \in Watcher :
          /\ holder = w
          /\ at = [p \in Proc |-> IF p = w THEN Moved(Out, "driving") ELSE Out]
    BY DEF Init, Moved
  <2>2. w \in Proc /\ w \notin Operator /\ "driving" \in Place
    BY DEF Proc, Place
  <2>3. /\ Moved(Out, "driving") \in Attempt /\ Moved(Out, "driving").pc = "driving"
        /\ Moved(Out, "driving").esc = 0
    <3>1. 0 \in 0..MaxPauses /\ 0 \in 0..MaxEpoch
      OBVIOUS
    <3> QED
      BY <2>2, <3>1, OutType, Updates DEF Decision
  <2>4. at \in [Proc -> Attempt]
    BY <2>1, <2>3, OutType
  <2>5. FreshWatch \in Watch
    BY DEF FreshWatch, Watch
  <2>6. ResolutionTypeOK
    <3>1. recorded \in [Pause -> BOOLEAN] /\ concluded \in BOOLEAN
      BY DEF Init
    <3>2. /\ kind \in [Pause -> {"bare", "ruling"}] /\ raised \in [Pause -> 0..MaxRulings]
          /\ spent \in [Pause -> Nat]
          /\ resolution \in [Pause -> Decision \cup {"none"}]
          /\ journal \in [Pause -> SUBSET Decision]
      BY DEF Init
    <3>3. watch \in [Watcher -> Watch]
      BY <2>5 DEF Init
    <3>4. pause \in 0..MaxPauses /\ ruling \in 0..MaxRulings /\ epoch \in 0..MaxEpoch
          /\ crashes \in 0..MaxCrashes /\ hiccups \in 0..MaxHiccups
      BY DEF Init
    <3> QED
      BY <2>1, <2>2, <2>4, <3>1, <3>2, <3>3, <3>4 DEF ResolutionTypeOK
  <2>7. /\ at[w].pc = "driving" /\ at[w].esc = 0
        /\ \A q \in Proc \ {w} : at[q].pc = "out"
    BY <2>1, <2>2, <2>3, OutType
  <2>8. \A n \in Pause : journal[n] = {}
    BY DEF Init
  <2> QED
    BY <2>1, <2>2, <2>6, <2>7, <2>8
    DEF ResolutionInv, JournalMatchesResolution, CancelledNeverResumed, WorkerHoldsLock
<1> QED
  BY <1>1, TypeStep, InvStep, PTL DEF Spec

\* Racing resumes and cancels of one pause leave at most one transition out of
\* it, the one of the decision that consumeResolutionOnce recorded.
THEOREM JournalMatchesResolutionHolds == Spec => []JournalMatchesResolution
<1>1. ResolutionInv => JournalMatchesResolution
  BY DEF ResolutionInv
<1> QED
  BY <1>1, ResolutionInvariant, PTL

\* No driver goes on from a pause that was cancelled, whoever was half-way through
\* resuming it when the cancel was recorded.
THEOREM CancelledNeverResumedHolds == Spec => []CancelledNeverResumed
<1>1. ResolutionInv => CancelledNeverResumed
  BY DEF ResolutionInv
<1> QED
  BY <1>1, ResolutionInvariant, PTL

\* A process that drives, pauses or watches holds the driver lock, so no two do.
THEOREM WorkerHoldsLockHolds == Spec => []WorkerHoldsLock
<1>1. ResolutionInv => WorkerHoldsLock
  BY DEF ResolutionInv
<1> QED
  BY <1>1, ResolutionInvariant, PTL
=============================================================================
