-------------------------- MODULE BackgroundProofs --------------------------
(***************************************************************************)
(* Proofs about Ownership and about BackgroundStart, which is composed     *)
(* with it, for any number of starts, of processes that claim epochs       *)
(* beside them, of epochs, attempts and corrupt files.                     *)
(***************************************************************************)
EXTENDS BackgroundStart, FiniteSetTheorems, SequenceTheorems, TLAPS

-----------------------------------------------------------------------------
(***************************************************************************)
(* acquireOwnership.                                                       *)
(***************************************************************************)

\* Every step of acquireOwnership keeps the types, with or without corrupt files.
LEMMA TypeStep ==
  OwnershipTypeOK /\ [OwnershipNext]_ownershipVars => OwnershipTypeOK'
<1> SUFFICES ASSUME OwnershipTypeOK, [OwnershipNext]_ownershipVars
             PROVE  OwnershipTypeOK'
  OBVIOUS
<1> USE OwnershipAssumption DEF OwnershipTypeOK, AcquireState, Running, Epoch
<1>1. ASSUME NEW p \in Proc, RequestEpoch(p)
      PROVE  OwnershipTypeOK'
  BY <1>1 DEF RequestEpoch, NotAcquiring
<1>2. ASSUME NEW p \in Proc, ReadCurrent(p)
      PROVE  OwnershipTypeOK'
  BY <1>2 DEF ReadCurrent
<1>3. ASSUME NEW p \in Proc, GiveUp(p)
      PROVE  OwnershipTypeOK'
  BY <1>3 DEF GiveUp
<1>4. ASSUME NEW p \in Proc, LinkEpoch(p)
      PROVE  OwnershipTypeOK'
  <2>1. epochFile' \in [Epoch -> Proc \cup {Absent, Corrupt}]
    BY <1>4 DEF LinkEpoch
  <2>2. \E x \in {"won", "reparse"} : acq' = [acq EXCEPT ![p].pc = x]
    BY <1>4 DEF LinkEpoch
  <2>3. PICK x \in {"won", "reparse"} : acq' = [acq EXCEPT ![p].pc = x]
    BY <2>2
  <2>4. [acq[p] EXCEPT !.pc = x] \in AcquireState
    OBVIOUS
  <2>5. acq' \in [Proc -> AcquireState]
    <3> HIDE DEF AcquireState
    <3> QED BY <2>3, <2>4
  <2> QED BY <1>4, <2>1, <2>5 DEF LinkEpoch
<1>5. ASSUME NEW p \in Proc, Reparse(p)
      PROVE  OwnershipTypeOK'
  BY <1>5 DEF Reparse
<1>6. ASSUME NEW p \in Proc, UnlinkCorrupt(p)
      PROVE  OwnershipTypeOK'
  BY <1>6 DEF UnlinkCorrupt
<1>7. ASSUME NEW p \in Proc, Forget(p)
      PROVE  OwnershipTypeOK'
  BY <1>7 DEF Forget, NotAcquiring
<1>8. CASE OrphanedClaim
  BY <1>8 DEF OrphanedClaim
<1>9. CASE UNCHANGED ownershipVars
  BY <1>9 DEF ownershipVars
<1> QED
  BY <1>1, <1>2, <1>3, <1>4, <1>5, <1>6, <1>7, <1>8, <1>9
  DEF OwnershipNext, AcquireStep

\* The ownership directory and its callers stay well typed in every behaviour of
\* acquireOwnership, corrupt files included.
THEOREM OwnershipTypeCorrect == OwnershipSpec => []OwnershipTypeOK
<1>1. OwnershipInit => OwnershipTypeOK
  BY OwnershipAssumption
  DEF OwnershipInit, OwnershipTypeOK, NotAcquiring, AcquireState, Running, Epoch
<1> QED
  BY <1>1, TypeStep, PTL DEF OwnershipSpec

-----------------------------------------------------------------------------
\* The inductive invariant survives every step, the reclaim of a corrupt file
\* included: one step of the proof per system call of acquireOwnership.
LEMMA InvStep ==
  OwnershipTypeOK /\ OwnershipInv /\ [OwnershipNext]_ownershipVars => OwnershipInv'
<1> SUFFICES ASSUME OwnershipTypeOK, OwnershipInv, [OwnershipNext]_ownershipVars
             PROVE  OwnershipInv'
  OBVIOUS
<1> USE OwnershipAssumption
<1> USE DEF OwnershipTypeOK, AcquireState, Running, Epoch, ValidEpochs
<1>1. ASSUME NEW p \in Proc, RequestEpoch(p)
      PROVE  OwnershipInv'
  BY <1>1 DEF OwnershipInv, EpochsContiguous, RequestEpoch, NotAcquiring
<1>2. ASSUME NEW p \in Proc, ReadCurrent(p)
      PROVE  OwnershipInv'
  <2>1. PICK e \in 0..(MaxEpoch - 1) :
          /\ IsCurrent(e)
          /\ acq' = [acq EXCEPT ![p] = [pc |-> "link", epoch |-> e + 1,
                                        tries |-> acq[p].tries + 1]]
    BY <1>2 DEF ReadCurrent
  <2>2. epochFile' = epochFile /\ faults' = faults
    BY <1>2 DEF ReadCurrent
  <2>3. e + 1 \in Epoch /\ epochFile[e + 1] \notin Proc
    BY <2>1 DEF IsCurrent
  <2>4. \A f \in 1..e : f \in ValidEpochs \cup faults
    BY <2>1 DEF IsCurrent, OwnershipInv, EpochsContiguous
  <2>5. acq'[p] = [pc |-> "link", epoch |-> e + 1, tries |-> acq[p].tries + 1]
    BY <2>1
  <2>6. \A q \in Proc \ {p} : acq'[q] = acq[q]
    BY <2>1
  <2> QED
    BY <2>2, <2>3, <2>4, <2>5, <2>6 DEF OwnershipInv, EpochsContiguous
<1>3. ASSUME NEW p \in Proc, GiveUp(p)
      PROVE  OwnershipInv'
  <2>1. acq'[p].pc = "failed" /\ \A q \in Proc \ {p} : acq'[q] = acq[q]
    BY <1>3 DEF GiveUp
  <2> QED
    BY <1>3, <2>1 DEF OwnershipInv, EpochsContiguous, GiveUp
<1>4. ASSUME NEW p \in Proc, LinkEpoch(p)
      PROVE  OwnershipInv'
  <2> DEFINE e == acq[p].epoch
  <2>1. e \in Epoch /\ (e \notin faults => epochFile[e] # p /\ epochFile[e] # Corrupt)
        /\ \A f \in 1..(e - 1) : f \in ValidEpochs \cup faults
    BY <1>4 DEF LinkEpoch, OwnershipInv
  <2>2. CASE epochFile[e] = Absent
    <3>1. acq'[p].pc = "won" /\ acq'[p].epoch = e /\ faults' = faults
          /\ epochFile' = [epochFile EXCEPT ![e] = p]
          /\ \A q \in Proc \ {p} : acq'[q] = acq[q]
      BY <1>4, <2>2 DEF LinkEpoch
    <3>2. epochFile'[e] = p /\ \A f \in Epoch \ {e} : epochFile'[f] = epochFile[f]
      BY <2>1, <3>1
    <3>3. ValidEpochs' = ValidEpochs \cup {e}
      BY <2>1, <2>2, <3>2
    <3>4. EpochsContiguous'
      <4> SUFFICES ASSUME NEW x \in ValidEpochs', NEW f \in 1..x
                   PROVE  f \in ValidEpochs' \cup faults
        BY <3>1 DEF EpochsContiguous
      <4>1. CASE x = e
        <5>1. f = e \/ f \in 1..(e - 1)
          BY <2>1, <4>1
        <5>2. f \in ValidEpochs \cup {e} \cup faults
          BY <2>1, <5>1
        <5> QED
          BY <3>3, <5>2
      <4>2. CASE x \in ValidEpochs
        BY <3>3, <4>2 DEF OwnershipInv, EpochsContiguous
      <4> QED
        BY <3>3, <4>1, <4>2
    <3>5. ASSUME NEW q \in Proc \ {p}
          PROVE  /\ acq'[q].pc = "link" =>
                      \A f \in 1..(acq'[q].epoch - 1) : f \in ValidEpochs' \cup faults
                 /\ acq'[q].epoch \notin faults =>
                      /\ acq'[q].pc = "link" => epochFile'[acq'[q].epoch] # q
                      /\ acq'[q].pc \in {"reparse", "lost"} =>
                           epochFile'[acq'[q].epoch] \in Proc \ {q}
                      /\ acq'[q].pc = "won" => epochFile'[acq'[q].epoch] = q
      BY <2>1, <2>2, <3>1, <3>2, <3>3 DEF OwnershipInv
    <3> QED
      BY <2>1, <2>2, <3>1, <3>2, <3>4, <3>5 DEF OwnershipInv
  <2>3. CASE epochFile[e] # Absent
    <3>1. acq'[p].pc = "reparse" /\ acq'[p].epoch = e /\ faults' = faults
          /\ epochFile' = epochFile /\ \A q \in Proc \ {p} : acq'[q] = acq[q]
      BY <1>4, <2>3 DEF LinkEpoch
    <3> QED
      BY <2>1, <2>3, <3>1 DEF OwnershipInv, EpochsContiguous
  <2> QED
    BY <2>2, <2>3
<1>5. ASSUME NEW p \in Proc, Reparse(p)
      PROVE  OwnershipInv'
  <2>1. /\ acq'[p].pc \in {"lost", "unlink"} /\ acq'[p].epoch = acq[p].epoch
        /\ acq[p].epoch \notin faults => acq'[p].pc = "lost"
        /\ \A q \in Proc \ {p} : acq'[q] = acq[q]
    BY <1>5 DEF Reparse, OwnershipInv
  <2>2. epochFile' = epochFile /\ faults' = faults /\ acq[p].pc = "reparse"
    BY <1>5 DEF Reparse
  <2> QED
    BY <2>1, <2>2 DEF OwnershipInv, EpochsContiguous
<1>6. ASSUME NEW p \in Proc, UnlinkCorrupt(p)
      PROVE  OwnershipInv'
  <2> DEFINE e == acq[p].epoch
  <2>1. e \in faults /\ e \in Epoch
    BY <1>6 DEF OwnershipInv, UnlinkCorrupt
  <2>2. /\ acq'[p].pc = "read" /\ acq'[p].epoch = e /\ faults' = faults
        /\ \A q \in Proc \ {p} : acq'[q] = acq[q]
        /\ \A f \in Epoch \ {e} : epochFile'[f] = epochFile[f]
        /\ epochFile'[e] = Absent
    BY <1>6, <2>1 DEF UnlinkCorrupt
  <2>3. ValidEpochs' = ValidEpochs \ {e}
    BY <2>1, <2>2
  <2>4. ValidEpochs' \subseteq ValidEpochs /\ ValidEpochs \cup faults = ValidEpochs' \cup faults'
    BY <2>1, <2>2, <2>3
  <2>5. EpochsContiguous'
    BY <2>4 DEF OwnershipInv, EpochsContiguous
  <2>6. ASSUME NEW q \in Proc \ {p}, acq'[q].pc = "link"
        PROVE  \A f \in 1..(acq'[q].epoch - 1) : f \in ValidEpochs' \cup faults'
    BY <2>2, <2>4, <2>6 DEF OwnershipInv
  <2>7. ASSUME NEW q \in Proc \ {p}
        PROVE  /\ acq'[q].pc \in {"link", "reparse", "unlink", "won", "lost"}
                    => acq'[q].epoch \in Epoch
               /\ acq'[q].pc = "unlink" => acq'[q].epoch \in faults'
               /\ acq'[q].epoch \notin faults' =>
                    /\ acq'[q].pc = "link" => epochFile'[acq'[q].epoch] # q
                    /\ acq'[q].pc \in {"reparse", "lost"} =>
                         epochFile'[acq'[q].epoch] \in Proc \ {q}
                    /\ acq'[q].pc = "won" => epochFile'[acq'[q].epoch] = q
    BY <2>1, <2>2 DEF OwnershipInv
  <2>8. \A f \in Epoch \ faults' : epochFile'[f] # Corrupt
    BY <2>1, <2>2 DEF OwnershipInv
  <2> HIDE DEF ValidEpochs
  <2> QED
    BY <2>2, <2>5, <2>6, <2>7, <2>8 DEF OwnershipInv
<1>7. ASSUME NEW p \in Proc, Forget(p)
      PROVE  OwnershipInv'
  BY <1>7 DEF OwnershipInv, EpochsContiguous, Forget, NotAcquiring
<1>8. CASE OrphanedClaim
  <2>1. PICK e \in Epoch :
          /\ epochFile[e] = Absent
          /\ epochFile' = [epochFile EXCEPT ![e] = Corrupt]
          /\ faults' = faults \cup {e}
    BY <1>8 DEF OrphanedClaim
  <2>2. acq' = acq
    BY <1>8 DEF OrphanedClaim
  <2>3. epochFile'[e] = Corrupt /\ \A f \in Epoch \ {e} : epochFile'[f] = epochFile[f]
    BY <2>1
  <2>4. ValidEpochs' = ValidEpochs
    BY <2>1, <2>3
  <2>5. EpochsContiguous'
    BY <2>1, <2>4 DEF OwnershipInv, EpochsContiguous
  <2> HIDE DEF ValidEpochs
  <2> QED
    BY <2>1, <2>2, <2>3, <2>4, <2>5 DEF OwnershipInv
<1>9. CASE UNCHANGED ownershipVars
  BY <1>9 DEF ownershipVars, OwnershipInv, EpochsContiguous
<1> QED
  BY <1>1, <1>2, <1>3, <1>4, <1>5, <1>6, <1>7, <1>8, <1>9
  DEF OwnershipNext, AcquireStep

\* Where no corrupt file has been, the epoch files and the callers' beliefs agree.
THEOREM OwnershipInvariant ==
  OwnershipSpec => [](OwnershipTypeOK /\ OwnershipInv)
<1>1. OwnershipInit => OwnershipInv
  BY OwnershipAssumption
  DEF OwnershipInit, OwnershipInv, EpochsContiguous, ValidEpochs, NotAcquiring, Epoch
<1> QED
  BY <1>1, OwnershipTypeCorrect, InvStep, PTL DEF OwnershipSpec

\* linkSync admits one winner per epoch: no interleaving of any number of callers
\* of acquireOwnership makes two of them hold the same epoch, unless that very
\* epoch's file was corrupt and reclaimed.
THEOREM SingleWinnerHolds ==
  OwnershipSpec => []SingleWinner
<1>1. OwnershipInv => SingleWinner
  BY DEF OwnershipInv, SingleWinner, Holds
<1> QED
  BY <1>1, OwnershipInvariant, PTL

\* A caller told it lost was beaten by another process whose record is readable,
\* and epochs are granted without a gap, but for the epochs that were corrupt.
THEOREM LoserAndContiguity ==
  OwnershipSpec => [](LoserSeesWinner /\ EpochsContiguous)
<1>1. OwnershipInv => LoserSeesWinner /\ EpochsContiguous
  BY DEF OwnershipInv, LoserSeesWinner
<1> QED
  BY <1>1, OwnershipInvariant, PTL

\* A readable epoch file is never replaced or removed: linkSync writes an absent
\* name only, and only callers that met a corrupt file reach the unlink.
THEOREM OwnerImmutableHolds ==
  OwnershipSpec => OwnerImmutable
<1> DEFINE Kept == \A e \in Epoch \ faults :
                     epochFile[e] \in Proc => epochFile'[e] = epochFile[e]
<1>1. OwnershipTypeOK /\ OwnershipInv /\ [OwnershipNext]_ownershipVars
        => [Kept]_ownershipVars
  <2> SUFFICES ASSUME OwnershipTypeOK, OwnershipInv, OwnershipNext
               PROVE  Kept
    BY DEF ownershipVars
  <2>1. ASSUME NEW p \in Proc, RequestEpoch(p) \/ Forget(p)
        PROVE  Kept
    BY <2>1 DEF RequestEpoch, Forget
  <2>2. ASSUME NEW p \in Proc, ReadCurrent(p) \/ GiveUp(p) \/ Reparse(p)
        PROVE  Kept
    BY <2>2 DEF ReadCurrent, GiveUp, Reparse
  <2>3. ASSUME NEW p \in Proc, LinkEpoch(p)
        PROVE  Kept
    BY <2>3, OwnershipAssumption DEF LinkEpoch, OwnershipTypeOK
  <2>4. ASSUME NEW p \in Proc, UnlinkCorrupt(p)
        PROVE  Kept
    BY <2>4 DEF UnlinkCorrupt, OwnershipInv, OwnershipTypeOK
  <2>5. CASE OrphanedClaim
    BY <2>5, OwnershipAssumption DEF OrphanedClaim, OwnershipTypeOK
  <2> QED
    BY <2>1, <2>2, <2>3, <2>4, <2>5 DEF OwnershipNext, AcquireStep
<1> QED
  BY <1>1, OwnershipInvariant, PTL DEF OwnershipSpec, OwnerImmutable
-----------------------------------------------------------------------------
\* The highest readable epoch is the one readCurrentOwnership returns.
LEMMA TopIsCurrent ==
  ASSUME NEW e \in 0..MaxEpoch, IsCurrent(e)
  PROVE  TopEpoch = e
<1>1. \A f \in 0..MaxEpoch : IsCurrent(f) => f = e
  BY OwnershipAssumption DEF IsCurrent, ValidEpochs, Epoch
<1> QED
  BY <1>1 DEF TopEpoch

\* The readable epochs stay a prefix while no file is corrupt.
LEMMA PrefixStep ==
  OwnershipTypeOK /\ OwnershipInv /\ HistoryIsPrefix /\ [OwnershipNext]_ownershipVars
    => HistoryIsPrefix'
<1> SUFFICES ASSUME OwnershipTypeOK, OwnershipInv, HistoryIsPrefix,
                    [OwnershipNext]_ownershipVars, faults' = {}
             PROVE  \E e \in 0..MaxEpoch : ValidEpochs' = 1..e
  BY DEF HistoryIsPrefix
<1> USE OwnershipAssumption
<1>1. faults = {}
  BY DEF OwnershipNext, AcquireStep, RequestEpoch, ReadCurrent, GiveUp, LinkEpoch,
         Reparse, UnlinkCorrupt, Forget, OrphanedClaim, ownershipVars
<1>2. PICK e \in 0..MaxEpoch : ValidEpochs = 1..e
  BY <1>1 DEF HistoryIsPrefix
<1>3. CASE UNCHANGED epochFile
  BY <1>2, <1>3 DEF ValidEpochs
<1>4. ASSUME NEW p \in Proc, LinkEpoch(p), ~UNCHANGED epochFile
      PROVE  \E f \in 0..MaxEpoch : ValidEpochs' = 1..f
  <2> DEFINE n == acq[p].epoch
  <2>1. n \in Epoch /\ epochFile[n] = Absent /\ epochFile' = [epochFile EXCEPT ![n] = p]
    BY <1>4 DEF LinkEpoch, OwnershipInv
  <2>2. n \notin ValidEpochs /\ \A f \in 1..(n - 1) : f \in ValidEpochs
    BY <1>1, <1>4, <2>1 DEF LinkEpoch, OwnershipInv, ValidEpochs
  <2>3. n = e + 1
    BY <1>2, <2>1, <2>2 DEF Epoch
  <2>4. ValidEpochs' = ValidEpochs \cup {n}
    BY <2>1 DEF ValidEpochs, OwnershipTypeOK
  <2> QED
    BY <1>2, <2>1, <2>3, <2>4 DEF Epoch
<1>5. ASSUME NEW p \in Proc, UnlinkCorrupt(p)
      PROVE  FALSE
  BY <1>1, <1>5 DEF UnlinkCorrupt, OwnershipInv
<1>6. ASSUME OrphanedClaim
      PROVE  FALSE
  BY <1>6 DEF OrphanedClaim
<1> QED
  BY <1>3, <1>4, <1>5, <1>6
  DEF OwnershipNext, AcquireStep, RequestEpoch, ReadCurrent, GiveUp, Reparse, Forget,
      ownershipVars

\* A grant at the end of the ledger, element by element.
LEMMA AppendIs ==
  ASSUME NEW S, NEW s \in Seq(S), NEW x \in S
  PROVE  [e \in 1..(Len(s) + 1) |-> IF e = Len(s) + 1 THEN x ELSE s[e]] = Append(s, x)
<1> DEFINE t == [e \in 1..(Len(s) + 1) |-> IF e = Len(s) + 1 THEN x ELSE s[e]]
<1>1. t \in Seq(S) /\ Len(t) = Len(s) + 1
  OBVIOUS
<1>2. Append(s, x) \in Seq(S) /\ Len(Append(s, x)) = Len(s) + 1
  OBVIOUS
<1>3. \A e \in 1..(Len(s) + 1) : t[e] = Append(s, x)[e]
  OBVIOUS
<1> QED
  BY <1>1, <1>2, <1>3, SeqEqual

\* One step of a caller is a grant, a drop or a stutter of the ledger, until the
\* first corrupt file.
LEMMA LedgerStep ==
  OwnershipTypeOK /\ OwnershipInv /\ HistoryIsPrefix /\ [OwnershipNext]_ownershipVars
    => [faults # {} \/ Ledger!LedgerNext]_(Ledger!ledgerVars)
<1> SUFFICES ASSUME OwnershipTypeOK, OwnershipInv, HistoryIsPrefix,
                    [OwnershipNext]_ownershipVars, faults = {}
             PROVE  Ledger!LedgerNext \/ UNCHANGED Ledger!ledgerVars
  OBVIOUS
<1> USE OwnershipAssumption
<1> DEFINE L == [e \in 1..TopEpoch |-> epochFile[e]]
           H == [p \in Proc |-> IF acq[p].pc = "won" THEN acq[p].epoch ELSE 0]
<1>0. PICK top \in 0..MaxEpoch : ValidEpochs = 1..top
  BY DEF HistoryIsPrefix
<1>1. TopEpoch = top
  <2>1. IsCurrent(top)
    BY <1>0 DEF IsCurrent
  <2> QED
    BY <2>1, TopIsCurrent
<1>2. ASSUME UNCHANGED epochFile, NEW p \in Proc,
             \A q \in Proc \ {p} : acq'[q] = acq[q],
             acq'[p].pc # "won"
      PROVE  L' = L /\ H' = [H EXCEPT ![p] = 0]
  BY <1>2 DEF TopEpoch, IsCurrent, ValidEpochs
<1>3. ASSUME NEW p \in Proc, RequestEpoch(p) \/ ReadCurrent(p) \/ GiveUp(p) \/ Reparse(p)
      PROVE  L' = L /\ H' = [H EXCEPT ![p] = 0]
  <2>1. /\ UNCHANGED epochFile
        /\ \A q \in Proc \ {p} : acq'[q] = acq[q]
        /\ acq'[p].pc # "won"
    BY <1>3
    DEF RequestEpoch, ReadCurrent, GiveUp, Reparse, NotAcquiring, OwnershipTypeOK,
        AcquireState
  <2> QED
    BY <1>2, <2>1
<1>4. ASSUME NEW p \in Proc, Forget(p)
      PROVE  L' = L /\ H' = [H EXCEPT ![p] = 0]
  <2>1. /\ UNCHANGED epochFile
        /\ \A q \in Proc \ {p} : acq'[q] = acq[q]
        /\ acq'[p].pc # "won"
    BY <1>4 DEF Forget, NotAcquiring, OwnershipTypeOK
  <2> QED
    BY <1>2, <2>1
<1>5. ASSUME NEW p \in Proc, LinkEpoch(p)
      PROVE  \/ L' = L /\ H' = [H EXCEPT ![p] = 0]
             \/ L' = Append(L, p) /\ H' = [H EXCEPT ![p] = Len(L) + 1]
  <2> DEFINE n == acq[p].epoch
  <2>1. CASE UNCHANGED epochFile
    <3>1. acq'[p].pc # "won" /\ \A q \in Proc \ {p} : acq'[q] = acq[q]
      BY <1>5, <2>1 DEF LinkEpoch, OwnershipTypeOK, AcquireState, OwnershipInv
    <3> QED
      BY <1>2, <2>1, <3>1
  <2>2. CASE /\ epochFile[n] = Absent
             /\ epochFile' = [epochFile EXCEPT ![n] = p]
             /\ acq' = [acq EXCEPT ![p].pc = "won"]
    <3>1. n \in Epoch /\ n \notin ValidEpochs /\ \A f \in 1..(n - 1) : f \in ValidEpochs
      BY <1>5, <2>2 DEF LinkEpoch, OwnershipInv, ValidEpochs
    <3>2. n = top + 1
      BY <1>0, <3>1 DEF Epoch
    <3>3. ValidEpochs' = ValidEpochs \cup {n}
      BY <2>2, <3>1 DEF ValidEpochs, OwnershipTypeOK
    <3>4. TopEpoch' = top + 1
      <4>1. top + 1 \in 0..MaxEpoch /\ IsCurrent(top + 1)'
        BY <1>0, <3>1, <3>2, <3>3 DEF IsCurrent, Epoch
      <4>2. \A f \in 0..MaxEpoch : IsCurrent(f)' => f = top + 1
        BY <1>0, <3>2, <3>3, <4>1 DEF IsCurrent
      <4> QED
        BY <4>1, <4>2 DEF TopEpoch
    <3>5. TopEpoch' = n
      BY <3>2, <3>4
    <3>6. L \in Seq(Proc) /\ Len(L) = top /\ DOMAIN L = 1..top
      BY <1>0, <1>1 DEF ValidEpochs
    <3>7. L' = [e \in 1..n |-> epochFile'[e]]
      BY <3>5
    <3>8. L' = Append(L, p)
      <4>1. \A e \in 1..top : epochFile'[e] = epochFile[e] /\ L[e] = epochFile[e]
        BY <1>0, <1>1, <2>2, <3>2 DEF OwnershipTypeOK, Epoch
      <4>2. epochFile'[n] = p
        BY <2>2, <3>1 DEF OwnershipTypeOK
      <4>3. L' = [e \in 1..(Len(L) + 1) |-> IF e = Len(L) + 1 THEN p ELSE L[e]]
        <5>1. L' = [e \in 1..(top + 1) |-> epochFile'[e]]
          BY <3>2, <3>7
        <5>2. \A e \in 1..(top + 1) :
                epochFile'[e] = IF e = top + 1 THEN p ELSE L[e]
          BY <3>2, <4>1, <4>2
        <5> QED
          BY <3>6, <5>1, <5>2
      <4> QED
        BY <3>6, <4>3, AppendIs
    <3>9. H' = [H EXCEPT ![p] = Len(L) + 1]
      <4>1. acq'[p].pc = "won" /\ acq'[p].epoch = n /\ \A q \in Proc \ {p} : acq'[q] = acq[q]
        BY <2>2 DEF OwnershipTypeOK, AcquireState
      <4> QED
        BY <3>2, <3>6, <4>1
    <3> QED
      BY <3>8, <3>9
  <2> QED
    BY <1>5, <2>1, <2>2 DEF LinkEpoch
<1>6. CASE OrphanedClaim
  <2>1. UNCHANGED ValidEpochs /\ \A e \in 1..top : epochFile'[e] = epochFile[e]
    <3>1. PICK e \in Epoch : /\ epochFile[e] = Absent
                             /\ epochFile' = [epochFile EXCEPT ![e] = Corrupt]
      BY <1>6 DEF OrphanedClaim
    <3> QED
      BY <1>0, <3>1 DEF ValidEpochs, OwnershipTypeOK
  <2>2. UNCHANGED TopEpoch
    BY <2>1 DEF TopEpoch, IsCurrent
  <2>3. L' = L /\ H' = H
    BY <1>1, <1>6, <2>1, <2>2 DEF OrphanedClaim
  <2> QED
    BY <2>3 DEF Ledger!ledgerVars
<1>7. ASSUME NEW p \in Proc, UnlinkCorrupt(p)
      PROVE  FALSE
  BY <1>7 DEF UnlinkCorrupt, OwnershipInv
<1>8. CASE UNCHANGED ownershipVars
  BY <1>8 DEF ownershipVars, Ledger!ledgerVars, TopEpoch, IsCurrent, ValidEpochs
<1>9. ASSUME NEW p \in Proc, RequestEpoch(p) \/ AcquireStep(p) \/ Forget(p)
      PROVE  Ledger!LedgerNext
  <2>1. \/ L' = L /\ H' = [H EXCEPT ![p] = 0]
        \/ L' = Append(L, p) /\ H' = [H EXCEPT ![p] = Len(L) + 1]
    BY <1>9, <1>3, <1>4, <1>5, <1>7 DEF AcquireStep
  <2> QED
    BY <2>1 DEF Ledger!LedgerNext, Ledger!Grant, Ledger!Drop
<1> QED
  BY <1>6, <1>8, <1>9 DEF OwnershipNext

\* Until the first corrupt file, any number of racing callers of acquireOwnership
\* implement the append-only ledger: every winning link is the next grant, to the
\* caller that is told so, and no other step shows.
THEOREM ImplementsLedgerHolds == OwnershipSpec => ImplementsLedger
<1>1. OwnershipInit => HistoryIsPrefix /\ Ledger!LedgerInit
  <2> SUFFICES ASSUME OwnershipInit PROVE HistoryIsPrefix /\ Ledger!LedgerInit
    OBVIOUS
  <2>1. ValidEpochs = {}
    BY OwnershipAssumption DEF OwnershipInit, ValidEpochs, Epoch
  <2>2. IsCurrent(0)
    BY <2>1 DEF IsCurrent
  <2>3. TopEpoch = 0
    BY <2>2, TopIsCurrent, OwnershipAssumption
  <2>4. [e \in 1..TopEpoch |-> epochFile[e]] = <<>>
    BY <2>3
  <2>5. HistoryIsPrefix
    BY <2>1, OwnershipAssumption DEF HistoryIsPrefix
  <2> QED
    BY <2>4, <2>5 DEF OwnershipInit, NotAcquiring, Ledger!LedgerInit
<1>2. OwnershipSpec => []HistoryIsPrefix
  BY <1>1, PrefixStep, OwnershipInvariant, PTL DEF OwnershipSpec
<1> QED
  BY <1>1, <1>2, LedgerStep, OwnershipInvariant, PTL DEF OwnershipSpec, ImplementsLedger

-----------------------------------------------------------------------------
(***************************************************************************)
(* startBackgroundRun.                                                     *)
(***************************************************************************)

Starting == {"peek", "fence", "refence", "claim", "spawn", "assert", "write", "slot", "ready"}

\* Only s has moved, to a record of the right type.
OnlyStart(s) ==
  /\ start' \in [Starter -> StartState]
  /\ \A t \in Starter \ {s} : start'[t] = start[t]

\* Going on leaves the record's other fields alone.
LEMMA GoFacts ==
  ASSUME start \in [Starter -> StartState], NEW s \in Starter, NEW x \in Starting, Go(s, x)
  PROVE  /\ OnlyStart(s)
         /\ start'[s].pc = x /\ start'[s].doing = start[s].doing
         /\ start'[s].outcome = start[s].outcome /\ start'[s].handle = start[s].handle
<1> DEFINE c == start[s]
           d == [c EXCEPT !.pc = x]
<1>1. c \in StartState
  OBVIOUS
<1>2. d \in StartState /\ d.pc = x /\ d.doing = c.doing /\ d.outcome = c.outcome
      /\ d.handle = c.handle
  BY <1>1 DEF StartState, Starting
<1>3. start' = [start EXCEPT ![s] = d]
  BY DEF Go
<1> HIDE DEF c, d
<1> QED
  BY <1>2, <1>3 DEF c, OnlyStart

\* So does noting the epoch read.
LEMMA SawFacts ==
  ASSUME start \in [Starter -> StartState], NEW s \in Starter, NEW x \in {"peek", "fence"},
         NEW e \in 0..MaxEpoch,
         start' = [start EXCEPT ![s] = [@ EXCEPT !.pc = x, !.saw = e]]
  PROVE  /\ OnlyStart(s)
         /\ start'[s].pc = x /\ start'[s].doing = start[s].doing
         /\ start'[s].outcome = start[s].outcome /\ start'[s].handle = start[s].handle
<1> DEFINE c == start[s]
           d == [c EXCEPT !.pc = x, !.saw = e]
<1>1. c \in StartState
  OBVIOUS
<1>2. d \in StartState /\ d.pc = x /\ d.doing = c.doing /\ d.outcome = c.outcome
      /\ d.handle = c.handle
  BY <1>1 DEF StartState
<1>3. start' = [start EXCEPT ![s] = d]
  OBVIOUS
<1> HIDE DEF c, d
<1> QED
  BY <1>2, <1>3 DEF c, OnlyStart

\* Turning to the next record to write.
LEMMA OnwardFacts ==
  ASSUME start \in [Starter -> StartState], NEW s \in Starter, NEW r \in Stage, Onward(s, r)
  PROVE  /\ OnlyStart(s)
         /\ start'[s].pc = "assert" /\ start'[s].doing = r
         /\ start'[s].outcome = start[s].outcome /\ start'[s].handle = start[s].handle
<1> DEFINE c == start[s]
           d == [c EXCEPT !.pc = "assert", !.doing = r]
<1>1. c \in StartState
  OBVIOUS
<1>2. d \in StartState /\ d.pc = "assert" /\ d.doing = r /\ d.outcome = c.outcome
      /\ d.handle = c.handle
  BY <1>1 DEF StartState, Stage
<1>3. start' = [start EXCEPT ![s] = d]
  BY DEF Onward
<1> HIDE DEF c, d
<1> QED
  BY <1>2, <1>3 DEF c, OnlyStart

\* The probe for a transition slot.
LEMMA ProbeFacts ==
  ASSUME start \in [Starter -> StartState], NEW s \in Starter,
         NEW n \in Nat, NEW k \in 0..MaxAttempts, Probe(s, n, k)
  PROVE  /\ OnlyStart(s)
         /\ start'[s].pc = "slot" /\ start'[s].doing = start[s].doing
         /\ start'[s].outcome = start[s].outcome /\ start'[s].handle = start[s].handle
<1> DEFINE c == start[s]
           d == [c EXCEPT !.pc = "slot", !.seq = n, !.tries = k]
<1>1. c \in StartState
  OBVIOUS
<1>2. d \in StartState /\ d.pc = "slot" /\ d.doing = c.doing /\ d.outcome = c.outcome
      /\ d.handle = c.handle
  BY <1>1 DEF StartState
<1>3. start' = [start EXCEPT ![s] = d]
  BY DEF Probe
<1> HIDE DEF c, d
<1> QED
  BY <1>2, <1>3 DEF c, OnlyStart

\* How a start ends.
LEMMA EndsFacts ==
  ASSUME start \in [Starter -> StartState], NEW s \in Starter,
         NEW o \in {"acked", "attached", "error", "killed"},
         NEW h \in Starter \cup {NoRun}, Ends(s, o, h)
  PROVE  /\ OnlyStart(s)
         /\ start'[s].pc = "done" /\ start'[s].doing = "run"
         /\ start'[s].outcome = o /\ start'[s].handle = h
<1> DEFINE c == NotStarted
           d == [c EXCEPT !.pc = "done", !.outcome = o, !.handle = h]
<1>1. c \in StartState /\ c.doing = "run"
  BY OwnershipAssumption DEF NotStarted, StartState, Stage
<1> HIDE DEF c
<1>2. d \in StartState /\ d.pc = "done" /\ d.doing = "run" /\ d.outcome = o /\ d.handle = h
  BY <1>1 DEF StartState
<1>3. start' = [start EXCEPT ![s] = d]
  BY DEF Ends, c
<1> HIDE DEF d
<1> QED
  BY <1>2, <1>3 DEF OnlyStart
-----------------------------------------------------------------------------
\* A call of acquireOwnership that begins, or a caller that dies, leaves the epoch
\* files and the other callers as they were.
LEMMA CallKeeps ==
  ASSUME OwnershipTypeOK, OwnershipInv, NEW s \in Starter,
         CallAcquire(s) \/ acq' = [acq EXCEPT ![s] = NotAcquiring],
         UNCHANGED <<epochFile, faults>>
  PROVE  /\ OwnershipTypeOK' /\ OwnershipInv'
         /\ \A q \in Proc \ {s} : acq'[q] = acq[q]
<1> USE OwnershipAssumption, BackgroundAssumption
<1>1. PICK c \in AcquireState : /\ c.pc \in {"idle", "read"}
                                /\ acq' = [acq EXCEPT ![s] = c]
  BY DEF CallAcquire, NotAcquiring, AcquireState, Running
<1>2. /\ acq' \in [Proc -> AcquireState] /\ acq'[s] = c
      /\ \A q \in Proc \ {s} : acq'[q] = acq[q]
  BY <1>1 DEF OwnershipTypeOK
<1>3. OwnershipTypeOK'
  BY <1>2 DEF OwnershipTypeOK
<1>4. OwnershipInv'
  BY <1>1, <1>2 DEF OwnershipInv, EpochsContiguous, ValidEpochs
<1> QED
  BY <1>2, <1>3, <1>4

\* An epoch claimed beside the starts goes on top of a complete history.
LEMMA OtherClaimKeeps ==
  ASSUME OwnershipTypeOK, OwnershipInv, \A p \in Proc \ Starter : acq[p] = NotAcquiring,
         OtherClaims
  PROVE  OwnershipTypeOK' /\ OwnershipInv'
<1> USE OwnershipAssumption, BackgroundAssumption
<1>1. PICK p \in Proc \ Starter, e \in Epoch :
        /\ IsCurrent(e - 1) /\ epochFile[e] = Absent
        /\ epochFile' = [epochFile EXCEPT ![e] = p]
  BY DEF OtherClaims
<1>2. UNCHANGED <<acq, faults>>
  BY DEF OtherClaims
<1>3. /\ epochFile'[e] = p /\ \A f \in Epoch \ {e} : epochFile'[f] = epochFile[f]
      /\ ValidEpochs' = ValidEpochs \cup {e} /\ OwnershipTypeOK'
  BY <1>1, <1>2 DEF ValidEpochs, OwnershipTypeOK
<1>4. \A f \in 1..(e - 1) : f \in ValidEpochs \cup faults
  <2>1. CASE e - 1 = 0
    BY <2>1 DEF Epoch
  <2>2. CASE e - 1 \in ValidEpochs
    BY <2>2 DEF OwnershipInv, EpochsContiguous
  <2> QED
    BY <1>1, <2>1, <2>2 DEF IsCurrent
<1>5. EpochsContiguous'
  BY <1>2, <1>3, <1>4 DEF OwnershipInv, EpochsContiguous, ValidEpochs, Epoch
<1>6. \A f \in Epoch \ faults : epochFile'[f] # Corrupt
  BY <1>2, <1>3 DEF OwnershipInv
<1>7. ASSUME NEW q \in Proc
      PROVE  /\ acq[q].pc = "link" =>
                  \A f \in 1..(acq[q].epoch - 1) : f \in ValidEpochs' \cup faults
             /\ acq[q].epoch \notin faults =>
                  /\ acq[q].pc = "link" => epochFile'[acq[q].epoch] # q
                  /\ acq[q].pc \in {"reparse", "lost"} =>
                       epochFile'[acq[q].epoch] \in Proc \ {q}
                  /\ acq[q].pc = "won" => epochFile'[acq[q].epoch] = q
  <2>1. acq[p].pc = "idle"
    BY DEF NotAcquiring
  <2>2. acq[q].pc \in {"link", "reparse", "won", "lost"} => acq[q].epoch \in Epoch
    BY DEF OwnershipInv
  <2>3. acq[q].pc \in {"reparse", "won", "lost"} /\ acq[q].epoch \notin faults
          => acq[q].epoch # e
    BY <1>1 DEF OwnershipInv
  <2>4. acq[q].pc = "link" => q # p
    BY <2>1
  <2> QED
    BY <1>3, <2>2, <2>3, <2>4 DEF OwnershipInv
<1> QED
  BY <1>2, <1>3, <1>5, <1>6, <1>7 DEF OwnershipInv

\* What a step of anyone does to the ownership directory and its callers.
LEMMA OwnershipPart ==
  ASSUME OwnershipTypeOK, OwnershipInv, \A p \in Proc \ Starter : acq[p] = NotAcquiring,
         [Next]_vars
  PROVE  /\ OwnershipTypeOK' /\ OwnershipInv'
         /\ \A p \in Proc \ Starter : acq'[p] = NotAcquiring
<1> USE OwnershipAssumption, BackgroundAssumption
<1> DEFINE Good == /\ OwnershipTypeOK' /\ OwnershipInv'
                   /\ \A p \in Proc \ Starter : acq'[p] = NotAcquiring
<1>1. ASSUME NEW s \in Starter, AcquireStep(s)
      PROVE  Good
  <2>1. OwnershipTypeOK' /\ OwnershipInv'
    BY <1>1, TypeStep, InvStep DEF OwnershipNext
  <2>2. \A q \in Proc \ {s} : acq'[q] = acq[q]
    BY <1>1 DEF AcquireStep, ReadCurrent, GiveUp, LinkEpoch, Reparse, UnlinkCorrupt,
                OwnershipTypeOK
  <2> QED
    BY <2>1, <2>2
<1>2. CASE UNCHANGED ownershipVars
  <2>1. OwnershipTypeOK' /\ OwnershipInv'
    BY <1>2, TypeStep, InvStep
  <2> QED
    BY <1>2, <2>1 DEF ownershipVars
<1>3. ASSUME NEW s \in Starter, CallAcquire(s) \/ acq' = [acq EXCEPT ![s] = NotAcquiring],
             UNCHANGED <<epochFile, faults>>
      PROVE  Good
  BY <1>3, CallKeeps
<1>4. CASE OtherClaims
  <2>1. OwnershipTypeOK' /\ OwnershipInv'
    BY <1>4, OtherClaimKeeps
  <2> QED
    BY <1>4, <2>1 DEF OtherClaims
<1>5. CASE OrphanedClaim
  <2>1. OwnershipTypeOK' /\ OwnershipInv'
    BY <1>5, TypeStep, InvStep DEF OwnershipNext
  <2> QED
    BY <1>5, <2>1 DEF OrphanedClaim
<1>6. ASSUME NEW s \in Starter, Peek(s) \/ Fence(s) \/ Kill(s)
      PROVE  Good
  <2>1. UNCHANGED <<epochFile, faults>>
    BY <1>6 DEF Peek, Fence, Kill
  <2>2. CallAcquire(s) \/ acq' = [acq EXCEPT ![s] = NotAcquiring] \/ UNCHANGED acq
    BY <1>6 DEF Peek, Fence, Kill
  <2> QED
    BY <2>1, <2>2, <1>2, <1>3 DEF ownershipVars
<1>7. ASSUME NEW s \in Starter,
             Look(s) \/ Refenced(s) \/ Claimed(s) \/ Spawn(s) \/ AssertEpoch(s)
               \/ WriteRun(s) \/ CountSlots(s) \/ LinkSlot(s) \/ Ready(s) \/ ChildDies(s)
      PROVE  Good
  <2>1. UNCHANGED ownershipVars
    BY <1>7 DEF Look, Refenced, Claimed, Spawn, AssertEpoch, WriteRun, CountSlots,
                LinkSlot, Ready, ChildDies
  <2> QED
    BY <2>1, <1>2
<1> QED
  BY <1>1, <1>2, <1>4, <1>5, <1>6, <1>7 DEF Next, StartStep, vars
-----------------------------------------------------------------------------
\* What BackgroundInv says of one start.
Sound(s) ==
  /\ StartProgress(s)
  /\ faults = {} =>
       /\ start[s].doing # "run" \/ start[s].outcome = "acked" => runFile[Mine(s)] = s
       /\ start[s].outcome = "attached" =>
            start[s].handle # NoRun /\ \E e \in Epoch : runFile[e] = start[s].handle
       /\ Live(s) => \/ \E e \in Epoch : runFile[e] = s
                     \/ start[s].pc \in {"assert", "write"} /\ start[s].doing = "run"
                     \/ start[s].outcome = "killed"
  /\ start[s].pc = "ready" \/ start[s].doing = "paused" \/ start[s].outcome = "acked" =>
       \E t \in journal[Mine(s)] : t.by = s /\ t.to = "running"

\* What BackgroundInv says of the records.
Records ==
  /\ \A e \in Epoch : IsFiniteSet(journal[e])
  /\ faults = {} => \A e \in Epoch : runFile[e] # NoRun => epochFile[e] = runFile[e]

\* The inductive invariant, start by start.
LEMMA InvIsSound ==
  BackgroundInv <=> /\ OwnershipInv
                    /\ \A p \in Proc \ Starter : acq[p] = NotAcquiring
                    /\ Records
                    /\ \A s \in Starter : Sound(s)
BY DEF BackgroundInv, Sound, Records, HandleIsDurable, NoUnrecordedController, TransitionKept

\* A step that keeps run records and transitions, as every step does, leaves a
\* start it does not move as sound as it was.
Keeps ==
  /\ faults' = {} => faults = {}
  /\ faults' = {} => \A e \in Epoch : runFile[e] # NoRun => runFile'[e] = runFile[e]
  /\ \A e \in Epoch : journal[e] \subseteq journal'[e]

\* A start whose own state a step leaves alone stays sound.
LEMMA Frame ==
  ASSUME BackgroundTypeOK, OwnershipInv, Keeps, NEW s \in Starter, Sound(s),
         start'[s] = start[s], child'[s] = child[s],
         acq'[s] = acq[s] \/ acq[s].pc # "won"
  PROVE  Sound(s)'
<1> USE BackgroundAssumption
<1>1. start[s].doing # "run" \/ start[s].outcome = "acked" =>
        acq[s].pc = "won" /\ acq'[s] = acq[s] /\ Mine(s) \in Epoch
  BY DEF Sound, StartProgress, OwnershipInv, Mine, Holding
<1>2. StartProgress(s)'
  BY DEF Sound, StartProgress
<1>3. start[s].pc = "ready" => start[s].doing # "run"
  BY DEF Sound, StartProgress
<1>4. start[s] \in StartState /\ s # NoRun
  BY DEF BackgroundTypeOK
<1>5. ASSUME start[s].pc = "ready" \/ start[s].doing = "paused" \/ start[s].outcome = "acked"
      PROVE  \E t \in journal'[Mine(s)'] : t.by = s /\ t.to = "running"
  BY <1>1, <1>3, <1>5 DEF Sound, Keeps, Mine
<1>6. ASSUME faults' = {}
      PROVE  /\ start[s].doing # "run" \/ start[s].outcome = "acked" => runFile'[Mine(s)'] = s
             /\ start[s].outcome = "attached" =>
                  start[s].handle # NoRun /\ \E e \in Epoch : runFile'[e] = start[s].handle
             /\ child[s] = "live" =>
                  \/ \E e \in Epoch : runFile'[e] = s
                  \/ start[s].pc \in {"assert", "write"} /\ start[s].doing = "run"
                  \/ start[s].outcome = "killed"
  <2>1. faults = {} /\ \A e \in Epoch : runFile[e] # NoRun => runFile'[e] = runFile[e]
    BY <1>6 DEF Keeps
  <2>2. start[s].doing # "run" \/ start[s].outcome = "acked" => runFile'[Mine(s)'] = s
    BY <1>1, <1>4, <2>1 DEF Sound, Mine
  <2>3. start[s].outcome = "attached" =>
          start[s].handle # NoRun /\ \E e \in Epoch : runFile'[e] = start[s].handle
    BY <2>1 DEF Sound
  <2> QED
    BY <1>4, <2>1, <2>2, <2>3 DEF Sound, Live
<1> QED
  BY <1>2, <1>5, <1>6 DEF Sound, Live

\* What every step of a start, or of its controller, achieves.
Moved(s) ==
  /\ OnlyStart(s)
  /\ runFile' \in [Epoch -> Starter \cup {NoRun}]
  /\ journal' \in [Epoch -> SUBSET Transition]
  /\ child' \in [Starter -> {"none", "live", "dead"}]
  /\ Keeps
  /\ Records'
  /\ Sound(s)'
  /\ \A t \in Starter \ {s} : child'[t] = child[t] /\ acq'[t] = acq[t]

\* The steps that write no record.
Quiet == UNCHANGED <<epochFile, faults, runFile, journal>>

\* A step that writes no record keeps all of them.
LEMMA QuietFacts ==
  ASSUME BackgroundTypeOK, Records, Quiet
  PROVE  /\ Keeps /\ Records'
         /\ runFile' \in [Epoch -> Starter \cup {NoRun}]
         /\ journal' \in [Epoch -> SUBSET Transition]
BY DEF Quiet, Keeps, Records, BackgroundTypeOK

\* A new or dying call of acquireOwnership touches its own caller only.
LEMMA CallIsLocal ==
  ASSUME BackgroundTypeOK, NEW s \in Starter,
         CallAcquire(s) \/ acq' = [acq EXCEPT ![s] = NotAcquiring] \/ UNCHANGED acq
  PROVE  \A t \in Starter \ {s} : acq'[t] = acq[t]
BY BackgroundAssumption DEF CallAcquire, BackgroundTypeOK, OwnershipTypeOK

\* Up to the spawn a start owns nothing: it reads, fences and claims.
LEMMA EarlySteps ==
  ASSUME BackgroundTypeOK, BackgroundInv, NEW s \in Starter,
         Look(s) \/ Peek(s) \/ Fence(s) \/ Refenced(s) \/ Claimed(s)
  PROVE  Moved(s)
<1> USE BackgroundAssumption, OwnershipAssumption
<1>0. /\ Records /\ Sound(s) /\ start \in [Starter -> StartState]
      /\ start[s] \in StartState /\ acq[s] \in AcquireState
  BY InvIsSound DEF BackgroundTypeOK, OwnershipTypeOK
<1>1. /\ Quiet /\ UNCHANGED child
      /\ CallAcquire(s) \/ UNCHANGED acq
      /\ start[s].pc \in {"idle", "peek", "fence", "refence", "claim"}
  BY DEF Look, Peek, Fence, Refenced, Claimed, Quiet, ownershipVars
<1>2. /\ child[s] = "none" /\ start[s].doing = "run" /\ start[s].outcome = "none"
      /\ ~Live(s)
  BY <1>0, <1>1 DEF Sound, StartProgress, Live
<1>3. /\ Keeps /\ Records'
      /\ runFile' \in [Epoch -> Starter \cup {NoRun}]
      /\ journal' \in [Epoch -> SUBSET Transition]
      /\ child' \in [Starter -> {"none", "live", "dead"}]
      /\ \A t \in Starter \ {s} : child'[t] = child[t] /\ acq'[t] = acq[t]
  BY <1>0, <1>1, QuietFacts, CallIsLocal DEF BackgroundTypeOK
<1>4. ASSUME OnlyStart(s), start'[s].pc \in {"peek", "fence", "refence", "claim"},
             start'[s].doing = start[s].doing, start'[s].outcome = start[s].outcome
      PROVE  Moved(s)
  <2>1. Sound(s)'
    BY <1>1, <1>2, <1>4 DEF Sound, StartProgress, Holding, Live
  <2> QED
    BY <1>3, <1>4, <2>1 DEF Moved
<1>5. ASSUME Ends(s, "error", NoRun)
      PROVE  Moved(s)
  <2>1. /\ OnlyStart(s) /\ start'[s].pc = "done" /\ start'[s].doing = "run"
        /\ start'[s].outcome = "error"
    BY <1>0, <1>5, EndsFacts
  <2>2. Sound(s)'
    BY <1>1, <1>2, <2>1 DEF Sound, StartProgress, Holding, Live
  <2> QED
    BY <1>3, <2>1, <2>2 DEF Moved
<1>6. ASSUME NEW e \in Epoch, runFile[e] # NoRun, Ends(s, "attached", runFile[e])
      PROVE  Moved(s)
  <2>1. runFile[e] \in Starter
    BY <1>6 DEF BackgroundTypeOK
  <2>2. /\ OnlyStart(s) /\ start'[s].pc = "done" /\ start'[s].doing = "run"
        /\ start'[s].outcome = "attached" /\ start'[s].handle = runFile[e]
    BY <1>0, <1>6, <2>1, EndsFacts
  <2>3. Sound(s)'
    BY <1>1, <1>2, <1>6, <2>2 DEF Sound, StartProgress, Holding, Live, Quiet
  <2> QED
    BY <1>3, <2>2, <2>3 DEF Moved
<1>7. ASSUME NEW x \in {"claim", "fence", "refence"}, Go(s, x)
      PROVE  Moved(s)
  <2>1. x \in Starting
    BY DEF Starting
  <2> QED
    BY <1>0, <1>4, <1>7, <2>1, GoFacts
<1>8. CASE Look(s)
  <2>1. PICK e \in 0..MaxEpoch :
          start' = [start EXCEPT ![s] = [@ EXCEPT !.pc = "peek", !.saw = e]]
    BY <1>8 DEF Look
  <2> QED
    BY <1>0, <1>4, <2>1, SawFacts
<1>9. CASE Peek(s)
  <2>1. start[s].saw \in 0..MaxEpoch
    BY <1>0 DEF StartState
  <2>2. \/ Go(s, "claim") \/ Go(s, "fence")
        \/ /\ start[s].saw # 0 /\ runFile[start[s].saw] # NoRun
           /\ Ends(s, "attached", runFile[start[s].saw])
    BY <1>9 DEF Peek
  <2> QED
    BY <1>6, <1>7, <2>1, <2>2 DEF Epoch
<1>10. CASE Fence(s)
  BY <1>7, <1>10 DEF Fence
<1>11. CASE Refenced(s)
  <2>1. Mine(s) \in 0..MaxEpoch
    BY <1>0 DEF Mine, AcquireState
  <2>2. CASE start' = [start EXCEPT ![s] = [@ EXCEPT !.pc = "fence", !.saw = Mine(s)]]
    BY <1>0, <1>4, <2>1, <2>2, SawFacts
  <2> QED
    BY <1>5, <1>11, <2>2 DEF Refenced
<1>12. CASE Claimed(s)
  <2>1. CASE acq[s].pc = "won" /\ Go(s, "spawn")
    <3>1. /\ OnlyStart(s) /\ start'[s].pc = "spawn" /\ start'[s].doing = "run"
          /\ start'[s].outcome = "none"
      BY <1>0, <1>2, <2>1, GoFacts DEF Starting
    <3>2. UNCHANGED acq
      BY <1>12 DEF Claimed, ownershipVars
    <3>3. Sound(s)'
      BY <1>1, <1>2, <2>1, <3>1, <3>2 DEF Sound, StartProgress, Holding, Live
    <3> QED
      BY <1>3, <3>1, <3>3 DEF Moved
  <2>2. CASE acq[s].pc = "lost" /\ runFile[Mine(s)] # NoRun
               /\ Ends(s, "attached", runFile[Mine(s)])
    <3>1. Mine(s) \in Epoch
      BY <2>2 DEF BackgroundInv, OwnershipInv, Mine
    <3> QED
      BY <1>6, <2>2, <3>1
  <2> QED
    BY <1>5, <1>12, <2>1, <2>2 DEF Claimed
<1> QED
  BY <1>8, <1>9, <1>10, <1>11, <1>12

\* From the spawn to the answer: the controller is spawned and its epoch checked
\* before each record.
LEMMA SpawnSteps ==
  ASSUME BackgroundTypeOK, BackgroundInv, NEW s \in Starter,
         Spawn(s) \/ AssertEpoch(s) \/ Ready(s)
  PROVE  Moved(s)
<1> USE BackgroundAssumption, OwnershipAssumption
<1>0. /\ Records /\ Sound(s) /\ start \in [Starter -> StartState]
      /\ start[s] \in StartState /\ acq[s] \in AcquireState
      /\ child \in [Starter -> {"none", "live", "dead"}]
  BY InvIsSound DEF BackgroundTypeOK, OwnershipTypeOK
<1>1. Quiet /\ UNCHANGED acq /\ start[s].pc \in {"spawn", "assert", "ready"}
  BY DEF Spawn, AssertEpoch, Ready, Quiet, ownershipVars
<1>2. acq[s].pc = "won" /\ start[s].outcome = "none" /\ Mine(s) \in Epoch
  BY <1>0, <1>1 DEF Sound, StartProgress, Holding, BackgroundInv, OwnershipInv, Mine
<1>3. /\ Keeps /\ Records'
      /\ runFile' \in [Epoch -> Starter \cup {NoRun}]
      /\ journal' \in [Epoch -> SUBSET Transition]
      /\ \A t \in Starter \ {s} : acq'[t] = acq[t]
  BY <1>0, <1>1, QuietFacts
<1>4. CASE Spawn(s)
  <2>1. start[s].doing = "run" /\ child[s] = "none"
    BY <1>0, <1>4 DEF Spawn, Sound, StartProgress
  <2>2. CASE child' = [child EXCEPT ![s] = "live"] /\ Go(s, "assert")
    <3>1. /\ OnlyStart(s) /\ start'[s].pc = "assert" /\ start'[s].doing = "run"
          /\ start'[s].outcome = "none"
      BY <1>0, <1>2, <2>1, <2>2, GoFacts DEF Starting
    <3>2. Sound(s)'
      BY <1>1, <1>2, <3>1 DEF Sound, StartProgress, Holding
    <3> QED
      BY <1>0, <1>3, <2>2, <3>1, <3>2 DEF Moved
  <2>3. CASE Ends(s, "error", NoRun) /\ UNCHANGED child
    <3>1. /\ OnlyStart(s) /\ start'[s].pc = "done" /\ start'[s].doing = "run"
          /\ start'[s].outcome = "error"
      BY <1>0, <2>3, EndsFacts
    <3>2. Sound(s)'
      BY <1>1, <2>1, <2>3, <3>1 DEF Sound, StartProgress, Holding, Live
    <3> QED
      BY <1>0, <1>3, <2>3, <3>1, <3>2 DEF Moved
  <2> QED
    BY <1>4, <2>2, <2>3 DEF Spawn
<1>5. CASE AssertEpoch(s)
  <2>1. CASE UNCHANGED child /\ start[s].doing = "input" /\ Onward(s, "running")
    <3>1. /\ OnlyStart(s) /\ start'[s].pc = "assert" /\ start'[s].doing = "running"
          /\ start'[s].outcome = "none"
      BY <1>0, <1>2, <2>1, OnwardFacts DEF Stage
    <3>2. Sound(s)'
      BY <1>0, <1>1, <1>2, <2>1, <3>1
      DEF Sound, StartProgress, Holding, Live, Quiet, Mine
    <3> QED
      BY <1>0, <1>3, <2>1, <3>1, <3>2 DEF Moved
  <2>2. CASE UNCHANGED child /\ Go(s, "write")
    <3>1. /\ OnlyStart(s) /\ start'[s].pc = "write" /\ start'[s].doing = start[s].doing
          /\ start'[s].outcome = "none"
      BY <1>0, <1>2, <2>2, GoFacts DEF Starting
    <3>2. Sound(s)'
      BY <1>0, <1>1, <1>2, <1>5, <2>2, <3>1
      DEF AssertEpoch, Sound, StartProgress, Holding, Live, Quiet, Mine
    <3> QED
      BY <1>0, <1>3, <2>2, <3>1, <3>2 DEF Moved
  <2>3. CASE Fail(s)
    <3>1. /\ OnlyStart(s) /\ start'[s].pc = "done" /\ start'[s].doing = "run"
          /\ start'[s].outcome = "error"
      BY <1>0, <2>3, EndsFacts DEF Fail
    <3>2. /\ child' \in [Starter -> {"none", "live", "dead"}]
          /\ \A t \in Starter \ {s} : child'[t] = child[t]
          /\ start[s].doing # "paused" => child'[s] = "dead"
      BY <1>0, <2>3 DEF Fail
    <3>3. faults = {} /\ start[s].doing = "paused" => runFile[Mine(s)] = s
      BY <1>0 DEF Sound
    <3>4. Sound(s)'
      BY <1>1, <1>2, <3>1, <3>2, <3>3 DEF Sound, StartProgress, Holding, Live, Quiet
    <3> QED
      BY <1>3, <3>1, <3>2, <3>4 DEF Moved
  <2> QED
    BY <1>5, <2>1, <2>2, <2>3 DEF AssertEpoch
<1>6. CASE Ready(s)
  <2>1. start[s].pc = "ready" /\ start[s].doing = "running" /\ UNCHANGED child
    BY <1>0, <1>6 DEF Ready, Sound, StartProgress
  <2>2. /\ faults = {} => runFile[Mine(s)] = s
        /\ \E t \in journal[Mine(s)] : t.by = s /\ t.to = "running"
    BY <1>0, <2>1 DEF Sound
  <2>3. CASE Ends(s, "acked", s)
    <3>1. /\ OnlyStart(s) /\ start'[s].pc = "done" /\ start'[s].doing = "run"
          /\ start'[s].outcome = "acked"
      BY <1>0, <2>3, EndsFacts
    <3>2. Sound(s)'
      BY <1>1, <1>2, <2>2, <3>1 DEF Sound, StartProgress, Holding, Quiet, Mine
    <3> QED
      BY <1>0, <1>3, <2>1, <3>1, <3>2 DEF Moved
  <2>4. CASE Onward(s, "paused")
    <3>1. /\ OnlyStart(s) /\ start'[s].pc = "assert" /\ start'[s].doing = "paused"
          /\ start'[s].outcome = "none"
      BY <1>0, <1>2, <2>4, OnwardFacts DEF Stage
    <3>2. Sound(s)'
      BY <1>1, <1>2, <2>2, <3>1 DEF Sound, StartProgress, Holding, Quiet, Mine
    <3> QED
      BY <1>0, <1>3, <2>1, <3>1, <3>2 DEF Moved
  <2> QED
    BY <1>6, <2>3, <2>4 DEF Ready
<1> QED
  BY <1>4, <1>5, <1>6

\* The run record goes under the epoch its writer alone holds, unless an epoch
\* file was corrupt.
LEMMA WriteRunStep ==
  ASSUME BackgroundTypeOK, BackgroundInv, NEW s \in Starter, WriteRun(s)
  PROVE  Moved(s)
<1> USE BackgroundAssumption, OwnershipAssumption
<1>0. /\ Records /\ Sound(s) /\ start \in [Starter -> StartState]
      /\ runFile \in [Epoch -> Starter \cup {NoRun}]
  BY InvIsSound DEF BackgroundTypeOK, OwnershipTypeOK
<1>1. /\ start[s].pc = "write" /\ start[s].doing = "run"
      /\ runFile' = [runFile EXCEPT ![Mine(s)] = s]
      /\ UNCHANGED <<epochFile, faults, acq, journal, child>>
  BY DEF WriteRun, ownershipVars
<1>2. acq[s].pc = "won" /\ start[s].outcome = "none" /\ Mine(s) \in Epoch
  BY <1>0, <1>1 DEF Sound, StartProgress, Holding, BackgroundInv, OwnershipInv, Mine
<1>3. faults = {} => epochFile[Mine(s)] = s
  BY <1>2 DEF BackgroundInv, OwnershipInv, Mine
<1>4. /\ runFile'[Mine(s)] = s /\ \A e \in Epoch \ {Mine(s)} : runFile'[e] = runFile[e]
      /\ runFile' \in [Epoch -> Starter \cup {NoRun}]
  BY <1>0, <1>1, <1>2
<1>5. Keeps
  BY <1>0, <1>1, <1>3, <1>4 DEF Keeps, Records
<1>6. Records'
  BY <1>0, <1>1, <1>3, <1>4 DEF Records
<1>7. /\ OnlyStart(s) /\ start'[s].pc = "assert" /\ start'[s].doing = "input"
      /\ start'[s].outcome = "none"
  BY <1>0, <1>2, OnwardFacts DEF WriteRun, Stage
<1>8. Sound(s)'
  BY <1>1, <1>2, <1>4, <1>7 DEF Sound, StartProgress, Holding, Mine
<1> QED
  BY <1>1, <1>4, <1>5, <1>6, <1>7, <1>8 DEF Moved, BackgroundTypeOK

\* The journal grows by one transition at a free slot.
LEMMA JournalSteps ==
  ASSUME BackgroundTypeOK, BackgroundInv, NEW s \in Starter, CountSlots(s) \/ LinkSlot(s)
  PROVE  Moved(s)
<1> USE BackgroundAssumption, OwnershipAssumption
<1>0. /\ Records /\ Sound(s) /\ start \in [Starter -> StartState]
      /\ start[s] \in StartState /\ journal \in [Epoch -> SUBSET Transition]
      /\ child \in [Starter -> {"none", "live", "dead"}]
  BY InvIsSound DEF BackgroundTypeOK
<1>1. /\ UNCHANGED <<epochFile, faults, acq, runFile>>
      /\ start[s].pc \in {"write", "slot"} /\ start[s].doing \in {"running", "paused"}
  BY <1>0 DEF CountSlots, LinkSlot, ownershipVars, Sound, StartProgress
<1>2. /\ acq[s].pc = "won" /\ start[s].outcome = "none" /\ Mine(s) \in Epoch
      /\ faults = {} => runFile[Mine(s)] = s
  BY <1>0, <1>1 DEF Sound, StartProgress, Holding, BackgroundInv, OwnershipInv, Mine
<1>3. \A t \in Starter \ {s} : acq'[t] = acq[t]
  BY <1>1
<1>4. ASSUME Quiet, UNCHANGED child, OnlyStart(s), start'[s].pc = "slot",
             start'[s].doing = start[s].doing, start'[s].outcome = start[s].outcome
      PROVE  Moved(s)
  <2>1. Sound(s)'
    BY <1>0, <1>1, <1>2, <1>4 DEF Sound, StartProgress, Holding, Live, Quiet, Mine
  <2> QED
    BY <1>0, <1>3, <1>4, <2>1, QuietFacts DEF Moved
<1>5. CASE CountSlots(s)
  <2> DEFINE others == {t \in Starter \ {s} : start[t].pc = "slot" /\ Mine(t) = Mine(s)}
  <2>1. PICK temps \in 0..Cardinality(others) :
          Probe(s, Cardinality(journal[Mine(s)]) + temps, 0)
    BY <1>5 DEF CountSlots
  <2>2. Cardinality(others) \in Nat
    BY FS_Subset, FS_CardinalityType
  <2>3. Cardinality(journal[Mine(s)]) \in Nat
    BY <1>0, <1>2, FS_CardinalityType DEF Records
  <2>4. Cardinality(journal[Mine(s)]) + temps \in Nat /\ 0 \in 0..MaxAttempts
    BY <2>2, <2>3
  <2>5. Quiet /\ UNCHANGED child
    BY <1>5 DEF CountSlots, Quiet, ownershipVars
  <2> QED
    BY <1>0, <1>4, <2>1, <2>4, <2>5, ProbeFacts
<1>6. CASE LinkSlot(s)
  <2>1. CASE /\ journal' = [journal EXCEPT ![Mine(s)] = @ \cup {AtSlot(s)}]
             /\ Logged(s)
             /\ UNCHANGED child
    <3>1. AtSlot(s) \in Transition
      BY <1>0, <1>1 DEF AtSlot, Transition, StartState
    <3>2. /\ journal' \in [Epoch -> SUBSET Transition]
          /\ journal'[Mine(s)] = journal[Mine(s)] \cup {AtSlot(s)}
          /\ \A e \in Epoch \ {Mine(s)} : journal'[e] = journal[e]
      BY <1>0, <1>2, <2>1, <3>1
    <3>3. Keeps
      BY <1>1, <3>2 DEF Keeps
    <3>4. IsFiniteSet(journal[Mine(s)] \cup {AtSlot(s)})
      BY <1>0, <1>2, FS_AddElement DEF Records
    <3>5. Records'
      BY <1>0, <1>1, <3>2, <3>4 DEF Records
    <3>6. CASE start[s].doing = "running"
      <4>1. /\ OnlyStart(s) /\ start'[s].pc = "ready" /\ start'[s].doing = "running"
            /\ start'[s].outcome = "none"
        BY <1>0, <1>2, <2>1, <3>6, GoFacts DEF Logged, Starting
      <4>2. AtSlot(s).by = s /\ AtSlot(s).to = "running" /\ AtSlot(s) \in journal'[Mine(s)]
        BY <3>2, <3>6 DEF AtSlot
      <4>3. Sound(s)'
        BY <1>1, <1>2, <4>1, <4>2 DEF Sound, StartProgress, Holding, Mine
      <4> QED
        BY <1>0, <1>1, <1>3, <2>1, <3>2, <3>3, <3>5, <4>1, <4>3
        DEF Moved, BackgroundTypeOK
    <3>7. CASE start[s].doing = "paused"
      <4>1. /\ OnlyStart(s) /\ start'[s].pc = "done" /\ start'[s].doing = "run"
            /\ start'[s].outcome = "error"
        BY <1>0, <2>1, <3>7, EndsFacts DEF Logged
      <4>2. Sound(s)'
        BY <1>1, <1>2, <4>1 DEF Sound, StartProgress, Holding
      <4> QED
        BY <1>0, <1>1, <1>3, <2>1, <3>2, <3>3, <3>5, <4>1, <4>2
        DEF Moved, BackgroundTypeOK
    <3> QED
      BY <1>1, <3>6, <3>7
  <2>2. CASE /\ start[s].tries < MaxAttempts
             /\ Probe(s, start[s].seq + 1, start[s].tries + 1)
             /\ UNCHANGED <<journal, child>>
    <3>1. start[s].seq \in Nat /\ start[s].tries \in 0..MaxAttempts
      BY <1>0 DEF StartState
    <3>2. start[s].seq + 1 \in Nat /\ start[s].tries + 1 \in 0..MaxAttempts
      BY <2>2, <3>1
    <3>3. Quiet
      BY <1>1, <2>2 DEF Quiet
    <3> QED
      BY <1>0, <1>4, <2>2, <3>2, <3>3, ProbeFacts
  <2>3. CASE Fail(s) /\ UNCHANGED journal
    <3>1. /\ OnlyStart(s) /\ start'[s].pc = "done" /\ start'[s].doing = "run"
          /\ start'[s].outcome = "error"
      BY <1>0, <2>3, EndsFacts DEF Fail
    <3>2. /\ child' \in [Starter -> {"none", "live", "dead"}]
          /\ \A t \in Starter \ {s} : child'[t] = child[t]
      BY <1>0, <2>3 DEF Fail
    <3>3. Quiet
      BY <1>1, <2>3 DEF Quiet
    <3>4. Sound(s)'
      BY <1>1, <1>2, <3>1, <3>2 DEF Sound, StartProgress, Holding
    <3> QED
      BY <1>0, <1>3, <3>1, <3>2, <3>3, <3>4, QuietFacts DEF Moved
  <2> QED
    BY <1>6, <2>1, <2>2, <2>3 DEF LinkSlot
<1> QED
  BY <1>5, <1>6

\* A controller that ends and a start that is killed leave every record.
LEMMA DeathSteps ==
  ASSUME BackgroundTypeOK, BackgroundInv, NEW s \in Starter, ChildDies(s) \/ Kill(s)
  PROVE  Moved(s)
<1> USE BackgroundAssumption, OwnershipAssumption
<1>0. /\ Records /\ Sound(s) /\ start \in [Starter -> StartState]
      /\ child \in [Starter -> {"none", "live", "dead"}]
  BY InvIsSound DEF BackgroundTypeOK
<1>1. Quiet
  BY DEF ChildDies, Kill, Quiet, ownershipVars
<1>2. CASE ChildDies(s)
  <2>1. /\ UNCHANGED <<start, acq>> /\ child'[s] = "dead" /\ child[s] = "live"
        /\ child' \in [Starter -> {"none", "live", "dead"}]
        /\ \A t \in Starter \ {s} : child'[t] = child[t]
    BY <1>0, <1>2 DEF ChildDies, Live, ownershipVars
  <2>2. Sound(s)'
    BY <1>0, <1>1, <2>1 DEF Sound, StartProgress, Live, Quiet, Mine
  <2> QED
    BY <1>0, <1>1, <2>1, <2>2, QuietFacts DEF Moved, OnlyStart
<1>3. CASE Kill(s)
  <2>1. UNCHANGED child /\ \A t \in Starter \ {s} : acq'[t] = acq[t]
    BY <1>3, CallIsLocal DEF Kill
  <2>2. /\ OnlyStart(s) /\ start'[s].pc = "done" /\ start'[s].doing = "run"
        /\ start'[s].outcome = "killed"
    BY <1>0, <1>3, EndsFacts DEF Kill
  <2>3. Sound(s)'
    BY <2>2 DEF Sound, StartProgress, Holding
  <2> QED
    BY <1>0, <1>1, <2>1, <2>2, <2>3, QuietFacts DEF Moved
<1> QED
  BY <1>2, <1>3

\* An epoch claimed, or a corrupt file met, beside a run record that is already
\* written leaves that record's epoch file alone while no file was corrupt.
LEMMA ClaimKeepsRecords ==
  ASSUME BackgroundTypeOK, BackgroundInv,
         \/ \E s \in Starter : AcquireStep(s)
         \/ OtherClaims
         \/ OrphanedClaim,
         UNCHANGED startVars
  PROVE  Keeps /\ Records'
<1> USE BackgroundAssumption, OwnershipAssumption
<1>1. UNCHANGED <<runFile, journal>> /\ (faults' = {} => faults = {})
  BY DEF startVars, AcquireStep, ReadCurrent, GiveUp, LinkEpoch, Reparse, UnlinkCorrupt,
         OtherClaims, OrphanedClaim
<1>2. ASSUME faults' = {}, NEW e \in Epoch, epochFile[e] \in Proc
      PROVE  epochFile'[e] = epochFile[e]
  <2>1. CASE \E s \in Starter : AcquireStep(s)
    <3>1. PICK s \in Starter : AcquireStep(s)
      BY <2>1
    <3>2. ~UnlinkCorrupt(s)
      BY <1>1, <1>2 DEF UnlinkCorrupt, BackgroundInv, OwnershipInv
    <3> QED
      BY <1>2, <3>1, <3>2
      DEF AcquireStep, ReadCurrent, GiveUp, LinkEpoch, Reparse, BackgroundTypeOK,
          OwnershipTypeOK
  <2>2. CASE OtherClaims
    BY <1>2, <2>2 DEF OtherClaims, BackgroundTypeOK, OwnershipTypeOK
  <2>3. CASE OrphanedClaim
    BY <1>2, <2>3 DEF OrphanedClaim
  <2> QED
    BY <2>1, <2>2, <2>3
<1>3. \A e \in Epoch : runFile[e] # NoRun => runFile[e] \in Proc
  BY DEF BackgroundTypeOK
<1>4. Records
  BY InvIsSound
<1> QED
  BY <1>1, <1>2, <1>3, <1>4 DEF Keeps, Records

\* Every step of a start, of its controller and of the processes beside it keeps
\* the types and the inductive invariant.
LEMMA BackgroundStep ==
  BackgroundTypeOK /\ BackgroundInv /\ [Next]_vars => BackgroundTypeOK' /\ BackgroundInv'
<1> SUFFICES ASSUME BackgroundTypeOK, BackgroundInv, [Next]_vars
             PROVE  BackgroundTypeOK' /\ BackgroundInv'
  OBVIOUS
<1> USE BackgroundAssumption, OwnershipAssumption
<1> DEFINE Inside == /\ start' \in [Starter -> StartState]
                     /\ runFile' \in [Epoch -> Starter \cup {NoRun}]
                     /\ journal' \in [Epoch -> SUBSET Transition]
                     /\ child' \in [Starter -> {"none", "live", "dead"}]
                     /\ Records'
                     /\ \A s \in Starter : Sound(s)'
<1>1. /\ OwnershipTypeOK' /\ OwnershipInv'
      /\ \A p \in Proc \ Starter : acq'[p] = NotAcquiring
  BY OwnershipPart DEF BackgroundTypeOK, BackgroundInv
<1>2. /\ OwnershipInv /\ Records /\ \A s \in Starter : Sound(s)
  BY InvIsSound
<1>3. ASSUME NEW s \in Starter, Moved(s)
      PROVE  Inside
  <2>1. ASSUME NEW t \in Starter \ {s}
        PROVE  Sound(t)'
    BY <1>2, <1>3, Frame DEF Moved, OnlyStart
  <2> QED
    BY <1>3, <2>1 DEF Moved, OnlyStart
<1>4. ASSUME NEW s \in Starter, AcquireStep(s), UNCHANGED startVars
      PROVE  Inside
  <2>1. Keeps /\ Records'
    BY <1>4, ClaimKeepsRecords
  <2>2. /\ \A t \in Starter \ {s} : acq'[t] = acq[t]
        /\ acq[s].pc # "won" /\ UNCHANGED <<start, child, runFile, journal>>
    BY <1>4 DEF AcquireStep, ReadCurrent, GiveUp, LinkEpoch, Reparse, UnlinkCorrupt,
                startVars, BackgroundTypeOK, OwnershipTypeOK
  <2>3. \A t \in Starter : Sound(t)'
    BY <1>2, <2>1, <2>2, Frame
  <2> QED
    BY <2>1, <2>2, <2>3 DEF BackgroundTypeOK
<1>5. ASSUME OtherClaims \/ (OrphanedClaim /\ UNCHANGED startVars)
      PROVE  Inside
  <2>1. UNCHANGED <<acq, start, child, runFile, journal>> /\ UNCHANGED startVars
    BY <1>5 DEF OtherClaims, OrphanedClaim, startVars
  <2>2. Keeps /\ Records'
    BY <1>5, <2>1, ClaimKeepsRecords
  <2>3. \A t \in Starter : Sound(t)'
    BY <1>2, <2>1, <2>2, Frame
  <2> QED
    BY <2>1, <2>2, <2>3 DEF BackgroundTypeOK
<1>6. ASSUME UNCHANGED vars
      PROVE  Inside
  <2>1. UNCHANGED <<acq, start, child>> /\ Quiet
    BY <1>6 DEF vars, ownershipVars, startVars, Quiet
  <2>2. Keeps /\ Records'
    BY <1>2, <2>1, QuietFacts
  <2>3. \A t \in Starter : Sound(t)'
    BY <1>2, <2>1, <2>2, Frame
  <2> QED
    BY <2>1, <2>2, <2>3 DEF BackgroundTypeOK, Quiet
<1>7. Inside
  <2>1. ASSUME NEW s \in Starter,
               Look(s) \/ Peek(s) \/ Fence(s) \/ Refenced(s) \/ Claimed(s)
        PROVE  Inside
    BY <1>3, <2>1, EarlySteps
  <2>2. ASSUME NEW s \in Starter, Spawn(s) \/ AssertEpoch(s) \/ Ready(s)
        PROVE  Inside
    BY <1>3, <2>2, SpawnSteps
  <2>3. ASSUME NEW s \in Starter, WriteRun(s)
        PROVE  Inside
    BY <1>3, <2>3, WriteRunStep
  <2>4. ASSUME NEW s \in Starter, CountSlots(s) \/ LinkSlot(s)
        PROVE  Inside
    BY <1>3, <2>4, JournalSteps
  <2>5. ASSUME NEW s \in Starter, ChildDies(s) \/ Kill(s)
        PROVE  Inside
    BY <1>3, <2>5, DeathSteps
  <2> HIDE DEF Inside
  <2> QED
    BY <1>4, <1>5, <1>6, <2>1, <2>2, <2>3, <2>4, <2>5 DEF Next, StartStep
<1>8. BackgroundTypeOK'
  BY <1>1, <1>7 DEF BackgroundTypeOK
<1>9. (/\ OwnershipInv
       /\ \A p \in Proc \ Starter : acq[p] = NotAcquiring
       /\ Records
       /\ \A s \in Starter : Sound(s))'
  BY <1>1, <1>7
<1> QED
  BY <1>8, <1>9, InvIsSound DEF BackgroundInv, Sound, Records, HandleIsDurable,
     NoUnrecordedController, TransitionKept

-----------------------------------------------------------------------------
\* The epochs, the starts and the records they write stay well typed and agree
\* with each other, whatever the starts, the other claimants and the corrupt
\* files do.
THEOREM BackgroundInvariant == Spec => [](BackgroundTypeOK /\ BackgroundInv)
<1>1. Init => BackgroundTypeOK /\ BackgroundInv
  <2> SUFFICES ASSUME Init PROVE BackgroundTypeOK /\ BackgroundInv
    OBVIOUS
  <2> USE BackgroundAssumption, OwnershipAssumption
  <2>1. OwnershipTypeOK /\ OwnershipInv
    BY DEF Init, OwnershipInit, OwnershipTypeOK, OwnershipInv, EpochsContiguous,
           ValidEpochs, NotAcquiring, AcquireState, Running, Epoch
  <2>2. NotStarted \in StartState
    BY DEF NotStarted, StartState, Stage
  <2>3. BackgroundTypeOK
    BY <2>1, <2>2 DEF Init, BackgroundTypeOK
  <2>4. Records
    BY FS_EmptySet DEF Init, Records
  <2>5. \A s \in Starter : Sound(s)
    BY DEF Init, Sound, StartProgress, NotStarted, Holding, Live
  <2>6. \A p \in Proc \ Starter : acq[p] = NotAcquiring
    BY DEF Init, OwnershipInit
  <2> QED
    BY <2>1, <2>3, <2>4, <2>5, <2>6, InvIsSound
<1> QED
  BY <1>1, BackgroundStep, PTL DEF Spec

\* The handle a background start returns stays good: no later start, claim or kill
\* replaces the run record behind it while no epoch file is corrupt.
THEOREM HandleIsDurableHolds == Spec => []HandleIsDurable
<1>1. BackgroundInv => HandleIsDurable
  BY DEF BackgroundInv
<1> QED
  BY <1>1, BackgroundInvariant, PTL

\* A start that fails between its spawn and its run record ends the controller it
\* spawned: only a killed start leaves one running that nothing records.
THEOREM NoUnrecordedControllerHolds == Spec => []NoUnrecordedController
<1>1. BackgroundInv => NoUnrecordedController
  BY DEF BackgroundInv
<1> QED
  BY <1>1, BackgroundInvariant, PTL

\* appendTransition never overwrites: the running transition of an acknowledged
\* start stays in the journal, even when corrupt files let two starts hold one epoch.
THEOREM TransitionKeptHolds == Spec => []TransitionKept
<1>1. BackgroundInv => TransitionKept
  BY DEF BackgroundInv
<1> QED
  BY <1>1, BackgroundInvariant, PTL
=============================================================================
