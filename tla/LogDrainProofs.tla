--------------------------- MODULE LogDrainProofs ---------------------------
(***************************************************************************)
(* Proofs about DrainLock and LogDrain, for any number of processes,       *)
(* lines, crashes and failed POSTs and any sizes of files and chunks,      *)
(* while no live holder's lock lapses and no more than two processes       *)
(* contend for the lock at a time.                                         *)
(*                                                                         *)
(* What the server's store does with a body is proved in LogFeedProofs.    *)
(***************************************************************************)
EXTENDS LogDrain, LogFeedProofs

-----------------------------------------------------------------------------
(***************************************************************************)
(* Counting.                                                               *)
(***************************************************************************)
\* A function has no more values than arguments.
LEMMA ImageSize ==
  ASSUME NEW S, IsFiniteSet(S), NEW f, DOMAIN f = S
  PROVE  /\ IsFiniteSet({f[x] : x \in S})
         /\ Cardinality({f[x] : x \in S}) <= Cardinality(S)
<1> DEFINE T == {f[x] : x \in S}
           g == [x \in S |-> f[x]]
<1>1. g \in Surjection(S, T)
  BY DEF Surjection
<1> HIDE DEF g, T
<1>2. IsFiniteSet(T) /\ Cardinality(T) <= Cardinality(S)
  BY <1>1, FS_Surjection
<1> QED
  BY <1>2 DEF T

\* A set that is larger than another has an element outside it.
LEMMA ElementOutside ==
  ASSUME NEW S, IsFiniteSet(S), NEW T, IsFiniteSet(T), Cardinality(T) < Cardinality(S)
  PROVE  \E x \in S : x \notin T
<1> SUFFICES ASSUME S \subseteq T PROVE FALSE
  OBVIOUS
<1>1. Cardinality(S) <= Cardinality(T)
  BY FS_Subset
<1>2. Cardinality(S) \in Nat /\ Cardinality(T) \in Nat
  BY FS_CardinalityType
<1> QED
  BY <1>1, <1>2

\* A union is no larger than its parts together.
LEMMA UnionSize ==
  ASSUME NEW S, IsFiniteSet(S), NEW T, IsFiniteSet(T)
  PROVE  /\ IsFiniteSet(S \cup T)
         /\ Cardinality(S \cup T) <= Cardinality(S) + Cardinality(T)
<1>1. IsFiniteSet(S \cap T)
  BY FS_Subset
<1>2. /\ Cardinality(S) \in Nat /\ Cardinality(T) \in Nat /\ Cardinality(S \cap T) \in Nat
  BY <1>1, FS_CardinalityType
<1>3. /\ IsFiniteSet(S \cup T)
      /\ Cardinality(S \cup T) = Cardinality(S) + Cardinality(T) - Cardinality(S \cap T)
  BY FS_Union
<1> QED
  BY <1>2, <1>3

-----------------------------------------------------------------------------
(***************************************************************************)
(* The lock.                                                               *)
(***************************************************************************)
OwnerPlace == {"held", "renew", "touch", "kept", "release", "unlink", "lost"}

\* There is a stamp that no file carries and no caller remembers.
LEMMA FreshStampIsFree ==
  ASSUME DrainLockTypeOK
  PROVE  FreshStamp \in Stamp /\ FreshStamp \notin StampsInUse
<1> DEFINE D == {q \in Proc : lk[q].claimed # NoLock}
           one == {lockFile.stamp : x \in {lockFile} \ {NoLock}}
           f == [p \in Proc |-> lk[p].seen]
           g == [p \in D |-> lk[p].claimed.stamp]
           F == {f[p] : p \in Proc}
           G == {g[p] : p \in D}
           P == Cardinality(Proc)
<1>1. IsFiniteSet(Proc) /\ P \in Nat
  BY DrainLockAssumption, FS_CardinalityType
<1>2. IsFiniteSet(one) /\ Cardinality(one) <= 1
  <2>1. one \subseteq {lockFile.stamp}
    OBVIOUS
  <2>2. IsFiniteSet({lockFile.stamp}) /\ Cardinality({lockFile.stamp}) = 1
    BY FS_Singleton
  <2> HIDE DEF one
  <2> QED
    BY <2>1, <2>2, FS_Subset
<1>3. IsFiniteSet(F) /\ Cardinality(F) <= P
  <2>1. DOMAIN f = Proc
    OBVIOUS
  <2> HIDE DEF f
  <2> QED
    BY <1>1, <2>1, ImageSize
<1>4. IsFiniteSet(D) /\ Cardinality(D) <= P
  BY <1>1, FS_Subset
<1>5. IsFiniteSet(G) /\ Cardinality(G) <= Cardinality(D)
  <2>1. DOMAIN g = D
    OBVIOUS
  <2> HIDE DEF g, D
  <2> QED
    BY <1>4, <2>1, ImageSize
<1>6. StampsInUse = (one \cup F) \cup G
  BY DEF StampsInUse
<1> HIDE DEF D, one, f, g, F, G, P
<1>7. /\ Cardinality(one) \in Nat /\ Cardinality(F) \in Nat /\ Cardinality(G) \in Nat
      /\ Cardinality(D) \in Nat
  BY <1>2, <1>3, <1>4, <1>5, FS_CardinalityType
<1>8. IsFiniteSet(one \cup F) /\ Cardinality(one \cup F) <= 1 + P
  <2>1. IsFiniteSet(one \cup F) /\ Cardinality(one \cup F) <= Cardinality(one) + Cardinality(F)
    BY <1>2, <1>3, UnionSize
  <2>2. Cardinality(one \cup F) \in Nat
    BY <2>1, FS_CardinalityType
  <2> QED
    BY <1>1, <1>2, <1>3, <1>7, <2>1, <2>2
<1>9. IsFiniteSet(StampsInUse) /\ Cardinality(StampsInUse) <= 1 + 2 * P
  <2>1. /\ IsFiniteSet(StampsInUse)
        /\ Cardinality(StampsInUse) <= Cardinality(one \cup F) + Cardinality(G)
    BY <1>5, <1>6, <1>8, UnionSize
  <2>2. Cardinality(StampsInUse) \in Nat /\ Cardinality(one \cup F) \in Nat
    BY <1>8, <2>1, FS_CardinalityType
  <2> QED
    BY <1>1, <1>4, <1>5, <1>7, <1>8, <2>1, <2>2
<1>10. IsFiniteSet(Stamp) /\ Cardinality(Stamp) = 3 * P + 2
  <2>1. 1 \in Int /\ 3 * P + 2 \in Int /\ ~(1 > 3 * P + 2)
    BY <1>1
  <2>2. Stamp = 1..(3 * P + 2)
    BY DEF Stamp, P
  <2>3. /\ IsFiniteSet(1..(3 * P + 2))
        /\ Cardinality(1..(3 * P + 2)) = (3 * P + 2) - 1 + 1
    BY <2>1, FS_Interval
  <2> QED
    BY <1>1, <2>2, <2>3
<1>11. \E s \in Stamp : s \notin StampsInUse
  <2>1. Cardinality(StampsInUse) \in Nat
    BY <1>9, FS_CardinalityType
  <2>2. Cardinality(StampsInUse) < Cardinality(Stamp)
    BY <1>1, <1>9, <1>10, <2>1
  <2> QED
    BY <1>9, <1>10, <2>2, ElementOutside
<1> QED
  BY <1>11 DEF FreshStamp

\* Only p has moved.
Moves(p) ==
  /\ lk' \in [Proc -> LockState]
  /\ \A q \in Proc \ {p} : lk'[q] = lk[q]

\* Giving p another record moves only p.
LEMMA PutMoves ==
  ASSUME DrainLockTypeOK, NEW p \in Proc, NEW r \in LockState, lk' = [lk EXCEPT ![p] = r]
  PROVE  Moves(p) /\ lk'[p] = r
BY DEF DrainLockTypeOK, Moves

\* So does giving p another place.
LEMMA PcMoves ==
  ASSUME DrainLockTypeOK, NEW p \in Proc,
         NEW x \in Acquiring \cup {"idle"} \cup OwnerPlace,
         lk' = [lk EXCEPT ![p].pc = x]
  PROVE  /\ Moves(p) /\ lk'[p].pc = x
         /\ lk'[p].seen = lk[p].seen /\ lk'[p].claimed = lk[p].claimed
<1> DEFINE r == [lk[p] EXCEPT !.pc = x]
<1>1. lk[p] \in LockState
  BY DEF DrainLockTypeOK
<1>2. r \in LockState /\ r.pc = x /\ r.seen = lk[p].seen /\ r.claimed = lk[p].claimed
  BY <1>1 DEF LockState, OwnerPlace
<1>3. lk' = [lk EXCEPT ![p] = r]
  BY <1>1
<1> HIDE DEF r
<1> QED
  BY <1>2, <1>3, PutMoves

\* A caller without a file of its own anywhere.
LEMMA BlankRecord ==
  ASSUME NEW x \in Acquiring \cup {"idle"} \cup OwnerPlace
  PROVE  LET r == [NotLocking EXCEPT !.pc = x]
         IN r \in LockState /\ r.pc = x /\ r.seen = 0 /\ r.claimed = NoLock
BY DEF NotLocking, LockState, OwnerPlace

\* NotLocking is the blank record of an idle caller.
LEMMA NotLockingIs ==
  /\ NotLocking \in LockState /\ NotLocking.pc = "idle" /\ NotLocking.seen = 0
  /\ NotLocking.claimed = NoLock
BY DEF NotLocking, LockState

\* Who owns, by place.
LEMMA OwnsIs ==
  ASSUME NEW p \in Proc
  PROVE  Owns(p) <=> lk[p].pc \in OwnerPlace
BY DEF Owns, Holds, OwnerPlace

(***************************************************************************)
(* One lemma per way in which a step changes the lock.                     *)
(***************************************************************************)
\* The lock file stays, p neither begins nor ends to own it, and nothing that
\* matters is dropped.
LEMMA PassKeeps ==
  ASSUME DrainLockTypeOK, DrainLockInv, NEW p \in Proc, Moves(p), lockFile' = lockFile,
         lk[p].pc \in OwnerPlace <=> lk'[p].pc \in OwnerPlace,
         lk'[p].seen \in {0, lk[p].seen}, lk'[p].claimed = NoLock,
         lk[p].claimed = NoLock \/ lk[p].claimed.dead \/ lockFile # NoLock
  PROVE  DrainLockInv'
<1>1. \A q \in Proc : Owns(q)' <=> Owns(q)
  BY DEF Owns, Holds, OwnerPlace, Moves
<1>2. \A q \in Proc : /\ lk'[q].claimed \in {NoLock, lk[q].claimed}
                      /\ lk'[q].seen \in {0, lk[q].seen}
                      /\ lk'[q].claimed # NoLock => lk'[q].pc = lk[q].pc
  BY DEF Moves
<1>3. \A file \in LockRecord : file.stamp # 0
  BY DrainLockAssumption, FS_CardinalityType DEF LockRecord, Stamp
<1>4. ASSUME NEW file \in LockRecord \cup {NoLock}, FileInv(file)
      PROVE  file # NoLock =>
               /\ file.stale => file.dead
               /\ \A q \in Proc : lk'[q].seen = file.stamp => file.dead
               /\ \A q \in Proc : Live(file, q) => Owns(q)'
  BY <1>1, <1>2, <1>3, <1>4 DEF FileInv
<1>5. FileInv(lockFile)'
  BY <1>4 DEF FileInv, DrainLockInv, DrainLockTypeOK, Live
<1>6. \A q \in Proc : FileInv(lk[q].claimed)'
  <2> TAKE q \in Proc
  <2>1. CASE lk'[q].claimed = NoLock
    BY <2>1 DEF FileInv
  <2>2. CASE lk'[q].claimed # NoLock
    <3>1. lk'[q].claimed = lk[q].claimed /\ lk[q].claimed \in LockRecord \cup {NoLock}
      BY <1>2, <2>2 DEF DrainLockTypeOK, LockState
    <3> QED
      BY <1>4, <2>2, <3>1 DEF FileInv, DrainLockInv, Live
  <2> QED
    BY <2>1, <2>2
<1>7. (\A q \in Proc : lk[q].claimed # NoLock => lk[q].pc = "compare")'
  BY <1>2 DEF DrainLockInv
<1>8. StampsDiffer'
  BY <1>2 DEF DrainLockInv, StampsDiffer
<1>9. OwnersFile'
  <2> SUFFICES ASSUME NEW q \in Proc, Owns(q)
               PROVE  Live(lockFile, q)
                      \/ (lockFile = NoLock /\ \E c \in Proc : Live(lk'[c].claimed, q))
    BY <1>1 DEF OwnersFile, Mine, Live
  <2>1. Live(lockFile, q) \/ (lockFile = NoLock /\ \E c \in Proc : Live(lk[c].claimed, q))
    BY DEF DrainLockInv, OwnersFile, Mine
  <2>2. ASSUME lockFile = NoLock, NEW c \in Proc, Live(lk[c].claimed, q)
        PROVE  Live(lk'[c].claimed, q)
    <3>1. c # p
      BY <2>2 DEF Live
    <3> QED
      BY <2>2, <3>1 DEF Moves
  <2> QED
    BY <2>1, <2>2
<1> QED
  BY <1>5, <1>6, <1>7, <1>8, <1>9 DEF DrainLockInv

\* acquireDrainLock: p takes the file for stale, and remembers its stamp.
LEMMA JudgeKeeps ==
  ASSUME DrainLockTypeOK, DrainLockInv, NEW p \in Proc, Moves(p), lockFile' = lockFile,
         lockFile # NoLock, lockFile.stale, lk[p].claimed = NoLock,
         lk[p].pc \notin OwnerPlace, lk'[p].pc \notin OwnerPlace,
         lk'[p].seen = lockFile.stamp, lk'[p].claimed = NoLock
  PROVE  DrainLockInv'
<1>1. \A q \in Proc : Owns(q)' <=> Owns(q)
  BY DEF Owns, Holds, OwnerPlace, Moves
<1>2. \A q \in Proc : lk'[q].claimed = lk[q].claimed
  BY DEF Moves
<1>3. lockFile.dead
  BY DEF DrainLockInv, FileInv
<1>4. FileInv(lockFile)'
  BY <1>1, <1>3 DEF FileInv, DrainLockInv, Live
<1>5. \A q \in Proc : FileInv(lk[q].claimed)'
  <2> SUFFICES ASSUME NEW q \in Proc, lk'[q].claimed # NoLock PROVE FileInv(lk[q].claimed)'
    BY DEF FileInv
  <2>1. lk[q].claimed # NoLock /\ lk[q].claimed.stamp # lockFile.stamp /\ FileInv(lk[q].claimed)
    BY <1>2 DEF DrainLockInv, StampsDiffer
  <2>2. \A r \in Proc : lk'[r].seen = lk[q].claimed.stamp => lk[r].seen = lk[q].claimed.stamp
    BY <2>1 DEF Moves
  <2> QED
    BY <1>1, <1>2, <2>1, <2>2 DEF FileInv, Live
<1>6. (\A q \in Proc : lk[q].claimed # NoLock => lk[q].pc = "compare")'
  BY <1>2 DEF DrainLockInv, Moves
<1>7. StampsDiffer'
  BY <1>2 DEF DrainLockInv, StampsDiffer
<1>8. OwnersFile'
  BY <1>1, <1>2 DEF DrainLockInv, OwnersFile, Mine, Live
<1> QED
  BY <1>4, <1>5, <1>6, <1>7, <1>8 DEF DrainLockInv

\* tryCreateLock: with two contenders, the name is not free because a third has moved
\* the owner's file aside.
LEMMA CreateKeeps ==
  ASSUME DrainLockTypeOK, DrainLockInv, TwoContend, NEW p \in Proc, Moves(p),
         lockFile = NoLock, lk[p].pc \notin OwnerPlace \cup {"idle", "compare"},
         lockFile' = [token |-> p, stamp |-> FreshStamp, stale |-> FALSE, dead |-> FALSE],
         lk'[p].pc = "held", lk'[p].seen = 0, lk'[p].claimed = NoLock
  PROVE  DrainLockInv' /\ lockFile' \in LockRecord
<1> DEFINE new == [token |-> p, stamp |-> FreshStamp, stale |-> FALSE, dead |-> FALSE]
<1>1. /\ new \in LockRecord /\ new # NoLock /\ new.token = p /\ new.stamp = FreshStamp
      /\ ~new.stale /\ ~new.dead
  <2>1. FreshStamp \in Stamp
    BY FreshStampIsFree
  <2>2. new \in LockRecord /\ new.token = p /\ new.stamp = FreshStamp
    BY <2>1 DEF LockRecord
  <2>3. ~new.stale /\ ~new.dead
    OBVIOUS
  <2> HIDE DEF new
  <2>4. new # NoLock
    BY <2>2, DrainLockAssumption
  <2> QED
    BY <2>2, <2>3, <2>4
<1>2. lockFile' = new
  OBVIOUS
<1> HIDE DEF new
<1>3. /\ \A q \in Proc \ {p} : Owns(q)' <=> Owns(q)
      /\ Owns(p)' /\ ~Owns(p)
  BY DEF Owns, Holds, OwnerPlace, Moves
<1>4. \A q \in Proc : /\ lk'[q].claimed = lk[q].claimed
                      /\ lk'[q].seen \in {0, lk[q].seen}
                      /\ lk[q].claimed # NoLock => lk[q].claimed \in LockRecord /\ q # p
  BY DEF Moves, DrainLockInv, DrainLockTypeOK, LockState
<1>5. /\ FreshStamp # 0
      /\ \A q \in Proc : /\ lk[q].seen # FreshStamp
                         /\ lk[q].claimed # NoLock => lk[q].claimed.stamp # FreshStamp
  <2>1. FreshStamp \in Stamp /\ FreshStamp \notin StampsInUse
    BY FreshStampIsFree
  <2>2. FreshStamp # 0
    BY <2>1 DEF Stamp
  <2> QED
    BY <2>1, <2>2 DEF StampsInUse
<1>6. FileInv(lockFile)'
  BY <1>1, <1>2, <1>3, <1>4, <1>5 DEF FileInv, Live
<1>7. \A q \in Proc : FileInv(lk[q].claimed)'
  <2> SUFFICES ASSUME NEW q \in Proc, lk[q].claimed # NoLock PROVE FileInv(lk[q].claimed)'
    BY <1>4 DEF FileInv
  <2>1. FileInv(lk[q].claimed) /\ lk[q].claimed.stamp # 0
    <3>1. \A file \in LockRecord : file.stamp # 0
      BY DrainLockAssumption, FS_CardinalityType DEF LockRecord, Stamp
    <3> QED
      BY <1>4, <3>1 DEF DrainLockInv
  <2>2. \A r \in Proc : lk'[r].seen = lk[q].claimed.stamp => lk[r].seen = lk[q].claimed.stamp
    BY <1>4, <2>1
  <2>3. \A r \in Proc : Owns(r) => Owns(r)'
    BY <1>3
  <2> QED
    BY <1>4, <2>1, <2>2, <2>3 DEF FileInv, Live
<1>8. (\A q \in Proc : lk[q].claimed # NoLock => lk[q].pc = "compare")'
  BY <1>4 DEF DrainLockInv, Moves
<1>9. StampsDiffer'
  BY <1>1, <1>2, <1>4, <1>5 DEF DrainLockInv, StampsDiffer
<1>10. OwnersFile'
  <2> SUFFICES ASSUME NEW q \in Proc, q # p, Owns(q) PROVE FALSE
    BY <1>1, <1>2, <1>3 DEF OwnersFile, Mine, Live
  <2>1. PICK c \in Proc : Live(lk[c].claimed, q)
    BY DEF DrainLockInv, OwnersFile, Mine, Live
  <2>2. lk[c].pc = "compare"
    BY <2>1 DEF DrainLockInv, Live
  <2>3. p \in Contending /\ q \in Contending /\ c \in Contending /\ c # p /\ c # q
    BY <2>2, OwnsIs DEF Contending, OwnerPlace
  <2> QED
    BY <2>3 DEF TwoContend
<1> QED
  BY <1>1, <1>2, <1>6, <1>7, <1>8, <1>9, <1>10 DEF DrainLockInv

\* renameSync: the lock file becomes the one p has moved aside.
LEMMA ClaimKeeps ==
  ASSUME DrainLockTypeOK, DrainLockInv, NEW p \in Proc, Moves(p),
         lockFile # NoLock, lockFile' = NoLock, lk[p].pc \notin OwnerPlace \cup {"compare"},
         lk'[p].pc = "compare", lk'[p].seen = lk[p].seen, lk'[p].claimed = lockFile
  PROVE  DrainLockInv'
<1>1. \A q \in Proc : Owns(q)' <=> Owns(q)
  BY DEF Owns, Holds, OwnerPlace, Moves
<1>2. /\ \A q \in Proc \ {p} : lk'[q].claimed = lk[q].claimed
      /\ \A q \in Proc : lk'[q].seen = lk[q].seen
  BY DEF Moves
<1>3. FileInv(lockFile)' /\ FileInv(lk[p].claimed)'
  BY <1>1, <1>2 DEF FileInv, DrainLockInv, Live
<1>4. \A q \in Proc \ {p} : FileInv(lk[q].claimed)'
  BY <1>1, <1>2 DEF FileInv, DrainLockInv, Live
<1>5. (\A q \in Proc : lk[q].claimed # NoLock => lk[q].pc = "compare")'
  BY <1>2 DEF DrainLockInv, Moves
<1>6. StampsDiffer'
  BY <1>2 DEF DrainLockInv, StampsDiffer
<1>7. OwnersFile'
  BY <1>1, <1>2 DEF DrainLockInv, OwnersFile, Mine, Live
<1> QED
  BY <1>3, <1>4, <1>5, <1>6, <1>7 DEF DrainLockInv

\* linkSync: a file that is not the one judged stale is put back; with two contenders
\* there is no other one that has to be.
LEMMA PutBackKeeps ==
  ASSUME DrainLockTypeOK, DrainLockInv, TwoContend, NEW p \in Proc, Moves(p),
         lockFile = NoLock, lockFile' = lk[p].claimed,
         lk[p].pc = "compare", lk'[p].pc \notin OwnerPlace,
         lk'[p].seen = 0, lk'[p].claimed = NoLock
  PROVE  DrainLockInv'
<1>1. \A q \in Proc : Owns(q)' <=> Owns(q)
  BY DEF Owns, Holds, OwnerPlace, Moves
<1>2. /\ \A q \in Proc \ {p} : lk'[q].claimed = lk[q].claimed
      /\ \A q \in Proc : lk'[q].seen \in {0, lk[q].seen}
  BY DEF Moves
<1>3. \A file \in LockRecord : file.stamp # 0
  BY DrainLockAssumption, FS_CardinalityType DEF LockRecord, Stamp
<1>4. \A q \in Proc : lk[q].claimed \in LockRecord \cup {NoLock}
  BY DEF DrainLockTypeOK, LockState
<1>5. FileInv(lockFile)' /\ FileInv(lk[p].claimed)'
  BY <1>1, <1>2, <1>3, <1>4 DEF FileInv, DrainLockInv, Live
<1>6. \A q \in Proc \ {p} : FileInv(lk[q].claimed)'
  BY <1>1, <1>2, <1>3, <1>4 DEF FileInv, DrainLockInv, Live
<1>7. (\A q \in Proc : lk[q].claimed # NoLock => lk[q].pc = "compare")'
  BY <1>2 DEF DrainLockInv, Moves
<1>8. StampsDiffer'
  BY <1>2 DEF DrainLockInv, StampsDiffer
<1>9. OwnersFile'
  <2> SUFFICES ASSUME NEW q \in Proc, Owns(q) PROVE Mine(q)'
    BY <1>1 DEF OwnersFile
  <2>1. PICK c \in Proc : Live(lk[c].claimed, q)
    BY DEF DrainLockInv, OwnersFile, Mine, Live
  <2>2. lk[c].pc = "compare"
    BY <2>1 DEF DrainLockInv, Live
  <2>3. p \in Contending /\ q \in Contending /\ c \in Contending /\ q # p /\ q # c
    BY <2>2, OwnsIs DEF Contending, OwnerPlace
  <2>4. c = p
    BY <2>3 DEF TwoContend
  <2> QED
    BY <2>1, <2>4 DEF Mine, Live
<1> QED
  BY <1>5, <1>6, <1>7, <1>8, <1>9 DEF DrainLockInv

\* renewDrainLock: the file gets a new time, whatever it is.
LEMMA TouchKeeps ==
  ASSUME DrainLockTypeOK, DrainLockInv, NEW p \in Proc, Moves(p),
         lockFile # NoLock, lockFile' = [lockFile EXCEPT !.stamp = FreshStamp, !.stale = FALSE],
         lk[p].pc \in OwnerPlace, lk'[p].pc \in OwnerPlace,
         lk'[p].seen = lk[p].seen, lk'[p].claimed = lk[p].claimed
  PROVE  DrainLockInv' /\ lockFile' \in LockRecord
<1> DEFINE new == [lockFile EXCEPT !.stamp = FreshStamp, !.stale = FALSE]
<1>1. FreshStamp \in Stamp /\ FreshStamp \notin StampsInUse
  BY FreshStampIsFree
<1>2. /\ new \in LockRecord /\ new.token = lockFile.token /\ new.stamp = FreshStamp
      /\ ~new.stale /\ new.dead = lockFile.dead
  <2>1. lockFile \in LockRecord
    BY DEF DrainLockTypeOK
  <2> QED
    BY <1>1, <2>1 DEF LockRecord
<1>3. lockFile' = new
  OBVIOUS
<1> HIDE DEF new
<1>4. new # NoLock
  BY <1>2, DrainLockAssumption
<1>5. \A q \in Proc : Owns(q)' <=> Owns(q)
  BY DEF Owns, Holds, OwnerPlace, Moves
<1>6. \A q \in Proc : lk'[q].claimed = lk[q].claimed /\ lk'[q].seen = lk[q].seen
  BY DEF Moves
<1>7. \A q \in Proc : /\ lk[q].seen # FreshStamp
                      /\ lk[q].claimed # NoLock => lk[q].claimed.stamp # FreshStamp
  BY <1>1 DEF StampsInUse
<1>8. FileInv(lockFile)'
  BY <1>2, <1>3, <1>4, <1>5, <1>6, <1>7 DEF FileInv, DrainLockInv, Live
<1>9. \A q \in Proc : FileInv(lk[q].claimed)'
  BY <1>5, <1>6 DEF FileInv, DrainLockInv, Live
<1>10. (\A q \in Proc : lk[q].claimed # NoLock => lk[q].pc = "compare")'
  BY <1>6 DEF DrainLockInv, Moves, OwnerPlace
<1>11. StampsDiffer'
  BY <1>2, <1>3, <1>6, <1>7 DEF DrainLockInv, StampsDiffer
<1>12. OwnersFile'
  BY <1>2, <1>3, <1>4, <1>5, <1>6 DEF DrainLockInv, OwnersFile, Mine, Live
<1> QED
  BY <1>2, <1>3, <1>8, <1>9, <1>10, <1>11, <1>12 DEF DrainLockInv

\* Marking an acquisition as over changes nothing else about a file.
LEMMA OrphanedIs ==
  ASSUME NEW file \in LockRecord \cup {NoLock}, NEW p \in Proc
  PROVE  LET new == Orphaned(file, p)
         IN /\ new \in LockRecord \cup {NoLock} /\ (new = NoLock <=> file = NoLock)
            /\ file # NoLock =>
                 /\ new.token = file.token /\ new.stamp = file.stamp /\ new.stale = file.stale
                 /\ file.dead => new.dead
            /\ ~Live(new, p)
            /\ \A q \in Proc \ {p} : Live(new, q) <=> Live(file, q)
<1>1. CASE file # NoLock /\ file.token = p
  <2> DEFINE new == [file EXCEPT !.dead = TRUE]
  <2>1. /\ new \in LockRecord /\ new.token = file.token /\ new.stamp = file.stamp
        /\ new.stale = file.stale /\ new.dead
    BY <1>1 DEF LockRecord
  <2>2. Orphaned(file, p) = new
    BY <1>1 DEF Orphaned
  <2> HIDE DEF new
  <2>3. new # NoLock
    BY <2>1, DrainLockAssumption
  <2> QED
    BY <1>1, <2>1, <2>2, <2>3 DEF Live
<1>2. CASE ~(file # NoLock /\ file.token = p)
  BY <1>2 DEF Orphaned, Live
<1> QED
  BY <1>1, <1>2

\* The end of p's acquisition, by a release or by the death of p: what p leaves behind
\* is dead, and it has moved no live holder's file aside.
LEMMA EndKeeps ==
  ASSUME DrainLockTypeOK, DrainLockInv, TwoContend, NEW p \in Proc,
         NEW file \in {lockFile, NoLock}, EndAcquisition(p, file),
         file = lockFile \/ lk[p].pc \in OwnerPlace,
         \A q \in Proc : ~Live(lk[p].claimed, q)
  PROVE  /\ DrainLockInv' /\ lockFile' \in LockRecord \cup {NoLock}
         /\ lk' \in [Proc -> LockState]
         /\ lk'[p] = NotLocking
         /\ \A q \in Proc \ {p} : lk'[q].pc = lk[q].pc
<1>1. /\ file \in LockRecord \cup {NoLock}
      /\ \A q \in Proc : lk[q] \in LockState /\ lk[q].claimed \in LockRecord \cup {NoLock}
  BY DEF DrainLockTypeOK, LockState
<1>2. lockFile' = Orphaned(file, p) /\ lk'[p] = NotLocking
  BY DEF EndAcquisition
<1>3. ASSUME NEW q \in Proc \ {p}
      PROVE  /\ lk'[q] \in LockState /\ lk'[q].pc = lk[q].pc /\ lk'[q].seen = lk[q].seen
             /\ lk'[q].claimed = Orphaned(lk[q].claimed, p)
  <2> DEFINE o == Orphaned(lk[q].claimed, p)
  <2>1. lk'[q] = [lk[q] EXCEPT !.claimed = o]
    BY DEF EndAcquisition
  <2>2. o \in LockRecord \cup {NoLock}
    BY <1>1, OrphanedIs
  <2> HIDE DEF o
  <2>3. lk[q] \in LockState
    BY <1>1
  <2>4. /\ lk'[q] \in LockState /\ lk'[q].pc = lk[q].pc /\ lk'[q].seen = lk[q].seen
        /\ lk'[q].claimed = o
    BY <2>1, <2>2, <2>3 DEF LockState
  <2> QED
    BY <2>4 DEF o
<1>4. /\ lk' \in [Proc -> LockState]
      /\ \A q \in Proc : lk'[q] \in LockState
  <2>1. lk' = [q \in Proc |-> lk'[q]]
    BY DEF EndAcquisition
  <2>2. \A q \in Proc : lk'[q] \in LockState
    BY <1>2, <1>3, NotLockingIs
  <2> QED
    BY <2>1, <2>2
<1>5. /\ \A q \in Proc \ {p} : Owns(q)' <=> Owns(q)
      /\ ~Owns(p)'
  BY <1>2, <1>3, NotLockingIs DEF Owns, Holds
<1>6. ASSUME NEW f \in LockRecord \cup {NoLock}, FileInv(f), NEW g, g = Orphaned(f, p)
      PROVE  g # NoLock =>
               /\ g.stale => g.dead
               /\ \A q \in Proc : lk'[q].seen = g.stamp => g.dead
               /\ \A q \in Proc : Live(g, q) => Owns(q)'
  <2>1. SUFFICES ASSUME g # NoLock
                 PROVE  /\ g.stale => g.dead
                        /\ \A q \in Proc : lk'[q].seen = g.stamp => g.dead
                        /\ \A q \in Proc : Live(g, q) => Owns(q)'
    OBVIOUS
  <2>2. /\ f # NoLock /\ f \in LockRecord /\ g.stamp = f.stamp /\ g.stale = f.stale
        /\ (f.dead => g.dead) /\ ~Live(g, p)
        /\ \A q \in Proc \ {p} : Live(g, q) <=> Live(f, q)
    BY <1>6, <2>1, OrphanedIs
  <2>3. f.stamp # 0
    BY <2>2, DrainLockAssumption, FS_CardinalityType DEF LockRecord, Stamp
  <2>4. lk'[p].seen = 0
    BY <1>2, NotLockingIs
  <2>5. \A q \in Proc : lk'[q].seen = g.stamp => g.dead
    BY <1>3, <1>6, <2>2, <2>3, <2>4 DEF FileInv
  <2> QED
    BY <1>5, <1>6, <2>2, <2>5 DEF FileInv
<1>7. FileInv(lockFile)'
  <2>1. FileInv(file)
    BY DEF DrainLockInv, FileInv
  <2> QED
    BY <1>1, <1>2, <1>6, <2>1 DEF FileInv, Live
<1>8. \A q \in Proc : FileInv(lk[q].claimed)'
  <2> TAKE q \in Proc
  <2>1. CASE q = p
    BY <1>2, <2>1, NotLockingIs DEF FileInv
  <2>2. CASE q # p
    BY <1>1, <1>3, <1>6, <2>2 DEF FileInv, Live, DrainLockInv
  <2> QED
    BY <2>1, <2>2
<1>9. \A q \in Proc \ {p} :
        /\ lk'[q].claimed = NoLock <=> lk[q].claimed = NoLock
        /\ lk[q].claimed # NoLock => lk'[q].claimed.stamp = lk[q].claimed.stamp
        /\ \A r \in Proc \ {p} : Live(lk'[q].claimed, r) <=> Live(lk[q].claimed, r)
  <2> TAKE q \in Proc \ {p}
  <2> DEFINE old == lk[q].claimed
             new == lk'[q].claimed
  <2>1. old \in LockRecord \cup {NoLock} /\ new = Orphaned(old, p)
    BY <1>1, <1>3
  <2> HIDE DEF old, new
  <2>2. /\ new = NoLock <=> old = NoLock
        /\ old # NoLock => new.stamp = old.stamp
        /\ \A r \in Proc \ {p} : Live(new, r) <=> Live(old, r)
    BY <2>1, OrphanedIs
  <2> QED
    BY <2>2 DEF old, new
<1>10. lk'[p].claimed = NoLock
  BY <1>2, NotLockingIs
<1>11. /\ lockFile' \in LockRecord \cup {NoLock}
       /\ lockFile' = NoLock <=> file = NoLock
       /\ file # NoLock => lockFile'.stamp = lockFile.stamp
       /\ \A r \in Proc \ {p} : Live(lockFile', r) <=> Live(file, r)
  BY <1>1, <1>2, OrphanedIs
<1>12. (\A q \in Proc : lk[q].claimed # NoLock => lk[q].pc = "compare")'
  BY <1>3, <1>9, <1>10 DEF DrainLockInv
<1>13. StampsDiffer'
  BY <1>9, <1>10, <1>11 DEF DrainLockInv, StampsDiffer
<1>14. OwnersFile'
  <2> SUFFICES ASSUME NEW q \in Proc \ {p}, Owns(q)
               PROVE  Live(lockFile', q)
                      \/ (lockFile' = NoLock /\ \E c \in Proc : Live(lk'[c].claimed, q))
    BY <1>5 DEF OwnersFile, Mine, Live
  <2>1. q \in Contending
    BY OwnsIs DEF Contending, OwnerPlace
  <2>2. CASE Live(lockFile, q)
    <3>1. file # NoLock
      <4> SUFFICES ASSUME file = NoLock PROVE FALSE
        OBVIOUS
      <4>1. Owns(p)
        BY <2>2, OwnsIs DEF Live
      <4>2. Live(lockFile, p) \/ lockFile = NoLock
        BY <4>1 DEF DrainLockInv, OwnersFile, Mine
      <4> QED
        BY <2>2, <4>2 DEF Live
    <3> QED
      BY <1>11, <2>2, <3>1
  <2>3. CASE ~Live(lockFile, q)
    <3>1. PICK c \in Proc : lockFile = NoLock /\ Live(lk[c].claimed, q)
      BY <2>3 DEF DrainLockInv, OwnersFile, Mine
    <3>2. c # p
      BY <3>1
    <3> QED
      BY <1>9, <1>11, <3>1, <3>2
  <2> QED
    BY <2>2, <2>3
<1> QED
  BY <1>2, <1>3, <1>4, <1>7, <1>8, <1>11, <1>12, <1>13, <1>14 DEF DrainLockInv

\* Time: a lock that goes stale is a dead one's, as long as no live holder lapses.
LEMMA AgesKeeps ==
  ASSUME DrainLockTypeOK, DrainLockInv, Steady, Steady', LockAges
  PROVE  DrainLockTypeOK' /\ DrainLockInv' /\ lk' = lk
<1> DEFINE new == [lockFile EXCEPT !.stale = TRUE]
<1>1. lockFile # NoLock /\ lockFile \in LockRecord /\ lk' = lk
  BY DEF LockAges, DrainLockTypeOK
<1>2. lockFile.dead /\ lapses' = lapses
  BY DEF LockAges, Lapse, Steady
<1>3. /\ new \in LockRecord /\ new.token = lockFile.token /\ new.stamp = lockFile.stamp
      /\ new.dead = lockFile.dead
  BY <1>1 DEF LockRecord
<1>4. lockFile' = new
  BY DEF LockAges
<1> HIDE DEF new
<1>5. new # NoLock
  BY <1>3, DrainLockAssumption
<1>6. \A q \in Proc : Owns(q)' <=> Owns(q)
  BY <1>1 DEF Owns, Holds
<1>7. FileInv(lockFile)'
  BY <1>2, <1>3, <1>4 DEF FileInv, Live
<1>8. \A q \in Proc : FileInv(lk[q].claimed)'
  BY <1>1, <1>6 DEF FileInv, DrainLockInv, Live
<1>9. (\A q \in Proc : lk[q].claimed # NoLock => lk[q].pc = "compare")'
  BY <1>1 DEF DrainLockInv
<1>10. StampsDiffer'
  BY <1>1, <1>3, <1>4 DEF DrainLockInv, StampsDiffer
<1>11. OwnersFile'
  BY <1>1, <1>2, <1>3, <1>4, <1>5, <1>6 DEF DrainLockInv, OwnersFile, Mine, Live
<1>12. DrainLockTypeOK'
  BY <1>1, <1>2, <1>3, <1>4 DEF DrainLockTypeOK
<1> QED
  BY <1>1, <1>7, <1>8, <1>9, <1>10, <1>11, <1>12 DEF DrainLockInv

\* The file of a caller that has none aside.
LEMMA NothingAside ==
  ASSUME DrainLockInv, NEW p \in Proc, lk[p].pc # "compare"
  PROVE  lk[p].claimed = NoLock
BY DEF DrainLockInv

(***************************************************************************)
(* One lemma per call.                                                     *)
(***************************************************************************)
\* Where every caller but p is stays as it is.
OthersStay(p) == \A q \in Proc \ {p} : lk'[q].pc = lk[q].pc

\* p goes from place to place, neither beginning nor ending to own a lock file.
LEMMA PlaceKeeps ==
  ASSUME DrainLockTypeOK, DrainLockInv, NEW p \in Proc, NEW x \in Acquiring \cup {"idle"} \cup OwnerPlace,
         lk[p].pc # "compare", x # "compare", lk[p].pc \in OwnerPlace <=> x \in OwnerPlace,
         lk' = [lk EXCEPT ![p].pc = x], lockFile' = lockFile, lapses' = lapses
  PROVE  DrainLockTypeOK' /\ DrainLockInv' /\ OthersStay(p) /\ lk'[p].pc = x
<1>1. /\ Moves(p) /\ lk'[p].pc = x
      /\ lk'[p].seen = lk[p].seen /\ lk'[p].claimed = lk[p].claimed
  BY PcMoves
<1>2. lk[p].claimed = NoLock
  BY NothingAside
<1>3. DrainLockInv'
  BY <1>1, <1>2, PassKeeps
<1> QED
  BY <1>1, <1>3 DEF DrainLockTypeOK, Moves, OthersStay

\* tryCreateLock.
LEMMA CreateLockKeeps ==
  ASSUME DrainLockTypeOK, DrainLockInv, TwoContend, NEW p \in Proc,
         NEW x \in {"stat", "idle"}, lk[p].pc \in {"create", "recreate"},
         CreateLock(p, x), lapses' = lapses
  PROVE  DrainLockTypeOK' /\ DrainLockInv' /\ OthersStay(p) /\ lk'[p].pc \in {"held", x}
<1>1. lk[p].pc \notin OwnerPlace \cup {"idle", "compare"} /\ lk[p].claimed = NoLock
  BY NothingAside DEF OwnerPlace
<1>2. CASE lockFile = NoLock
  <2> DEFINE r == [NotLocking EXCEPT !.pc = "held"]
  <2>1. r \in LockState /\ r.pc = "held" /\ r.seen = 0 /\ r.claimed = NoLock
    BY BlankRecord DEF OwnerPlace
  <2>2. /\ lk' = [lk EXCEPT ![p] = r]
        /\ lockFile' = [token |-> p, stamp |-> FreshStamp, stale |-> FALSE, dead |-> FALSE]
    BY <1>2 DEF CreateLock
  <2> HIDE DEF r
  <2>3. Moves(p) /\ lk'[p] = r
    BY <2>1, <2>2, PutMoves
  <2>4. DrainLockInv' /\ lockFile' \in LockRecord
    BY <1>1, <1>2, <2>1, <2>2, <2>3, CreateKeeps
  <2> QED
    BY <2>1, <2>3, <2>4 DEF DrainLockTypeOK, Moves, OthersStay
<1>3. CASE lockFile # NoLock
  <2> DEFINE r == [NotLocking EXCEPT !.pc = x]
  <2>1. r \in LockState /\ r.pc = x /\ r.seen = 0 /\ r.claimed = NoLock
    BY BlankRecord DEF Acquiring
  <2>2. lk' = [lk EXCEPT ![p] = r] /\ lockFile' = lockFile
    BY <1>3 DEF CreateLock
  <2> HIDE DEF r
  <2>3. Moves(p) /\ lk'[p] = r
    BY <2>1, <2>2, PutMoves
  <2>4. DrainLockInv'
    BY <1>1, <2>1, <2>2, <2>3, PassKeeps DEF OwnerPlace
  <2> QED
    BY <2>1, <2>2, <2>3, <2>4 DEF DrainLockTypeOK, Moves, OthersStay
<1> QED
  BY <1>2, <1>3

\* The calls of acquireDrainLock: p owns no file before them.
LEMMA AcquireKeeps ==
  ASSUME DrainLockTypeOK, DrainLockInv, TwoContend, NEW p \in Proc,
         StartAcquire(p) \/ AcquireStep(p)
  PROVE  /\ DrainLockTypeOK' /\ DrainLockInv' /\ OthersStay(p)
         /\ lk[p].pc \in Acquiring \cup {"idle"}
         /\ lk'[p].pc \in Acquiring \cup {"idle", "held"}
<1>1. CASE StartAcquire(p)
  BY <1>1, PlaceKeeps DEF StartAcquire, Goto, Acquiring, OwnerPlace
<1>2. CASE AcquireCreate(p)
  BY <1>2, CreateLockKeeps DEF AcquireCreate, Acquiring
<1>3. CASE AcquireStat(p)
  <2>1. CASE lockFile = NoLock /\ Goto(p, "recreate")
    BY <1>3, <2>1, PlaceKeeps DEF AcquireStat, Goto, Acquiring, OwnerPlace
  <2>2. CASE lockFile # NoLock /\ ~lockFile.stale /\ Goto(p, "idle")
    BY <1>3, <2>2, PlaceKeeps DEF AcquireStat, Goto, Acquiring, OwnerPlace
  <2>3. CASE /\ lockFile # NoLock /\ lockFile.stale
             /\ lk' = [lk EXCEPT ![p].pc = "claim", ![p].seen = lockFile.stamp]
    <3> DEFINE r == [lk[p] EXCEPT !.pc = "claim", !.seen = lockFile.stamp]
    <3>1. lk[p] \in LockState /\ lockFile \in LockRecord /\ lk[p].pc = "stat"
      BY <1>3, <2>3 DEF DrainLockTypeOK, AcquireStat
    <3>2. lk[p].claimed = NoLock
      BY <3>1, NothingAside
    <3>3. lockFile.stamp \in Stamp
      BY <3>1 DEF LockRecord
    <3>4. r \in LockState /\ r.pc = "claim" /\ r.seen = lockFile.stamp /\ r.claimed = NoLock
      BY <3>1, <3>2, <3>3 DEF LockState, Acquiring
    <3>5. lk' = [lk EXCEPT ![p] = r] /\ lockFile' = lockFile /\ lapses' = lapses
      BY <1>3, <2>3 DEF AcquireStat
    <3> HIDE DEF r
    <3>6. Moves(p) /\ lk'[p] = r
      BY <3>4, <3>5, PutMoves
    <3>7. lk[p].pc \notin OwnerPlace /\ lk'[p].pc \notin OwnerPlace
      BY <3>1, <3>4, <3>6 DEF OwnerPlace
    <3>8. DrainLockInv'
      BY <2>3, <3>2, <3>4, <3>5, <3>6, <3>7, JudgeKeeps
    <3> QED
      BY <3>1, <3>4, <3>5, <3>6, <3>8 DEF DrainLockTypeOK, Moves, OthersStay, Acquiring
  <2> QED
    BY <1>3, <2>1, <2>2, <2>3 DEF AcquireStat
<1>4. CASE AcquireClaim(p)
  <2>1. lk[p].pc = "claim" /\ lk[p].claimed = NoLock /\ lapses' = lapses
    BY <1>4, NothingAside DEF AcquireClaim
  <2>2. CASE lockFile = NoLock
    <3>1. Moves(p) /\ lk'[p] = NotLocking /\ lockFile' = lockFile
      BY <1>4, <2>2, PutMoves, NotLockingIs DEF AcquireClaim
    <3>2. DrainLockInv'
      BY <2>1, <3>1, NotLockingIs, PassKeeps DEF OwnerPlace
    <3> QED
      BY <2>1, <3>1, <3>2, NotLockingIs DEF DrainLockTypeOK, Moves, OthersStay, Acquiring
  <2>3. CASE lockFile # NoLock
    <3> DEFINE r == [lk[p] EXCEPT !.pc = "compare", !.claimed = lockFile]
    <3>1. lk[p] \in LockState /\ lockFile \in LockRecord
      BY <2>3 DEF DrainLockTypeOK
    <3>2. r \in LockState /\ r.pc = "compare" /\ r.seen = lk[p].seen /\ r.claimed = lockFile
      BY <3>1 DEF LockState, Acquiring
    <3>3. lk' = [lk EXCEPT ![p] = r] /\ lockFile' = NoLock
      BY <1>4, <2>3 DEF AcquireClaim
    <3> HIDE DEF r
    <3>4. Moves(p) /\ lk'[p] = r
      BY <3>2, <3>3, PutMoves
    <3>5. DrainLockInv'
      BY <2>1, <2>3, <3>2, <3>3, <3>4, ClaimKeeps DEF OwnerPlace
    <3> QED
      BY <2>1, <3>2, <3>3, <3>4, <3>5 DEF DrainLockTypeOK, Moves, OthersStay, Acquiring
  <2> QED
    BY <2>2, <2>3
<1>5. CASE AcquireCompare(p)
  <2>1. lk[p].pc = "compare" /\ lapses' = lapses
    BY <1>5 DEF AcquireCompare
  <2>2. CASE lk[p].claimed.stamp # lk[p].seen
    <3>1. /\ Moves(p) /\ lk'[p] = NotLocking
          /\ lockFile' = IF lockFile = NoLock THEN lk[p].claimed ELSE lockFile
      BY <1>5, <2>2, PutMoves, NotLockingIs DEF AcquireCompare
    <3>2. lk[p].claimed \in LockRecord \cup {NoLock}
      BY DEF DrainLockTypeOK, LockState
    <3>3. DrainLockInv'
      <4>1. CASE lockFile = NoLock
        BY <2>1, <3>1, <4>1, NotLockingIs, PutBackKeeps DEF OwnerPlace
      <4>2. CASE lockFile # NoLock
        BY <2>1, <3>1, <4>2, NotLockingIs, PassKeeps DEF OwnerPlace
      <4> QED
        BY <4>1, <4>2
    <3> QED
      BY <2>1, <3>1, <3>2, <3>3, NotLockingIs
      DEF DrainLockTypeOK, Moves, OthersStay, Acquiring
  <2>3. CASE lk[p].claimed.stamp = lk[p].seen
    <3> DEFINE r == [NotLocking EXCEPT !.pc = "recreate"]
    <3>1. r \in LockState /\ r.pc = "recreate" /\ r.seen = 0 /\ r.claimed = NoLock
      BY BlankRecord DEF Acquiring
    <3>2. lk' = [lk EXCEPT ![p] = r] /\ lockFile' = lockFile
      BY <1>5, <2>3 DEF AcquireCompare
    <3> HIDE DEF r
    <3>3. Moves(p) /\ lk'[p] = r
      BY <3>1, <3>2, PutMoves
    <3>4. lk[p].claimed = NoLock \/ lk[p].claimed.dead
      BY <2>3 DEF DrainLockInv, FileInv
    <3>5. DrainLockInv'
      BY <2>1, <3>1, <3>2, <3>3, <3>4, PassKeeps DEF OwnerPlace
    <3> QED
      BY <2>1, <3>1, <3>2, <3>3, <3>5 DEF DrainLockTypeOK, Moves, OthersStay, Acquiring
  <2> QED
    BY <2>2, <2>3
<1>6. CASE AcquireRecreate(p)
  BY <1>6, CreateLockKeeps DEF AcquireRecreate, Acquiring
<1> QED
  BY <1>1, <1>2, <1>3, <1>4, <1>5, <1>6 DEF AcquireStep

\* The calls of renewDrainLock.
LEMMA RenewKeeps ==
  ASSUME DrainLockTypeOK, DrainLockInv, NEW p \in Proc, RenewStep(p)
  PROVE  /\ DrainLockTypeOK' /\ DrainLockInv' /\ OthersStay(p)
         /\ lk[p].pc \in {"renew", "touch"} /\ lk'[p].pc \in {"touch", "lost", "kept"}
<1>1. CASE RenewRead(p)
  <2>1. PICK x \in {"touch", "lost"} : lk' = [lk EXCEPT ![p].pc = x]
    BY <1>1 DEF RenewRead, Goto
  <2> QED
    BY <1>1, <2>1, PlaceKeeps DEF RenewRead, OwnerPlace
<1>2. CASE RenewTouch(p)
  <2>1. lk[p].pc = "touch" /\ lapses' = lapses
    BY <1>2 DEF RenewTouch
  <2>2. CASE lockFile = NoLock
    BY <1>2, <2>1, <2>2, PlaceKeeps DEF RenewTouch, Goto, OwnerPlace
  <2>3. CASE lockFile # NoLock
    <3>1. /\ lk' = [lk EXCEPT ![p].pc = "kept"]
          /\ lockFile' = [lockFile EXCEPT !.stamp = FreshStamp, !.stale = FALSE]
      BY <1>2, <2>3 DEF RenewTouch, Goto
    <3>2. /\ Moves(p) /\ lk'[p].pc = "kept"
          /\ lk'[p].seen = lk[p].seen /\ lk'[p].claimed = lk[p].claimed
      BY <3>1, PcMoves DEF OwnerPlace
    <3>3. DrainLockInv' /\ lockFile' \in LockRecord
      BY <2>1, <2>3, <3>1, <3>2, TouchKeeps DEF OwnerPlace
    <3> QED
      BY <2>1, <3>2, <3>3 DEF DrainLockTypeOK, Moves, OthersStay
  <2> QED
    BY <2>2, <2>3
<1> QED
  BY <1>1, <1>2 DEF RenewStep

\* The calls of releaseDrainLock.
LEMMA ReleaseKeeps ==
  ASSUME DrainLockTypeOK, DrainLockInv, TwoContend, NEW p \in Proc, ReleaseStep(p)
  PROVE  /\ DrainLockTypeOK' /\ DrainLockInv' /\ OthersStay(p)
         /\ lk[p].pc \in {"release", "unlink"} /\ lk'[p].pc \in {"idle", "unlink"}
<1>1. lk[p].pc \in {"release", "unlink"} /\ lapses' = lapses
  BY DEF ReleaseStep, ReleaseRead, ReleaseUnlink
<1>2. lk[p].claimed = NoLock /\ lk[p].pc \in OwnerPlace
  BY <1>1, NothingAside DEF OwnerPlace
<1>3. \A q \in Proc : ~Live(lk[p].claimed, q)
  BY <1>2 DEF Live
<1>4. CASE ReleaseRead(p) /\ Mine(p)
  BY <1>4, PlaceKeeps DEF ReleaseRead, Goto, OwnerPlace
<1>5. CASE EndAcquisition(p, lockFile) \/ EndAcquisition(p, NoLock)
  <2>1. PICK file \in {lockFile, NoLock} : EndAcquisition(p, file)
    BY <1>5
  <2> QED
    BY <1>1, <1>2, <1>3, <2>1, EndKeeps, NotLockingIs DEF DrainLockTypeOK, OthersStay
<1> QED
  BY <1>4, <1>5 DEF ReleaseStep, ReleaseRead, ReleaseUnlink

\* The death of p, which has moved no live holder's lock aside.
LEMMA CrashKeeps ==
  ASSUME DrainLockTypeOK, DrainLockInv, TwoContend, Steady, Steady', NEW p \in Proc,
         LockCrash(p)
  PROVE  /\ DrainLockTypeOK' /\ DrainLockInv' /\ OthersStay(p) /\ lk'[p].pc = "idle"
<1>1. /\ \A q \in Proc : ~Live(lk[p].claimed, q)
      /\ lapses' = lapses /\ EndAcquisition(p, lockFile)
  BY DEF LockCrash, Lapse, Steady
<1> QED
  BY <1>1, EndKeeps, NotLockingIs DEF DrainLockTypeOK, OthersStay

\* With two contenders at most, a lock file has one owner.
LEMMA OneOwner ==
  ASSUME DrainLockInv, TwoContend, NEW p \in Proc, NEW q \in Proc, Owns(p), Owns(q)
  PROVE  p = q
<1> SUFFICES ASSUME p # q PROVE FALSE
  OBVIOUS
<1>1. CASE Mine(p) \/ Mine(q)
  BY <1>1 DEF DrainLockInv, OwnersFile, Mine, Live
<1>2. CASE ~Mine(p) /\ ~Mine(q)
  <2>1. PICK c \in Proc : Live(lk[c].claimed, p)
    BY <1>2 DEF DrainLockInv, OwnersFile
  <2>2. lk[c].pc = "compare"
    BY <2>1 DEF DrainLockInv, Live
  <2>3. p \in Contending /\ q \in Contending /\ c \in Contending /\ c # p /\ c # q
    BY <2>2, OwnsIs DEF Contending, OwnerPlace
  <2> QED
    BY <2>3 DEF TwoContend
<1> QED
  BY <1>1, <1>2

-----------------------------------------------------------------------------
(***************************************************************************)
(* A drain and its lock.                                                   *)
(***************************************************************************)
\* Only p's drain has moved.
DrainMoves(p) ==
  /\ dr' \in [Proc -> DrainState]
  /\ \A q \in Proc \ {p} : dr'[q] = dr[q]

\* No other process is in a drain.
Alone(p) == \A q \in Proc \ {p} : dr[q].pc = "idle"

\* Giving p's drain another record moves only p's drain.
LEMMA PutDrain ==
  ASSUME QueueTypeOK, NEW p \in Proc, NEW r \in DrainState, dr' = [dr EXCEPT ![p] = r]
  PROVE  DrainMoves(p) /\ dr'[p] = r
BY DEF QueueTypeOK, DrainMoves

\* So does giving it another place.
LEMMA DrainGoes ==
  ASSUME QueueTypeOK, NEW p \in Proc,
         NEW x \in {"claim", "read", "next", "post", "await", "cut", "unlink"},
         dr' = [dr EXCEPT ![p].pc = x]
  PROVE  /\ DrainMoves(p) /\ dr'[p].pc = x /\ dr'[p].stage = dr[p].stage
         /\ dr'[p].buf = dr[p].buf /\ dr'[p].count = dr[p].count
         /\ dr'[p].keep = dr[p].keep /\ dr'[p].ino = dr[p].ino
<1> DEFINE r == [dr[p] EXCEPT !.pc = x]
<1>1. dr[p] \in DrainState
  BY DEF QueueTypeOK
<1>2. /\ r \in DrainState /\ r.pc = x /\ r.stage = dr[p].stage
      /\ r.buf = dr[p].buf /\ r.count = dr[p].count
      /\ r.keep = dr[p].keep /\ r.ino = dr[p].ino
  BY <1>1 DEF DrainState
<1>3. dr' = [dr EXCEPT ![p] = r]
  BY <1>1
<1> HIDE DEF r
<1> QED
  BY <1>2, <1>3, PutDrain

\* A drain that holds nothing of a bucket.
LEMMA FreeRecordIs ==
  ASSUME NEW x \in {"idle", "claim", "read"}, NEW stage \in {"leftover", "backup", "live"}
  PROVE  LET r == FreeRecord(x, stage)
         IN /\ r \in DrainState /\ r.pc = x /\ r.stage = stage /\ r.buf = <<>>
            /\ r.count = 0 /\ r.keep = <<>> /\ r.ino = 0
<1>1. /\ NotDraining \in DrainState /\ NotDraining.buf = <<>>
      /\ NotDraining.count = 0 /\ NotDraining.keep = <<>> /\ NotDraining.ino = 0
  BY EmptySeq DEF NotDraining, DrainState
<1> QED
  BY <1>1 DEF FreeRecord, DrainState

\* The end of a drain, and the way to its next bucket.
LEMMA EndDrainIs ==
  ASSUME QueueTypeOK, NEW p \in Proc, EndDrain(p)
  PROVE  /\ DrainMoves(p) /\ dr'[p].pc = "idle" /\ dr'[p].buf = <<>> /\ dr'[p].keep = <<>>
         /\ lk' = [lk EXCEPT ![p].pc = "release"] /\ lockFile' = lockFile /\ lapses' = lapses
<1>1. /\ NotDraining \in DrainState /\ NotDraining.pc = "idle"
      /\ NotDraining.buf = <<>> /\ NotDraining.keep = <<>>
  BY DEF NotDraining, DrainState
<1> QED
  BY <1>1, PutDrain DEF EndDrain

\* The next bucket is claimed under a renewed lock, with nothing read of it yet.
LEMMA NextStageIs ==
  ASSUME QueueTypeOK, NEW p \in Proc, NEW stage \in {"backup", "live"}, NextStage(p, stage)
  PROVE  /\ DrainMoves(p) /\ dr'[p].pc = "claim" /\ dr'[p].stage = stage
         /\ dr'[p].buf = <<>> /\ dr'[p].keep = <<>>
         /\ lk' = [lk EXCEPT ![p].pc = "renew"] /\ lockFile' = lockFile /\ lapses' = lapses
BY FreeRecordIs, PutDrain DEF NextStage, Keeping

\* A drain under way owns the lock.
LEMMA SessionOwns ==
  ASSUME SessionInv, NEW p \in Proc, dr[p].pc # "idle"
  PROVE  /\ lk[p].pc \in {"held", "renew", "touch", "kept", "lost"}
         /\ lk[p].pc \in OwnerPlace
BY DEF SessionInv, OwnerPlace

\* So there is one at a time.
LEMMA OneSession ==
  ASSUME DrainLockInv, SessionInv, TwoContend, NEW p \in Proc, dr[p].pc # "idle"
  PROVE  Alone(p)
BY OneOwner, OwnsIs, SessionOwns DEF Alone

\* One who owns the lock lets no other drain be under way.
LEMMA OwnerAlone ==
  ASSUME DrainLockInv, SessionInv, TwoContend, NEW p \in Proc, lk[p].pc \in OwnerPlace
  PROVE  Alone(p)
BY OneOwner, OwnsIs, SessionOwns DEF Alone

\* What a step of p's drain may do to the lock, and the place it may go to with it.
LockTurn(p) ==
  /\ lockFile' = lockFile /\ lapses' = lapses
  /\ \/ lk' = lk /\ lk[p].pc = "held" /\ dr'[p].pc # "idle"
     \/ lk' = [lk EXCEPT ![p].pc = "held"] /\ dr'[p].pc # "idle"
     \/ lk' = [lk EXCEPT ![p].pc = "renew"] /\ dr'[p].pc \in {"claim", "read", "post"}
     \/ lk' = [lk EXCEPT ![p].pc = "release"] /\ dr'[p].pc = "idle"

\* A step of p's drain keeps the lock's part of the invariant.
LEMMA TurnKeeps ==
  ASSUME DrainLockTypeOK, DrainLockInv, SessionInv, NEW p \in Proc,
         lk[p].pc \in {"held", "kept", "lost"}, DrainMoves(p), LockTurn(p)
  PROVE  DrainLockTypeOK' /\ DrainLockInv' /\ SessionInv'
<1>1. CASE lk' = lk /\ lk[p].pc = "held" /\ dr'[p].pc # "idle"
  <2> DEFINE x == lk[p].pc
  <2>1. lk' = [lk EXCEPT ![p].pc = x]
    BY <1>1 DEF DrainLockTypeOK, LockState
  <2>2. DrainLockTypeOK' /\ DrainLockInv'
    BY <1>1, <2>1, PlaceKeeps DEF LockTurn, OwnerPlace
  <2> QED
    BY <1>1, <2>2 DEF SessionInv, DrainMoves
<1>2. ASSUME NEW x \in {"held", "renew", "release"}, lk' = [lk EXCEPT ![p].pc = x],
             x = "held" => dr'[p].pc # "idle",
             x = "renew" => dr'[p].pc \in {"claim", "read", "post"},
             x = "release" => dr'[p].pc = "idle"
      PROVE  DrainLockTypeOK' /\ DrainLockInv' /\ SessionInv'
  <2>1. DrainLockTypeOK' /\ DrainLockInv' /\ OthersStay(p) /\ lk'[p].pc = x
    BY <1>2, PlaceKeeps DEF LockTurn, OwnerPlace
  <2>2. SessionInv'
    BY <1>2, <2>1 DEF SessionInv, DrainMoves, OthersStay
  <2> QED
    BY <2>1, <2>2
<1> QED
  BY <1>1, <1>2 DEF LockTurn

-----------------------------------------------------------------------------
(***************************************************************************)
(* What a step of a drain does to the queue.                               *)
(***************************************************************************)
\* A line is in transit in a file under a name or in a rewrite.
LEMMA InTransitIs ==
  ASSUME NEW e
  PROVE  e \in InTransit <=> \/ \E b \in Bucket : e \in EventsOf(name[b])
                             \/ \E q \in Proc : e \in Range(dr[q].keep)
<1> DEFINE F == {EventsOf(name[b]) : b \in Bucket}
           K == {Range(dr[q].keep) : q \in Proc}
<1>1. InTransit = (UNION F) \cup (UNION K)
  BY DEF InTransit
<1>2. e \in UNION F <=> \E b \in Bucket : e \in EventsOf(name[b])
  OBVIOUS
<1>3. e \in UNION K <=> \E q \in Proc : e \in Range(dr[q].keep)
  OBVIOUS
<1> HIDE DEF F, K
<1> QED
  BY <1>1, <1>2, <1>3

\* The order in a file depends on what was written, stored and given up.
LEMMA SameOrder ==
  ASSUME UNCHANGED <<mates, server, unfit, excused>>, NEW s, InOrder(s)
  PROVE  InOrder(s)'
BY DEF InOrder

\* An empty file is in order, and holds nothing.
LEMMA EmptyFile ==
  /\ \A x : x \notin Range(<<>>)
  /\ InOrder(<<>>)
BY DEF Range, InOrder

\* A step of p's drain keeps the invariant when it loses no line that is in transit
\* and what it writes, posts and remembers is right.
LEMMA DrainKeeps ==
  ASSUME QueueTypeOK, QueueInv, NEW p \in Proc, Alone(p), DrainMoves(p),
         UNCHANGED <<app, server, written, unfit, excused, mates>>,
         setAside \subseteq setAside', setAside' \subseteq unfit,
         \A b, c \in Bucket : name'[b] # 0 /\ name'[b] = name'[c] => b = c,
         \A i \in Inode : data'[i] \in {data[i], <<>>, dr[p].keep},
         Range(dr'[p].buf) \subseteq 1..written, Range(dr'[p].keep) \subseteq 1..written,
         InOrder(dr'[p].keep), BucketOK(dr[p])',
         \A body \in net' : /\ Range(body) \subseteq 1..written /\ Range(body) \cap unfit = {}
                            /\ InOrder(body),
         \A e \in 1..written :
           e \in InTransit => e \in InTransit' \cup Range(server) \cup setAside' \cup excused
  PROVE  QueueInv'
<1>1. KnownInv'
  <2>1. \A i \in Inode : Range(data'[i]) \subseteq 1..written
    BY EmptyFile DEF QueueInv, KnownInv
  <2>2. \A q \in Proc : /\ Range(dr'[q].buf) \subseteq 1..written
                        /\ Range(dr'[q].keep) \subseteq 1..written
    BY DEF QueueInv, KnownInv, DrainMoves
  <2> QED
    BY <2>1, <2>2 DEF QueueInv, KnownInv
<1>2. NamesInv'
  BY DEF QueueInv, NamesInv
<1>3. BucketInv'
  <2>1. ASSUME NEW q \in Proc \ {p} PROVE BucketOK(dr[q])'
    <3>1. dr'[q] = dr[q] /\ dr[q].pc = "idle"
      BY DEF Alone, DrainMoves
    <3> QED
      BY <3>1 DEF QueueInv, BucketInv, BucketOK
  <2> QED
    BY <2>1 DEF BucketInv
<1>4. FitInv'
  BY DEF FitInv
<1>5. OrderInv'
  <2>1. \A s : InOrder(s) => InOrder(s)'
    BY SameOrder
  <2>2. \A i \in Inode : InOrder(data'[i])
    BY EmptyFile DEF QueueInv, OrderInv
  <2>3. \A q \in Proc : InOrder(dr'[q].keep)
    BY DEF QueueInv, OrderInv, DrainMoves
  <2> QED
    BY <2>1, <2>2, <2>3 DEF OrderInv, InOrder
<1>6. EveryLineAccounted'
  <2>1. \A e \in 1..written : e \in InTransit \cup Range(server) \cup setAside \cup excused
    BY DEF QueueInv, EveryLineAccounted
  <2>2. Range(server) \cap unfit = {}
    BY DEF QueueInv, EveryLineAccounted
  <2> QED
    BY <2>1, <2>2 DEF EveryLineAccounted
<1>7. FileOrderKept'
  BY DEF QueueInv, FileOrderKept
<1> QED
  BY <1>1, <1>2, <1>3, <1>4, <1>5, <1>6, <1>7 DEF QueueInv

\* A step of p's drain that leaves the files alone, with no rewrite under way.
LEMMA FilesStay ==
  ASSUME LogTypeOK, LogDrainInv, TwoContend, NEW p \in Proc, DrainMoves(p), LockTurn(p),
         lk[p].pc \in {"held", "kept", "lost"}, dr[p].pc # "rewrite", dr'[p].pc # "rewrite",
         UNCHANGED <<name, data, app, server, written, unfit, crashes, excused, mates>>,
         fails' \in 0..MaxFails, setAside \subseteq setAside', setAside' \subseteq unfit,
         Range(dr'[p].buf) \subseteq 1..written, BucketOK(dr[p])',
         net' \subseteq Seq(Line),
         \A body \in net' : /\ Range(body) \subseteq 1..written /\ Range(body) \cap unfit = {}
                            /\ InOrder(body)
  PROVE  LogTypeOK' /\ LogDrainInv'
<1>1. Alone(p)
  BY OwnerAlone DEF LogDrainInv, OwnerPlace
<1>2. dr[p].keep = <<>> /\ dr'[p].keep = <<>>
  BY DEF LogDrainInv, QueueInv, BucketInv, BucketOK
<1>3. \A q \in Proc : dr'[q].keep = dr[q].keep
  BY <1>2 DEF DrainMoves
<1>4. InTransit' = InTransit
  BY <1>3 DEF InTransit, EventsOf
<1>5. QueueInv'
  <2>1. \A b, c \in Bucket : name'[b] # 0 /\ name'[b] = name'[c] => b = c
    BY DEF LogDrainInv, QueueInv, NamesInv
  <2>2. InOrder(dr'[p].keep) /\ Range(dr'[p].keep) \subseteq 1..written
    BY <1>2, EmptyFile
  <2>3. \A i \in Inode : data'[i] \in {data[i], <<>>, dr[p].keep}
    OBVIOUS
  <2> QED
    BY <1>1, <1>4, <2>1, <2>2, <2>3, DrainKeeps DEF LogTypeOK, LogDrainInv
<1>6. QueueTypeOK'
  <2>1. setAside' \subseteq Line
    BY LogDrainAssumption DEF LogTypeOK, QueueTypeOK, Line
  <2> QED
    BY <2>1 DEF LogTypeOK, QueueTypeOK, DrainMoves
<1>7. DrainLockTypeOK' /\ DrainLockInv' /\ SessionInv'
  BY TurnKeeps DEF LogTypeOK, LogDrainInv
<1> QED
  BY <1>5, <1>6, <1>7 DEF LogTypeOK, LogDrainInv

\* A body on its way is fit and in order.
LEMMA NetIs ==
  ASSUME QueueInv
  PROVE  \A body \in net : /\ Range(body) \subseteq 1..written /\ Range(body) \cap unfit = {}
                           /\ InOrder(body)
BY DEF QueueInv, KnownInv, FitInv, OrderInv

\* The end of p's drain, with no rewrite under way.
LEMMA EndingKeeps ==
  ASSUME LogTypeOK, LogDrainInv, TwoContend, NEW p \in Proc, EndDrain(p),
         lk[p].pc \in {"held", "kept", "lost"}, dr[p].pc # "rewrite",
         UNCHANGED <<name, data, app, server, setAside, written, unfit, crashes, excused,
                     mates>>,
         fails' \in 0..MaxFails, net' \subseteq net
  PROVE  LogTypeOK' /\ LogDrainInv'
<1>1. /\ DrainMoves(p) /\ dr'[p].pc = "idle" /\ dr'[p].buf = <<>> /\ dr'[p].keep = <<>>
      /\ LockTurn(p)
  BY EndDrainIs DEF LogTypeOK, LockTurn
<1>2. BucketOK(dr[p])'
  BY <1>1 DEF BucketOK
<1>3. Range(dr'[p].buf) \subseteq 1..written
  BY <1>1, EmptyFile
<1>4. \A body \in net' : /\ Range(body) \subseteq 1..written /\ Range(body) \cap unfit = {}
                         /\ InOrder(body)
  BY NetIs DEF LogDrainInv
<1>5. net' \subseteq Seq(Line) /\ setAside' \subseteq unfit
  BY DEF LogTypeOK, QueueTypeOK, LogDrainInv, QueueInv, EveryLineAccounted
<1> QED
  BY <1>1, <1>2, <1>3, <1>4, <1>5, FilesStay

(***************************************************************************)
(* The chunk of one POST.                                                  *)
(***************************************************************************)
\* ChunkOf is a head of what the drain holds, and none of its lines is unfit.
LEMMA ChunkIs ==
  ASSUME NEW buf \in Seq(Line)
  PROVE  \E n \in 0..Len(buf) :
           /\ ChunkOf(buf) \in Seq(Line) /\ Len(ChunkOf(buf)) = n
           /\ \A i \in 1..n : ChunkOf(buf)[i] = buf[i] /\ buf[i] \notin unfit
<1> DEFINE T == FitPrefix(buf)
           U == {Len(buf) - n : n \in T}
<1>1. Len(buf) \in Nat /\ T \subseteq 0..Len(buf) /\ 0 \in T
  BY LogDrainAssumption DEF FitPrefix
<1>2. U \subseteq Nat /\ U # {}
  <2> HIDE DEF T
  <2> QED
    BY <1>1
<1>3. PICK k \in U : \A u \in U : k <= u
  <2> HIDE DEF U
  <2> QED
    BY <1>2, LeastElement
<1>4. \E n \in T : \A m \in T : m <= n
  <2> HIDE DEF T
  <2>1. PICK n \in T : k = Len(buf) - n
    BY <1>3
  <2>2. \A m \in T : k <= Len(buf) - m
    BY <1>3
  <2> QED
    BY <1>1, <2>1, <2>2
<1> DEFINE n == CHOOSE x \in T : \A m \in T : m <= x
<1>5. n \in T /\ ChunkOf(buf) = SubSeq(buf, 1, n)
  BY <1>4 DEF ChunkOf
<1> HIDE DEF n
<1>6. n \in 0..Len(buf) /\ \A i \in 1..n : buf[i] \notin unfit
  BY <1>5 DEF FitPrefix
<1> HIDE DEF T, U
<1>7. /\ SubSeq(buf, 1, n) \in Seq(Line) /\ Len(SubSeq(buf, 1, n)) = n
      /\ \A i \in 1..n : SubSeq(buf, 1, n)[i] = buf[i]
  BY <1>1, <1>6
<1> QED
  BY <1>5, <1>6, <1>7

\* A head of a file that is in order is in order.
LEMMA HeadInOrder ==
  ASSUME NEW s, NEW h, InOrder(s), Len(h) \in Nat, Len(s) \in Nat, Len(h) <= Len(s),
         \A i \in 1..Len(h) : h[i] = s[i]
  PROVE  InOrder(h)
<1> SUFFICES ASSUME NEW m \in mates, NEW j \in 1..Len(h), h[j] = m[2],
                    m[1] \notin Range(server) \cup unfit \cup excused
             PROVE  \E i \in 1..(j - 1) : h[i] = m[1]
  BY DEF InOrder
<1>1. j \in 1..Len(s) /\ s[j] = m[2]
  OBVIOUS
<1>2. PICK i \in 1..(j - 1) : s[i] = m[1]
  BY <1>1 DEF InOrder
<1> QED
  BY <1>2

\* A line of what the drain holds has been written.
LEMMA HeldKnown ==
  ASSUME QueueInv, NEW p \in Proc
  PROVE  Range(dr[p].buf) \subseteq 1..written
BY DEF QueueInv, KnownInv

(***************************************************************************)
(* One lemma per step of a drain.                                          *)
(***************************************************************************)
\* An acquired lock starts a drain at the first bucket (drainOutboxToWebhook).
LEMMA HeldKeeps ==
  ASSUME LogTypeOK, LogDrainInv, TwoContend, NEW p \in Proc, DrainHeld(p)
  PROVE  LogTypeOK' /\ LogDrainInv'
<1>1. /\ dr[p].pc = "idle" /\ lk[p].pc = "held"
      /\ UNCHANGED <<name, data, app, net, server, setAside, written, unfit, crashes, fails,
                     excused, mates>>
  BY DEF DrainHeld, Runs
<1>2. /\ DrainMoves(p) /\ dr'[p].pc \in {"read", "claim"}
      /\ dr'[p].pc = "claim" => name["draining"] = 0 /\ dr'[p].stage = "backup"
      /\ dr'[p].buf = <<>> /\ dr'[p].keep = <<>>
      /\ lk' = [lk EXCEPT ![p].pc = "renew"] /\ lockFile' = lockFile /\ lapses' = lapses
  <2>1. CASE name["draining"] # 0
    BY <2>1, FreeRecordIs, PutDrain DEF DrainHeld, Keeping, LogTypeOK
  <2>2. CASE name["draining"] = 0
    BY <2>2, NextStageIs DEF DrainHeld, LogTypeOK
  <2> QED
    BY <2>1, <2>2
<1>3. LockTurn(p)
  BY <1>2 DEF LockTurn
<1>4. BucketOK(dr[p])'
  BY <1>1, <1>2 DEF BucketOK
<1>5. Range(dr'[p].buf) \subseteq 1..written
  BY <1>2, EmptyFile
<1>6. net' \subseteq Seq(Line) /\ setAside' \subseteq unfit /\ fails' \in 0..MaxFails
  BY <1>1 DEF LogTypeOK, QueueTypeOK, LogDrainInv, QueueInv, EveryLineAccounted
<1>7. \A body \in net' : /\ Range(body) \subseteq 1..written /\ Range(body) \cap unfit = {}
                         /\ InOrder(body)
  BY <1>1, NetIs DEF LogDrainInv
<1> QED
  BY <1>1, <1>2, <1>3, <1>4, <1>5, <1>6, <1>7, FilesStay

\* A drain that finds its lock gone ends where it is.
LEMMA LostKeeps ==
  ASSUME LogTypeOK, LogDrainInv, TwoContend, NEW p \in Proc, DrainLost(p)
  PROVE  LogTypeOK' /\ LogDrainInv'
<1>1. lk[p].pc = "lost" /\ dr[p].pc # "rewrite"
  BY DEF DrainLost, LogDrainInv, SessionInv
<1>2. fails' \in 0..MaxFails /\ net' \subseteq net
  BY DEF DrainLost, LogTypeOK, QueueTypeOK
<1> QED
  BY <1>1, <1>2, EndingKeeps DEF DrainLost

\* A bucket is read into buf, which mirrors the file from then on.
LEMMA ReadKeeps ==
  ASSUME LogTypeOK, LogDrainInv, TwoContend, NEW p \in Proc, ReadBucket(p)
  PROVE  LogTypeOK' /\ LogDrainInv'
<1>1. /\ dr[p].pc = "read" /\ lk[p].pc \in {"held", "kept"}
      /\ UNCHANGED <<name, data, app, net, server, setAside, written, unfit, crashes, fails,
                     excused, mates>>
  BY DEF ReadBucket, Runs
<1>2. /\ fails' \in 0..MaxFails /\ net' \subseteq Seq(Line) /\ setAside' \subseteq unfit
  BY <1>1 DEF LogTypeOK, QueueTypeOK, LogDrainInv, QueueInv, EveryLineAccounted
<1>3. CASE name["draining"] = 0
  BY <1>1, <1>2, <1>3, EndingKeeps DEF ReadBucket
<1>4. CASE name["draining"] # 0
  <2> DEFINE s == data[name["draining"]]
             r == [dr[p] EXCEPT !.pc = "next", !.buf = s]
  <2>1. name["draining"] \in Inode /\ s \in Seq(Line) /\ dr[p] \in DrainState
    BY <1>4 DEF LogTypeOK, QueueTypeOK, Bucket
  <2> HIDE DEF s
  <2>2. r \in DrainState /\ r.pc = "next" /\ r.buf = s /\ r.keep = dr[p].keep
    BY <2>1 DEF DrainState
  <2>3. dr' = [dr EXCEPT ![p] = r]
    BY <1>4 DEF ReadBucket, s
  <2> HIDE DEF r
  <2>4. DrainMoves(p) /\ dr'[p] = r
    BY <2>2, <2>3, PutDrain DEF LogTypeOK
  <2>5. LockTurn(p)
    BY <1>4, <2>2, <2>4 DEF ReadBucket, GoOn, LockTurn
  <2>6. dr'[p].keep = <<>>
    BY <1>1, <2>2, <2>4 DEF LogDrainInv, QueueInv, BucketInv, BucketOK
  <2>7. Mirrors(dr[p].buf, data[name["draining"]])'
    BY <1>1, <2>1, <2>2, <2>4 DEF Mirrors, s
  <2>8. BucketOK(dr[p])'
    BY <1>1, <1>4, <2>2, <2>4, <2>6, <2>7 DEF BucketOK
  <2>9. Range(dr'[p].buf) \subseteq 1..written
    BY <2>1, <2>2, <2>4 DEF s, LogDrainInv, QueueInv, KnownInv
  <2>10. \A body \in net' : /\ Range(body) \subseteq 1..written /\ Range(body) \cap unfit = {}
                            /\ InOrder(body)
    BY <1>1, NetIs DEF LogDrainInv
  <2> QED
    BY <1>1, <1>2, <2>2, <2>4, <2>5, <2>8, <2>9, <2>10, FilesStay
<1> QED
  BY <1>3, <1>4

\* The steps between reading a bucket and cutting it, which change only where the
\* drain is and how many lines it will cut.
LEMMA LoopKeeps ==
  ASSUME LogTypeOK, LogDrainInv, TwoContend, NEW p \in Proc, DrainMoves(p), LockTurn(p),
         dr[p].pc \in {"next", "post", "await"}, lk[p].pc \in {"held", "kept"},
         dr'[p].pc \in {"post", "await", "cut"}, dr'[p].buf = dr[p].buf,
         dr'[p].keep = dr[p].keep,
         dr'[p].pc = "cut" =>
           /\ dr'[p].count <= Len(dr[p].buf)
           /\ \A i \in 1..dr'[p].count : dr[p].buf[i] \in Range(server) \cup setAside',
         UNCHANGED <<name, data, app, server, written, unfit, crashes, fails, excused, mates>>,
         setAside \subseteq setAside', setAside' \subseteq unfit,
         net' \subseteq Seq(Line),
         \A body \in net' : /\ Range(body) \subseteq 1..written /\ Range(body) \cap unfit = {}
                            /\ InOrder(body)
  PROVE  LogTypeOK' /\ LogDrainInv'
<1>1. /\ dr[p].keep = <<>> /\ name["draining"] # 0
      /\ Mirrors(dr[p].buf, data[name["draining"]])
  BY DEF LogDrainInv, QueueInv, BucketInv, BucketOK
<1>2. Mirrors(dr[p].buf, data[name["draining"]])'
  BY <1>1 DEF Mirrors
<1>3. BucketOK(dr[p])'
  BY <1>1, <1>2 DEF BucketOK
<1>4. Range(dr'[p].buf) \subseteq 1..written /\ fails' \in 0..MaxFails
  BY HeldKnown DEF LogDrainInv, LogTypeOK, QueueTypeOK
<1> QED
  BY <1>3, <1>4, FilesStay

\* The next chunk waits for the renewal of the lock.
LEMMA NextKeeps ==
  ASSUME LogTypeOK, LogDrainInv, TwoContend, NEW p \in Proc, NextChunk(p)
  PROVE  LogTypeOK' /\ LogDrainInv'
<1>1. /\ dr[p].pc = "next" /\ dr' = [dr EXCEPT ![p].pc = "post"] /\ Keeping(p)
      /\ UNCHANGED <<name, data, app, net, server, setAside, written, unfit, crashes, fails,
                     excused, mates>>
  BY DEF NextChunk, Runs
<1>2. /\ DrainMoves(p) /\ dr'[p].pc = "post"
      /\ dr'[p].buf = dr[p].buf /\ dr'[p].keep = dr[p].keep
  BY <1>1, DrainGoes DEF LogTypeOK
<1>3. LockTurn(p) /\ lk[p].pc = "held"
  BY <1>1, <1>2 DEF LockTurn, Keeping, LogDrainInv, SessionInv
<1>4. net' \subseteq Seq(Line) /\ setAside' \subseteq unfit
  BY <1>1 DEF LogTypeOK, QueueTypeOK, LogDrainInv, QueueInv, EveryLineAccounted
<1>5. \A body \in net' : /\ Range(body) \subseteq 1..written /\ Range(body) \cap unfit = {}
                         /\ InOrder(body)
  BY <1>1, NetIs DEF LogDrainInv
<1> QED
  BY <1>1, <1>2, <1>3, <1>4, <1>5, LoopKeeps

\* A body is the fit head of the bucket, in the order of the file.
LEMMA PostKeeps ==
  ASSUME LogTypeOK, LogDrainInv, TwoContend, NEW p \in Proc, PostChunk(p)
  PROVE  LogTypeOK' /\ LogDrainInv'
<1> DEFINE buf == dr[p].buf
           chunk == ChunkOf(buf)
           s == data[name["draining"]]
<1>1. /\ dr[p].pc = "post" /\ lk[p].pc = "kept" /\ dr' = [dr EXCEPT ![p].pc = "await"]
      /\ GoOn(p) /\ net' = net \cup {chunk}
      /\ UNCHANGED <<name, data, app, server, setAside, written, unfit, crashes, fails,
                     excused, mates>>
  BY DEF PostChunk, Runs, Kept
<1>2. /\ DrainMoves(p) /\ dr'[p].pc = "await"
      /\ dr'[p].buf = dr[p].buf /\ dr'[p].keep = dr[p].keep
  BY <1>1, DrainGoes DEF LogTypeOK
<1>3. LockTurn(p)
  BY <1>1, <1>2 DEF LockTurn, GoOn
<1>4. buf \in Seq(Line) /\ name["draining"] # 0 /\ Mirrors(buf, s)
  BY <1>1 DEF LogTypeOK, QueueTypeOK, DrainState, LogDrainInv, QueueInv, BucketInv, BucketOK
<1>5. s \in Seq(Line) /\ InOrder(s)
  BY <1>4 DEF LogTypeOK, QueueTypeOK, Bucket, LogDrainInv, QueueInv, OrderInv
<1>6. PICK n \in 0..Len(buf) :
        /\ chunk \in Seq(Line) /\ Len(chunk) = n
        /\ \A i \in 1..n : chunk[i] = buf[i] /\ buf[i] \notin unfit
  <2> HIDE DEF buf
  <2> QED
    BY <1>4, ChunkIs
<1>7. Range(buf) \subseteq 1..written
  BY HeldKnown DEF LogDrainInv
<1> HIDE DEF buf, chunk, s
<1>8. Range(chunk) \subseteq 1..written /\ Range(chunk) \cap unfit = {}
  <2>1. \A x \in Range(chunk) : \E i \in 1..n : x = buf[i] /\ buf[i] \notin unfit
    BY <1>6 DEF Range
  <2>2. \A i \in 1..n : buf[i] \in Range(buf)
    BY <1>4, <1>6 DEF Range
  <2> QED
    BY <1>7, <2>1, <2>2
<1>9. InOrder(chunk)
  <2>1. Len(chunk) <= Len(s) /\ \A i \in 1..Len(chunk) : chunk[i] = s[i]
    BY <1>4, <1>5, <1>6 DEF Mirrors
  <2> QED
    BY <1>5, <1>6, <2>1, HeadInOrder
<1>10. net' \subseteq Seq(Line) /\ setAside' \subseteq unfit
  BY <1>1, <1>6 DEF LogTypeOK, QueueTypeOK, LogDrainInv, QueueInv, EveryLineAccounted
<1>11. \A body \in net' : /\ Range(body) \subseteq 1..written /\ Range(body) \cap unfit = {}
                          /\ InOrder(body)
  BY <1>1, <1>8, <1>9, NetIs DEF LogDrainInv
<1> QED
  BY <1>1, <1>2, <1>3, <1>10, <1>11, LoopKeeps

\* What an answer acknowledges is on the server and is cut off next.
LEMMA AcknowledgedKeeps ==
  ASSUME LogTypeOK, LogDrainInv, TwoContend, NEW p \in Proc, PostAcknowledged(p)
  PROVE  LogTypeOK' /\ LogDrainInv'
<1> DEFINE buf == dr[p].buf
           chunk == ChunkOf(buf)
           r == [dr[p] EXCEPT !.pc = "cut", !.count = Len(chunk)]
<1>1. /\ dr[p].pc = "await" /\ Range(chunk) \subseteq Range(server)
      /\ dr' = [dr EXCEPT ![p] = r]
      /\ UNCHANGED <<lockVars, name, data, app, net, server, setAside, written, unfit,
                     crashes, fails, excused, mates>>
  BY DEF PostAcknowledged, Runs
<1>2. buf \in Seq(Line) /\ dr[p] \in DrainState
  BY DEF LogTypeOK, QueueTypeOK, DrainState
<1>3. PICK n \in 0..Len(buf) :
        /\ chunk \in Seq(Line) /\ Len(chunk) = n
        /\ \A i \in 1..n : chunk[i] = buf[i] /\ buf[i] \notin unfit
  <2> HIDE DEF buf
  <2> QED
    BY <1>2, ChunkIs
<1>3a. n \in Nat /\ n <= Len(buf)
  BY <1>2, <1>3
<1> HIDE DEF chunk
<1>4. /\ r \in DrainState /\ r.pc = "cut" /\ r.count = n /\ r.buf = dr[p].buf
      /\ r.keep = dr[p].keep
  BY <1>2, <1>3, <1>3a DEF DrainState
<1> HIDE DEF r
<1>5. DrainMoves(p) /\ dr'[p] = r
  BY <1>1, <1>4, PutDrain DEF LogTypeOK
<1>6. LockTurn(p) /\ lk[p].pc = "held"
  BY <1>1, <1>4, <1>5 DEF LockTurn, lockVars, LogDrainInv, SessionInv
<1>7. \A i \in 1..n : buf[i] \in Range(server)
  <2>1. \A i \in 1..n : chunk[i] \in Range(chunk)
    BY <1>3 DEF Range
  <2> QED
    BY <1>1, <1>3, <2>1
<1>8. net' \subseteq Seq(Line) /\ setAside' \subseteq unfit
  BY <1>1 DEF LogTypeOK, QueueTypeOK, LogDrainInv, QueueInv, EveryLineAccounted
<1>9. \A body \in net' : /\ Range(body) \subseteq 1..written /\ Range(body) \cap unfit = {}
                         /\ InOrder(body)
  BY <1>1, NetIs DEF LogDrainInv
<1> QED
  BY <1>1, <1>4, <1>5, <1>6, <1>7, <1>8, <1>9, <1>3a, LoopKeeps

\* An unfit head is set aside and cut off next, or the drain ends.
LEMMA SetAsideKeeps ==
  ASSUME LogTypeOK, LogDrainInv, TwoContend, NEW p \in Proc, SetAside(p)
  PROVE  LogTypeOK' /\ LogDrainInv'
<1> DEFINE buf == dr[p].buf
           r == [dr[p] EXCEPT !.pc = "cut", !.count = 1]
<1>1. /\ dr[p].pc = "next" /\ buf # <<>> /\ Head(buf) \in unfit
      /\ UNCHANGED <<name, data, app, net, server, written, unfit, crashes, excused, mates>>
  BY DEF SetAside, Runs
<1>2. dr[p] \in DrainState /\ buf \in Seq(Line) /\ lk[p].pc = "held"
  BY <1>1 DEF LogTypeOK, QueueTypeOK, DrainState, LogDrainInv, SessionInv
<1>3. net' \subseteq Seq(Line) /\ setAside \subseteq unfit
  BY <1>1 DEF LogTypeOK, QueueTypeOK, LogDrainInv, QueueInv, EveryLineAccounted
<1>4. \A body \in net' : /\ Range(body) \subseteq 1..written /\ Range(body) \cap unfit = {}
                         /\ InOrder(body)
  BY <1>1, NetIs DEF LogDrainInv
<1>5. CASE /\ setAside' = setAside \cup {Head(buf)} /\ dr' = [dr EXCEPT ![p] = r]
           /\ UNCHANGED <<lockVars, fails>>
  <2>1. /\ r \in DrainState /\ r.pc = "cut" /\ r.count = 1 /\ r.buf = dr[p].buf
        /\ r.keep = dr[p].keep
    BY <1>2 DEF DrainState
  <2> HIDE DEF r
  <2>2. DrainMoves(p) /\ dr'[p] = r
    BY <1>5, <2>1, PutDrain DEF LogTypeOK
  <2>3. LockTurn(p)
    BY <1>2, <1>5, <2>1, <2>2 DEF LockTurn, lockVars
  <2>4. 1 <= Len(buf) /\ buf[1] = Head(buf)
    BY <1>1, <1>2
  <2>5. setAside' \subseteq unfit /\ \A i \in 1..1 : buf[i] \in setAside'
    BY <1>1, <1>3, <1>5, <2>4
  <2>6. UNCHANGED fails /\ setAside \subseteq setAside'
    BY <1>5
  <2> QED
    BY <1>1, <1>2, <1>3, <1>4, <2>1, <2>2, <2>3, <2>4, <2>5, <2>6, LoopKeeps
<1>6. CASE fails < MaxFails /\ fails' = fails + 1 /\ EndDrain(p) /\ UNCHANGED setAside
  <2>1. fails' \in 0..MaxFails
    BY <1>6, LogDrainAssumption DEF LogTypeOK, QueueTypeOK
  <2> QED
    BY <1>1, <1>2, <1>6, <2>1, EndingKeeps
<1> QED
  BY <1>5, <1>6 DEF SetAside

\* A bucket with nothing left to post holds only lines that were given up.
LEMMA DoneKeeps ==
  ASSUME LogTypeOK, LogDrainInv, TwoContend, NEW p \in Proc, BucketDone(p)
  PROVE  LogTypeOK' /\ LogDrainInv'
<1>1. /\ dr[p].pc = "next" /\ dr[p].buf = <<>> /\ dr' = [dr EXCEPT ![p].pc = "unlink"]
      /\ UNCHANGED <<lockVars, name, data, app, net, server, setAside, written, unfit,
                     crashes, fails, excused, mates>>
  BY DEF BucketDone, Runs
<1>2. /\ DrainMoves(p) /\ dr'[p].pc = "unlink"
      /\ dr'[p].buf = dr[p].buf /\ dr'[p].keep = dr[p].keep
  BY <1>1, DrainGoes DEF LogTypeOK
<1>3. LockTurn(p) /\ lk[p].pc = "held"
  BY <1>1, <1>2 DEF LockTurn, lockVars, LogDrainInv, SessionInv
<1>4. /\ dr[p].keep = <<>> /\ name["draining"] # 0
      /\ Mirrors(<<>>, data[name["draining"]])
  BY <1>1 DEF LogDrainInv, QueueInv, BucketInv, BucketOK
<1>5. EventsOf(name["draining"]) \subseteq excused
  <2>1. data[name["draining"]] \in Seq(Line)
    BY <1>4 DEF LogTypeOK, QueueTypeOK, Bucket
  <2>2. \A i \in 1..Len(data[name["draining"]]) : data[name["draining"]][i] \in excused
    BY <1>4, EmptySeq DEF Mirrors
  <2> QED
    BY <1>4, <2>1, <2>2 DEF EventsOf, Range
<1>6. BucketOK(dr[p])'
  BY <1>1, <1>2, <1>4, <1>5 DEF BucketOK, EventsOf
<1>7. /\ Range(dr'[p].buf) \subseteq 1..written /\ fails' \in 0..MaxFails
      /\ net' \subseteq Seq(Line) /\ setAside' \subseteq unfit
  BY <1>1, <1>2, HeldKnown
  DEF LogTypeOK, QueueTypeOK, LogDrainInv, QueueInv, EveryLineAccounted
<1>8. \A body \in net' : /\ Range(body) \subseteq 1..written /\ Range(body) \cap unfit = {}
                         /\ InOrder(body)
  BY <1>1, NetIs DEF LogDrainInv
<1> QED
  BY <1>1, <1>2, <1>3, <1>6, <1>7, <1>8, FilesStay

\* A failed POST ends the drain and leaves the bucket as it is.
LEMMA FailsKeeps ==
  ASSUME LogTypeOK, LogDrainInv, TwoContend, NEW p \in Proc, PostFails(p)
  PROVE  LogTypeOK' /\ LogDrainInv'
<1>1. dr[p].pc = "await" /\ lk[p].pc = "held"
  BY DEF PostFails, Runs, LogDrainInv, SessionInv
<1>2. fails' \in 0..MaxFails /\ net' \subseteq net
  BY LogDrainAssumption DEF PostFails, LogTypeOK, QueueTypeOK
<1> QED
  BY <1>1, <1>2, EndingKeeps DEF PostFails

\* The types of what a step of a drain that changes files leaves alone.
LEMMA FilesType ==
  ASSUME LogTypeOK, NEW p \in Proc, DrainMoves(p),
         UNCHANGED <<app, net, server, setAside, written, unfit, crashes, fails, excused, mates>>,
         name' \in [Bucket -> Inode \cup {0}], data' \in [Inode -> Seq(Line)]
  PROVE  QueueTypeOK'
BY DEF LogTypeOK, QueueTypeOK, DrainMoves

\* A drain that claims takes a file from one name to another.
LEMMA ClaimingKeeps ==
  ASSUME LogTypeOK, LogDrainInv, TwoContend, NEW p \in Proc, ClaimBucket(p)
  PROVE  LogTypeOK' /\ LogDrainInv'
<1> DEFINE stage == dr[p].stage
<1>1. /\ dr[p].pc = "claim" /\ lk[p].pc = "kept"
      /\ UNCHANGED <<app, net, server, setAside, written, unfit, crashes, fails, excused, mates>>
  BY DEF ClaimBucket, Runs, Kept
<1>2. name["draining"] = 0 /\ stage \in {"backup", "live"} /\ dr[p].keep = <<>>
  BY <1>1 DEF LogDrainInv, QueueInv, BucketInv, BucketOK, LogTypeOK, QueueTypeOK, DrainState
<1>3. /\ fails' \in 0..MaxFails /\ net' \subseteq Seq(Line) /\ setAside' \subseteq unfit
  BY <1>1 DEF LogTypeOK, QueueTypeOK, LogDrainInv, QueueInv, EveryLineAccounted
<1>4. \A body \in net' : /\ Range(body) \subseteq 1..written /\ Range(body) \cap unfit = {}
                         /\ InOrder(body)
  BY <1>1, NetIs DEF LogDrainInv
<1>5. CASE name[stage] = 0 /\ EndDrain(p) /\ UNCHANGED <<name, data>>
  BY <1>1, <1>3, <1>5, EndingKeeps
<1>6. CASE name[stage] = 0 /\ NextStage(p, "live") /\ UNCHANGED <<name, data>>
  <2>1. /\ DrainMoves(p) /\ dr'[p].pc = "claim" /\ dr'[p].stage = "live"
        /\ dr'[p].buf = <<>> /\ dr'[p].keep = <<>> /\ LockTurn(p)
    BY <1>6, NextStageIs DEF LockTurn, LogTypeOK
  <2>2. BucketOK(dr[p])'
    BY <1>2, <1>6, <2>1 DEF BucketOK
  <2>3. Range(dr'[p].buf) \subseteq 1..written
    BY <2>1, EmptyFile
  <2> QED
    BY <1>1, <1>3, <1>4, <1>6, <2>1, <2>2, <2>3, FilesStay
<1>7. CASE /\ name[stage] # 0
           /\ name' = [name EXCEPT ![stage] = 0, !["draining"] = name[stage]]
           /\ data' = Dropped(name["draining"])
           /\ dr' = [dr EXCEPT ![p].pc = "read"]
           /\ GoOn(p)
  <2>1. /\ DrainMoves(p) /\ dr'[p].pc = "read"
        /\ dr'[p].buf = dr[p].buf /\ dr'[p].keep = dr[p].keep /\ LockTurn(p)
    BY <1>7, DrainGoes DEF LogTypeOK, LockTurn, GoOn
  <2>2. name \in [Bucket -> Inode \cup {0}] /\ stage \in Bucket \ {"draining"}
    BY <1>2 DEF LogTypeOK, QueueTypeOK, Bucket
  <2>3. /\ name' \in [Bucket -> Inode \cup {0}]
        /\ name'["draining"] = name[stage] /\ name'[stage] = 0
        /\ \A b \in Bucket \ {"draining", stage} : name'[b] = name[b]
    BY <1>7, <2>2 DEF Bucket
  <2>4. data' = data
    BY <1>2, <1>7 DEF Dropped
  <2>5. \A b, c \in Bucket : name'[b] # 0 /\ name'[b] = name'[c] => b = c
    BY <1>2, <2>2, <2>3 DEF LogDrainInv, QueueInv, NamesInv
  <2>6. BucketOK(dr[p])'
    BY <1>2, <2>1 DEF BucketOK
  <2>7. \A e \in 1..written : e \in InTransit => e \in InTransit'
    <3> SUFFICES ASSUME NEW e, e \in InTransit PROVE e \in InTransit'
      OBVIOUS
    <3>1. CASE \E b \in Bucket : e \in EventsOf(name[b])
      <4>1. PICK b \in Bucket : e \in EventsOf(name[b])
        BY <3>1
      <4>2. \E c \in Bucket : name'[c] = name[b]
        BY <1>2, <2>2, <2>3, <4>1 DEF EventsOf, Bucket
      <4>3. \E c \in Bucket : e \in EventsOf(name[c])'
        BY <2>4, <4>1, <4>2 DEF EventsOf
      <4> QED
        BY <4>3 DEF InTransit
    <3>2. CASE \E q \in Proc : e \in Range(dr[q].keep)
      <4>1. \E q \in Proc : e \in Range(dr'[q].keep)
        BY <2>1, <3>2 DEF DrainMoves
      <4> QED
        BY <4>1 DEF InTransit
    <3> QED
      BY <3>1, <3>2, InTransitIs
  <2>8. Range(dr'[p].buf) \subseteq 1..written
    BY <2>1, HeldKnown DEF LogDrainInv
  <2>9. Range(dr'[p].keep) \subseteq 1..written /\ InOrder(dr'[p].keep)
    BY <1>2, <2>1, EmptyFile
  <2>10. Alone(p)
    BY <1>1, OneSession DEF LogDrainInv
  <2>11. QueueInv'
    BY <1>1, <1>3, <1>4, <2>1, <2>4, <2>5, <2>6, <2>7, <2>8, <2>9, <2>10, DrainKeeps
    DEF LogTypeOK, LogDrainInv
  <2>12. QueueTypeOK'
    BY <1>1, <2>1, <2>3, <2>4, FilesType DEF LogTypeOK, QueueTypeOK
  <2>13. DrainLockTypeOK' /\ DrainLockInv' /\ SessionInv'
    BY <1>1, <2>1, TurnKeeps DEF LogTypeOK, LogDrainInv
  <2> QED
    BY <2>11, <2>12, <2>13 DEF LogTypeOK, LogDrainInv
<1> QED
  BY <1>5, <1>6, <1>7 DEF ClaimBucket

\* What follows the first c elements of a sequence.
LEMMA RestIs ==
  ASSUME NEW T, NEW s \in Seq(T), NEW c \in Nat
  PROVE  LET r == SubSeq(s, c + 1, Len(s))
         IN /\ r \in Seq(T) /\ Len(r) = IF c < Len(s) THEN Len(s) - c ELSE 0
            /\ \A i \in 1..Len(r) : c + i \in 1..Len(s) /\ r[i] = s[c + i]
<1>1. Len(s) \in Nat /\ c + 1 \in Int /\ Len(s) \in Int /\ \A i \in (c + 1)..Len(s) : s[i] \in T
  OBVIOUS
<1> DEFINE r == SubSeq(s, c + 1, Len(s))
<1>2. /\ r \in Seq(T) /\ Len(r) = IF c + 1 <= Len(s) THEN Len(s) - (c + 1) + 1 ELSE 0
      /\ \A i \in 1..(Len(s) - (c + 1) + 1) : r[i] = s[(c + 1) + i - 1]
  BY <1>1, SubSeqProperties
<1> HIDE DEF r
<1>3. Len(r) = IF c < Len(s) THEN Len(s) - c ELSE 0
  BY <1>1, <1>2
<1>4. ASSUME NEW i \in 1..Len(r) PROVE c + i \in 1..Len(s) /\ r[i] = s[c + i]
  <2>1. i \in 1..(Len(s) - (c + 1) + 1) /\ (c + 1) + i - 1 = c + i /\ c + i \in 1..Len(s)
    BY <1>1, <1>3
  <2> QED
    BY <1>2, <2>1
<1> QED
  BY <1>2, <1>3, <1>4 DEF r

\* The head of a bucket that is cut off has been stored or set aside, so what is left
\* is in order.
LEMMA RestInOrder ==
  ASSUME NEW s \in Seq(Line), NEW c \in Nat, InOrder(s),
         \A i \in 1..Len(s) : i <= c => s[i] \in Range(server) \cup unfit
  PROVE  InOrder(SubSeq(s, c + 1, Len(s)))
<1> DEFINE r == SubSeq(s, c + 1, Len(s))
<1>1. /\ Len(r) = IF c < Len(s) THEN Len(s) - c ELSE 0
      /\ \A i \in 1..Len(r) : c + i \in 1..Len(s) /\ r[i] = s[c + i]
  BY RestIs
<1> HIDE DEF r
<1> SUFFICES ASSUME NEW m \in mates, NEW j \in 1..Len(r), r[j] = m[2],
                    m[1] \notin Range(server) \cup unfit \cup excused
             PROVE  \E i \in 1..(j - 1) : r[i] = m[1]
  BY DEF InOrder, r
<1>2. c + j \in 1..Len(s) /\ s[c + j] = m[2]
  BY <1>1
<1>3. PICK k \in 1..((c + j) - 1) : s[k] = m[1]
  BY <1>2 DEF InOrder
<1>4. c < k /\ k \in 1..Len(s) /\ Len(s) \in Nat
  BY <1>2, <1>3
<1>5. k - c \in 1..(j - 1) /\ k - c \in 1..Len(r)
  BY <1>1, <1>3, <1>4
<1>6. c + (k - c) = k
  BY <1>4
<1>7. r[k - c] = m[1]
  BY <1>1, <1>3, <1>5, <1>6
<1> QED
  BY <1>5, <1>7

\* Cutting the same number of lines off both keeps the mirror.
LEMMA RestMirrors ==
  ASSUME NEW buf \in Seq(Line), NEW s \in Seq(Line), NEW c \in Nat, c <= Len(buf),
         Mirrors(buf, s)
  PROVE  Mirrors(SubSeq(buf, c + 1, Len(buf)), SubSeq(s, c + 1, Len(s)))
<1> DEFINE b == SubSeq(buf, c + 1, Len(buf))
           r == SubSeq(s, c + 1, Len(s))
<1>1. /\ Len(b) = IF c < Len(buf) THEN Len(buf) - c ELSE 0
      /\ \A i \in 1..Len(b) : c + i \in 1..Len(buf) /\ b[i] = buf[c + i]
  BY RestIs
<1>2. /\ Len(r) = IF c < Len(s) THEN Len(s) - c ELSE 0
      /\ \A i \in 1..Len(r) : c + i \in 1..Len(s) /\ r[i] = s[c + i]
  BY RestIs
<1> HIDE DEF b, r
<1>3. Len(buf) \in Nat /\ Len(s) \in Nat /\ Len(buf) <= Len(s)
  BY DEF Mirrors
<1>4. Len(b) = Len(buf) - c /\ Len(r) = Len(s) - c /\ Len(b) <= Len(r)
  BY <1>1, <1>2, <1>3
<1>5. ASSUME NEW i \in 1..Len(b) PROVE r[i] = b[i]
  <2>1. i \in 1..Len(r)
    BY <1>3, <1>4
  <2>2. r[i] = s[c + i] /\ b[i] = buf[c + i] /\ c + i \in 1..Len(buf)
    BY <1>1, <1>2, <2>1
  <2>3. s[c + i] = buf[c + i]
    BY <2>2 DEF Mirrors
  <2> QED
    BY <2>2, <2>3
<1>6. ASSUME NEW i \in (Len(b) + 1)..Len(r) PROVE r[i] \in excused
  <2>1. i \in 1..Len(r) /\ c + i \in (Len(buf) + 1)..Len(s)
    BY <1>3, <1>4
  <2> QED
    BY <1>2, <2>1 DEF Mirrors
<1>7. Mirrors(b, r)
  BY <1>4, <1>5, <1>6 DEF Mirrors
<1> QED
  BY <1>7 DEF b, r

\* The truncation of removeQueueHead: what is cut off is stored or set aside, and the rest
\* is in keep.
LEMMA TruncateKeeps ==
  ASSUME LogTypeOK, LogDrainInv, TwoContend, NEW p \in Proc, CutTruncate(p)
  PROVE  LogTypeOK' /\ LogDrainInv'
<1> DEFINE ino == name["draining"]
           s == data[ino]
           buf == dr[p].buf
           c == dr[p].count
           keep == SubSeq(s, c + 1, Len(s))
           left == SubSeq(buf, c + 1, Len(buf))
           r == [dr[p] EXCEPT !.pc = "rewrite", !.ino = ino, !.keep = keep, !.buf = left,
                              !.count = 0]
<1>1. /\ dr[p].pc = "cut" /\ lk[p].pc = "held"
      /\ UNCHANGED <<name, app, net, server, setAside, written, unfit, crashes, fails, excused,
                     mates>>
  BY DEF CutTruncate, Runs, LogDrainInv, SessionInv
<1>2. /\ ino # 0 /\ Mirrors(buf, s) /\ c <= Len(buf) /\ dr[p].keep = <<>>
      /\ \A i \in 1..c : buf[i] \in Range(server) \cup setAside
  BY <1>1 DEF LogDrainInv, QueueInv, BucketInv, BucketOK
<1>3. /\ ino \in Inode /\ s \in Seq(Line) /\ buf \in Seq(Line) /\ c \in Nat
      /\ dr[p] \in DrainState
  BY <1>2 DEF LogTypeOK, QueueTypeOK, DrainState, Bucket
<1>4. /\ dr' = [dr EXCEPT ![p] = r] /\ data' = [data EXCEPT ![ino] = <<>>]
      /\ UNCHANGED lockVars
  BY <1>2 DEF CutTruncate
<1>5. keep \in Seq(Line) /\ left \in Seq(Line)
  <2> HIDE DEF s, buf, c
  <2> QED
    BY <1>3, RestIs
<1>6. Mirrors(left, keep)
  <2> HIDE DEF s, buf, c
  <2> QED
    BY <1>2, <1>3, RestMirrors
<1>7. setAside \subseteq unfit
  BY DEF LogDrainInv, QueueInv, EveryLineAccounted
<1>8. Len(s) \in Nat /\ Len(buf) \in Nat
      /\ \A i \in 1..Len(s) : i <= c => s[i] \in Range(server) \cup setAside
  <2> HIDE DEF s, buf, c
  <2>1. Len(s) \in Nat /\ Len(buf) \in Nat /\ Len(buf) <= Len(s)
    BY <1>2, <1>3 DEF Mirrors
  <2>2. ASSUME NEW i \in 1..Len(s), i <= c PROVE s[i] \in Range(server) \cup setAside
    <3>1. i \in 1..c /\ i \in 1..Len(buf)
      BY <1>2, <1>3, <2>1, <2>2
    <3> QED
      BY <1>2, <3>1 DEF Mirrors
  <2> QED
    BY <2>1, <2>2
<1>9. InOrder(keep)
  <2>1. InOrder(s)
    BY <1>3 DEF LogDrainInv, QueueInv, OrderInv
  <2> HIDE DEF s, c
  <2> QED
    BY <1>3, <1>7, <1>8, <2>1, RestInOrder
<1>10. /\ r \in DrainState /\ r.pc = "rewrite" /\ r.ino = ino /\ r.keep = keep /\ r.buf = left
  <2> HIDE DEF keep, left
  <2> QED
    BY <1>3, <1>5 DEF DrainState
<1>11. DrainMoves(p) /\ dr'[p] = r
  <2> HIDE DEF r
  <2> QED
    BY <1>4, <1>10, PutDrain DEF LogTypeOK
<1>12. /\ data' \in [Inode -> Seq(Line)] /\ data'[ino] = <<>>
       /\ \A i \in Inode \ {ino} : data'[i] = data[i]
  BY <1>3, <1>4, EmptySeq DEF LogTypeOK, QueueTypeOK
<1>13. LockTurn(p)
  <2> HIDE DEF r
  <2> QED
    BY <1>1, <1>4, <1>10, <1>11 DEF LockTurn, lockVars
<1>14. /\ \A e \in Range(s) : e \in Range(keep) \cup Range(server) \cup setAside
       /\ Range(keep) \subseteq Range(s) /\ Range(left) \subseteq Range(buf)
  <2> HIDE DEF s, buf, c
  <2>1. /\ Len(keep) = IF c < Len(s) THEN Len(s) - c ELSE 0
        /\ \A i \in 1..Len(keep) : c + i \in 1..Len(s) /\ keep[i] = s[c + i]
    BY <1>3, RestIs
  <2>2. \A i \in 1..Len(left) : c + i \in 1..Len(buf) /\ left[i] = buf[c + i]
    BY <1>3, RestIs
  <2> HIDE DEF keep, left
  <2>3. ASSUME NEW k \in 1..Len(s), c < k PROVE s[k] \in Range(keep)
    <3>1. k - c \in 1..Len(keep) /\ c + (k - c) = k
      BY <1>3, <1>8, <2>1, <2>3
    <3>2. keep[k - c] = s[k]
      BY <2>1, <3>1
    <3> QED
      BY <1>5, <3>1, <3>2 DEF Range
  <2>4. ASSUME NEW e \in Range(s) PROVE e \in Range(keep) \cup Range(server) \cup setAside
    <3>1. PICK k \in 1..Len(s) : s[k] = e
      BY <1>3 DEF Range
    <3>2. k <= c \/ c < k
      BY <1>3
    <3> QED
      BY <1>8, <2>3, <3>1, <3>2
  <2>5. Range(keep) \subseteq Range(s)
    BY <1>3, <1>5, <2>1 DEF Range
  <2>6. Range(left) \subseteq Range(buf)
    BY <1>3, <1>5, <2>2 DEF Range
  <2> QED
    BY <2>4, <2>5, <2>6
<1> HIDE DEF s, buf, c, keep, left, r
<1>15. BucketOK(dr[p])'
  <2>1. dr'[p].pc = "rewrite" /\ dr'[p].ino = name'["draining"]
    BY <1>1, <1>10, <1>11
  <2>2. Mirrors(dr[p].buf, dr[p].keep)'
    BY <1>1, <1>6, <1>10, <1>11 DEF Mirrors
  <2>3. EventsOf(name["draining"])' \subseteq excused'
    BY <1>1, <1>12, EmptyFile DEF EventsOf
  <2>4. name'["draining"] # 0
    BY <1>1, <1>2
  <2> QED
    BY <2>1, <2>2, <2>3, <2>4 DEF BucketOK
<1>16. Range(keep) \subseteq 1..written /\ Range(left) \subseteq 1..written
  <2>1. Range(s) \subseteq 1..written /\ Range(buf) \subseteq 1..written
    BY <1>3 DEF s, buf, LogDrainInv, QueueInv, KnownInv
  <2> QED
    BY <1>14, <2>1
<1>17. \A e \in 1..written :
         e \in InTransit => e \in InTransit' \cup Range(server) \cup setAside' \cup excused
  <2> SUFFICES ASSUME NEW e, e \in InTransit
               PROVE  e \in InTransit' \cup Range(server) \cup setAside
    BY <1>1
  <2>1. CASE e \in EventsOf(ino)
    <3>1. e \in Range(keep) \cup Range(server) \cup setAside
      BY <1>2, <1>14, <2>1 DEF EventsOf, s
    <3>2. e \in Range(keep) => e \in InTransit'
      BY <1>10, <1>11 DEF InTransit
    <3> QED
      BY <3>1, <3>2
  <2>2. ASSUME NEW b \in Bucket, e \in EventsOf(name[b]), e \notin EventsOf(ino)
        PROVE  e \in InTransit'
    <3>1. name[b] # ino /\ name[b] # 0 /\ name[b] \in Inode
      BY <2>2 DEF EventsOf, LogTypeOK, QueueTypeOK
    <3>2. e \in EventsOf(name[b])'
      BY <1>1, <1>12, <2>2, <3>1 DEF EventsOf
    <3> QED
      BY <3>2 DEF InTransit
  <2>3. ASSUME NEW q \in Proc, e \in Range(dr[q].keep) PROVE e \in InTransit'
    <3>1. q # p
      BY <1>2, <2>3, EmptyFile
    <3>2. e \in Range(dr'[q].keep)
      BY <1>11, <2>3, <3>1 DEF DrainMoves
    <3> QED
      BY <3>2 DEF InTransit
  <2> QED
    BY <2>1, <2>2, <2>3, InTransitIs
<1>18. Alone(p)
  BY <1>1, OneSession DEF LogDrainInv
<1>19. QueueInv'
  <2>1. \A b, c1 \in Bucket : name'[b] # 0 /\ name'[b] = name'[c1] => b = c1
    BY <1>1 DEF LogDrainInv, QueueInv, NamesInv
  <2>2. \A i \in Inode : data'[i] \in {data[i], <<>>, dr[p].keep}
    BY <1>12
  <2>3. \A body \in net' : /\ Range(body) \subseteq 1..written /\ Range(body) \cap unfit = {}
                           /\ InOrder(body)
    BY <1>1, NetIs DEF LogDrainInv
  <2> QED
    BY <1>1, <1>7, <1>9, <1>10, <1>11, <1>15, <1>16, <1>17, <1>18, <2>1, <2>2, <2>3, DrainKeeps
    DEF LogTypeOK, LogDrainInv
<1>20. QueueTypeOK'
  BY <1>1, <1>11, <1>12, FilesType DEF LogTypeOK, QueueTypeOK
<1>21. DrainLockTypeOK' /\ DrainLockInv' /\ SessionInv'
  BY <1>1, <1>11, <1>13, TurnKeeps DEF LogTypeOK, LogDrainInv
<1> QED
  BY <1>19, <1>20, <1>21 DEF LogTypeOK, LogDrainInv

\* The write of removeQueueHead brings the rest back, in its order.
LEMMA RewriteKeeps ==
  ASSUME LogTypeOK, LogDrainInv, TwoContend, NEW p \in Proc, CutRewrite(p)
  PROVE  LogTypeOK' /\ LogDrainInv'
<1> DEFINE ino == name["draining"]
           keep == dr[p].keep
           r == [dr[p] EXCEPT !.pc = "next", !.ino = 0, !.keep = <<>>]
<1>1. /\ dr[p].pc = "rewrite" /\ lk[p].pc = "held"
      /\ UNCHANGED <<lockVars, name, app, net, server, setAside, written, unfit, crashes, fails,
                     excused, mates>>
  BY DEF CutRewrite, Runs, LogDrainInv, SessionInv
<1>2. /\ ino # 0 /\ dr[p].ino = ino /\ Mirrors(dr[p].buf, keep) /\ EventsOf(ino) \subseteq excused
  BY <1>1 DEF LogDrainInv, QueueInv, BucketInv, BucketOK
<1>3. ino \in Inode /\ keep \in Seq(Line) /\ dr[p] \in DrainState
  BY <1>2 DEF LogTypeOK, QueueTypeOK, DrainState, Bucket
<1>4. /\ dr' = [dr EXCEPT ![p] = r] /\ data' = [data EXCEPT ![ino] = keep]
  BY <1>2 DEF CutRewrite
<1>5. r \in DrainState /\ r.pc = "next" /\ r.keep = <<>> /\ r.buf = dr[p].buf
  BY <1>3, EmptySeq DEF DrainState
<1> HIDE DEF r
<1>6. DrainMoves(p) /\ dr'[p] = r
  BY <1>4, <1>5, PutDrain DEF LogTypeOK
<1> HIDE DEF keep
<1>7. /\ data' \in [Inode -> Seq(Line)] /\ data'[ino] = keep
      /\ \A i \in Inode \ {ino} : data'[i] = data[i]
  BY <1>3, <1>4 DEF LogTypeOK, QueueTypeOK
<1>8. LockTurn(p)
  BY <1>1, <1>5, <1>6 DEF LockTurn, lockVars
<1>9. BucketOK(dr[p])'
  <2>1. Mirrors(dr[p].buf, data[name["draining"]])'
    BY <1>1, <1>2, <1>5, <1>6, <1>7 DEF Mirrors
  <2> QED
    BY <1>1, <1>2, <1>5, <1>6, <2>1 DEF BucketOK
<1>10. \A e \in 1..written :
         e \in InTransit => e \in InTransit' \cup Range(server) \cup setAside' \cup excused
  <2> SUFFICES ASSUME NEW e, e \in InTransit PROVE e \in InTransit' \cup excused
    OBVIOUS
  <2>1. ASSUME NEW b \in Bucket, e \in EventsOf(name[b]), name[b] # ino PROVE e \in InTransit'
    <3>1. name[b] # 0 /\ name[b] \in Inode
      BY <2>1 DEF EventsOf, LogTypeOK, QueueTypeOK
    <3>2. e \in EventsOf(name[b])'
      BY <1>1, <1>7, <2>1, <3>1 DEF EventsOf
    <3> QED
      BY <3>2 DEF InTransit
  <2>2. ASSUME NEW q \in Proc, e \in Range(dr[q].keep) PROVE e \in InTransit'
    <3>1. CASE q = p
      <4>1. e \in EventsOf(name["draining"])'
        BY <1>1, <1>2, <1>7, <2>2, <3>1 DEF EventsOf, keep
      <4> QED
        BY <4>1 DEF InTransit, Bucket
    <3>2. CASE q # p
      <4>1. e \in Range(dr'[q].keep)
        BY <1>6, <2>2, <3>2 DEF DrainMoves
      <4> QED
        BY <4>1 DEF InTransit
    <3> QED
      BY <3>1, <3>2
  <2> QED
    BY <1>2, <2>1, <2>2, InTransitIs
<1>11. Alone(p)
  BY <1>1, OneSession DEF LogDrainInv
<1>12. QueueInv'
  <2>1. \A b, c \in Bucket : name'[b] # 0 /\ name'[b] = name'[c] => b = c
    BY <1>1 DEF LogDrainInv, QueueInv, NamesInv
  <2>2. \A i \in Inode : data'[i] \in {data[i], <<>>, dr[p].keep}
    BY <1>7 DEF keep
  <2>3. \A body \in net' : /\ Range(body) \subseteq 1..written /\ Range(body) \cap unfit = {}
                           /\ InOrder(body)
    BY <1>1, NetIs DEF LogDrainInv
  <2>4. InOrder(dr'[p].keep) /\ Range(dr'[p].keep) \subseteq 1..written
    BY <1>5, <1>6, EmptyFile
  <2>5. Range(dr'[p].buf) \subseteq 1..written
    BY <1>5, <1>6, HeldKnown DEF LogDrainInv
  <2>6. setAside' = setAside /\ setAside \subseteq unfit
    BY <1>1 DEF LogDrainInv, QueueInv, EveryLineAccounted
  <2> QED
    BY <1>1, <1>6, <1>9, <1>10, <1>11, <2>1, <2>2, <2>3, <2>4, <2>5, <2>6, DrainKeeps
    DEF LogTypeOK, LogDrainInv
<1>13. QueueTypeOK'
  BY <1>1, <1>6, <1>7, FilesType DEF LogTypeOK, QueueTypeOK
<1>14. DrainLockTypeOK' /\ DrainLockInv' /\ SessionInv'
  BY <1>1, <1>6, <1>8, TurnKeeps DEF LogTypeOK, LogDrainInv
<1> QED
  BY <1>12, <1>13, <1>14 DEF LogTypeOK, LogDrainInv

\* The unlink of a delivered bucket removes only lines that were given up.
LEMMA UnlinkKeeps ==
  ASSUME LogTypeOK, LogDrainInv, TwoContend, NEW p \in Proc, UnlinkBucket(p)
  PROVE  LogTypeOK' /\ LogDrainInv'
<1> DEFINE ino == name["draining"]
<1>1. /\ dr[p].pc = "unlink" /\ lk[p].pc = "held"
      /\ name' = [name EXCEPT !["draining"] = 0] /\ data' = Dropped(ino)
      /\ UNCHANGED <<app, net, server, setAside, written, unfit, crashes, fails, excused, mates>>
  BY DEF UnlinkBucket, Runs, LogDrainInv, SessionInv
<1>2. EventsOf(ino) \subseteq excused /\ dr[p].keep = <<>>
  BY <1>1 DEF LogDrainInv, QueueInv, BucketInv, BucketOK
<1>3. /\ name' \in [Bucket -> Inode \cup {0}] /\ name'["draining"] = 0
      /\ \A b \in Bucket \ {"draining"} : name'[b] = name[b]
  BY <1>1 DEF LogTypeOK, QueueTypeOK, Bucket
<1>4. /\ data' \in [Inode -> Seq(Line)]
      /\ \A i \in Inode : data'[i] \in {data[i], <<>>}
      /\ \A i \in Inode \ {ino} : data'[i] = data[i]
  <2>1. CASE ino = 0
    BY <1>1, <2>1 DEF Dropped, LogTypeOK, QueueTypeOK
  <2>2. CASE ino # 0
    BY <1>1, <2>2, EmptySeq DEF Dropped, LogTypeOK, QueueTypeOK
  <2> QED
    BY <2>1, <2>2
<1>5. EndDrain(p) \/ NextStage(p, "live") \/ NextStage(p, "backup")
  BY DEF UnlinkBucket
<1>6. /\ DrainMoves(p) /\ dr'[p].pc \in {"idle", "claim"}
      /\ dr'[p].pc = "claim" => dr'[p].stage # "leftover"
      /\ dr'[p].buf = <<>> /\ dr'[p].keep = <<>> /\ LockTurn(p)
  <2>1. CASE EndDrain(p)
    BY <2>1, EndDrainIs DEF LockTurn, LogTypeOK
  <2>2. ASSUME NEW stage \in {"backup", "live"}, NextStage(p, stage)
        PROVE  /\ DrainMoves(p) /\ dr'[p].pc = "claim" /\ dr'[p].stage # "leftover"
               /\ dr'[p].buf = <<>> /\ dr'[p].keep = <<>> /\ LockTurn(p)
    BY <2>2, NextStageIs DEF LockTurn, LogTypeOK
  <2> QED
    BY <1>5, <2>1, <2>2
<1>7. BucketOK(dr[p])'
  BY <1>3, <1>6 DEF BucketOK
<1>8. \A b, c \in Bucket : name'[b] # 0 /\ name'[b] = name'[c] => b = c
  BY <1>3 DEF LogDrainInv, QueueInv, NamesInv
<1>9. \A e \in 1..written :
        e \in InTransit => e \in InTransit' \cup Range(server) \cup setAside' \cup excused
  <2> SUFFICES ASSUME NEW e, e \in InTransit PROVE e \in InTransit' \cup excused
    OBVIOUS
  <2>1. ASSUME NEW b \in Bucket, e \in EventsOf(name[b]), e \notin EventsOf(ino)
        PROVE  e \in InTransit'
    <3>1. /\ name[b] # ino /\ name[b] # 0 /\ name[b] \in Inode /\ name'[b] = name[b]
      BY <1>3, <2>1 DEF EventsOf, LogTypeOK, QueueTypeOK
    <3>2. e \in EventsOf(name[b])'
      BY <1>4, <2>1, <3>1 DEF EventsOf
    <3> QED
      BY <3>2 DEF InTransit
  <2>2. ASSUME NEW q \in Proc, e \in Range(dr[q].keep) PROVE e \in InTransit'
    <3>1. e \in Range(dr'[q].keep)
      BY <1>2, <1>6, <2>2, EmptyFile DEF DrainMoves
    <3> QED
      BY <3>1 DEF InTransit
  <2> QED
    BY <1>2, <2>1, <2>2, InTransitIs
<1>10. QueueInv'
  <2>1. \A body \in net' : /\ Range(body) \subseteq 1..written /\ Range(body) \cap unfit = {}
                           /\ InOrder(body)
    BY <1>1, NetIs DEF LogDrainInv
  <2>2. /\ InOrder(dr'[p].keep) /\ Range(dr'[p].keep) \subseteq 1..written
        /\ Range(dr'[p].buf) \subseteq 1..written
    BY <1>6, EmptyFile
  <2>3. setAside' = setAside /\ setAside \subseteq unfit
    BY <1>1 DEF LogDrainInv, QueueInv, EveryLineAccounted
  <2>4. Alone(p)
    BY <1>1, OneSession DEF LogDrainInv
  <2>5. \A i \in Inode : data'[i] \in {data[i], <<>>, dr[p].keep}
    BY <1>4
  <2> QED
    BY <1>1, <1>6, <1>7, <1>8, <1>9, <2>1, <2>2, <2>3, <2>4, <2>5, DrainKeeps
    DEF LogTypeOK, LogDrainInv
<1>11. QueueTypeOK'
  BY <1>1, <1>3, <1>4, <1>6, FilesType
<1>12. DrainLockTypeOK' /\ DrainLockInv' /\ SessionInv'
  BY <1>1, <1>6, TurnKeeps DEF LogTypeOK, LogDrainInv
<1> QED
  BY <1>10, <1>11, <1>12 DEF LogTypeOK, LogDrainInv

-----------------------------------------------------------------------------
(***************************************************************************)
(* Appends.                                                                *)
(***************************************************************************)
Busy == {q \in Proc : app[q].pc # "idle"}

\* The appends under way are counted.
LEMMA BusyIs ==
  IsFiniteSet(Busy) /\ Cardinality(Busy) \in Nat
BY DrainLockAssumption, FS_Subset, FS_CardinalityType DEF Busy

\* What one append adds to that count, or takes from it.
LEMMA BusyChanges ==
  ASSUME QueueTypeOK, NEW p \in Proc, NEW r, app' = [app EXCEPT ![p] = r]
  PROVE  /\ Cardinality(Busy') \in Nat
         /\ app[p].pc = "idle" => Cardinality(Busy') <= Cardinality(Busy) + 1
         /\ app[p].pc # "idle" => Cardinality(Busy') <= Cardinality(Busy)
         /\ app[p].pc # "idle" /\ r.pc = "idle" => Cardinality(Busy') = Cardinality(Busy) - 1
<1>1. /\ app'[p] = r
      /\ \A q \in Proc \ {p} : app'[q] = app[q]
  BY DEF QueueTypeOK
<1>2. Busy' = IF r.pc = "idle" THEN Busy \ {p} ELSE Busy \cup {p}
  BY <1>1 DEF Busy
<1>3. p \in Busy <=> app[p].pc # "idle"
  BY DEF Busy
<1>4. /\ IsFiniteSet(Busy) /\ Cardinality(Busy) \in Nat
  BY BusyIs
<1>5. /\ IsFiniteSet(Busy \cup {p})
      /\ Cardinality(Busy \cup {p}) = IF p \in Busy THEN Cardinality(Busy)
                                      ELSE Cardinality(Busy) + 1
  BY <1>4, FS_AddElement
<1>6. /\ IsFiniteSet(Busy \ {p})
      /\ Cardinality(Busy \ {p}) = IF p \in Busy THEN Cardinality(Busy) - 1
                                   ELSE Cardinality(Busy)
  BY <1>4, FS_RemoveElement
<1>7. Cardinality(Busy \ {p}) \in Nat /\ Cardinality(Busy \cup {p}) \in Nat
  BY <1>5, <1>6, FS_CardinalityType
<1>8. CASE r.pc = "idle"
  <2>1. Busy' = Busy \ {p}
    BY <1>2, <1>8
  <2> QED
    BY <1>3, <1>4, <1>6, <1>7, <1>8, <2>1
<1>9. CASE r.pc # "idle"
  <2>1. Busy' = Busy \cup {p}
    BY <1>2, <1>9
  <2> QED
    BY <1>3, <1>4, <1>5, <1>7, <1>9, <2>1
<1> QED
  BY <1>8, <1>9

\* When there is no live file, an inode is free that has no name, no writer and no
\* drain.
LEMMA FreshInodeIsFree ==
  ASSUME QueueTypeOK, name["live"] = 0
  PROVE  FreshInode \in Inode /\ FreshInode \notin InUse
<1> DEFINE f == [p \in Proc |-> app[p].fd]
           g == [p \in Proc |-> dr[p].ino]
           F == {f[p] : p \in Proc}
           G == {g[p] : p \in Proc}
           two == {name["backup"], name["draining"]}
           P == Cardinality(Proc)
           used == (two \cup F) \cup G
<1>1. IsFiniteSet(Proc) /\ P \in Nat
  BY DrainLockAssumption, FS_CardinalityType
<1>2. IsFiniteSet(F) /\ Cardinality(F) <= P
  <2>1. DOMAIN f = Proc
    OBVIOUS
  <2> HIDE DEF f
  <2> QED
    BY <1>1, <2>1, ImageSize
<1>3. IsFiniteSet(G) /\ Cardinality(G) <= P
  <2>1. DOMAIN g = Proc
    OBVIOUS
  <2> HIDE DEF g
  <2> QED
    BY <1>1, <2>1, ImageSize
<1>4. IsFiniteSet(two) /\ Cardinality(two) <= 2
  <2> DEFINE a == {name["backup"]}
             b == {name["draining"]}
  <2>1. IsFiniteSet(a) /\ Cardinality(a) = 1 /\ IsFiniteSet(b) /\ Cardinality(b) = 1
    BY FS_Singleton
  <2>2. two = a \cup b
    OBVIOUS
  <2> HIDE DEF a, b, two
  <2>3. IsFiniteSet(two) /\ Cardinality(two) <= 1 + 1
    BY <2>1, <2>2, UnionSize
  <2>4. Cardinality(two) \in Nat
    BY <2>3, FS_CardinalityType
  <2> QED
    BY <2>3, <2>4
<1>5. \A i \in Inode : i \in InUse => i \in used
  <2> SUFFICES ASSUME NEW i \in Inode, i \in InUse PROVE i \in used
    OBVIOUS
  <2>1. i # 0
    BY DEF Inode
  <2>2. i \in Range(name) => i \in two
    BY <2>1 DEF Range, Bucket, QueueTypeOK
  <2>3. i \in {app[p].fd : p \in Proc} => i \in F
    OBVIOUS
  <2>4. i \in {dr[p].ino : p \in Proc} => i \in G
    OBVIOUS
  <2> QED
    BY <2>2, <2>3, <2>4 DEF InUse
<1> HIDE DEF F, G, two, P
<1>6. /\ Cardinality(F) \in Nat /\ Cardinality(G) \in Nat /\ Cardinality(two) \in Nat
  BY <1>2, <1>3, <1>4, FS_CardinalityType
<1>7. IsFiniteSet(two \cup F) /\ Cardinality(two \cup F) <= Cardinality(two) + Cardinality(F)
  BY <1>2, <1>4, UnionSize
<1>8. IsFiniteSet(used) /\ Cardinality(used) <= Cardinality(two \cup F) + Cardinality(G)
  BY <1>3, <1>7, UnionSize
<1>9. Cardinality(two \cup F) \in Nat /\ Cardinality(used) \in Nat
  BY <1>7, <1>8, FS_CardinalityType
<1>10. Cardinality(used) <= 2 + 2 * P
  BY <1>1, <1>2, <1>3, <1>4, <1>6, <1>7, <1>8, <1>9
<1>11. IsFiniteSet(Inode) /\ Cardinality(Inode) = 3 + 2 * P
  <2>1. 1 \in Int /\ 3 + 2 * P \in Int /\ ~(1 > 3 + 2 * P)
    BY <1>1
  <2>2. Inode = 1..(3 + 2 * P)
    BY DEF Inode, P
  <2>3. /\ IsFiniteSet(1..(3 + 2 * P))
        /\ Cardinality(1..(3 + 2 * P)) = (3 + 2 * P) - 1 + 1
    BY <2>1, FS_Interval
  <2> QED
    BY <1>1, <2>2, <2>3
<1> HIDE DEF used
<1>12. \E i \in Inode : i \notin used
  <2>1. Cardinality(used) < Cardinality(Inode)
    BY <1>1, <1>9, <1>10, <1>11
  <2> QED
    BY <1>8, <1>11, <2>1, ElementOutside
<1>13. \E i \in Inode : i \notin InUse
  BY <1>5, <1>12
<1> QED
  BY <1>13 DEF FreshInode

\* A file, a rewrite or a body stays in order while more is stored and given up, if
\* none of its lines is written anew.
LEMMA OrderGrows ==
  ASSUME NEW s, InOrder(s), Range(server) \subseteq Range(server'), unfit \subseteq unfit',
         excused \subseteq excused',
         \A m \in mates' \ mates : \A j \in 1..Len(s) : s[j] # m[2]
  PROVE  InOrder(s)'
BY DEF InOrder

\* A bucket that is in a drain stays as it should be while more is given up.
LEMMA BucketGrows ==
  ASSUME UNCHANGED <<dr, setAside>>, name'["draining"] = name["draining"],
         Range(server) \subseteq Range(server'),
         name["draining"] # 0 => data'[name["draining"]] = data[name["draining"]],
         excused \subseteq excused', NEW q, BucketOK(dr[q])
  PROVE  BucketOK(dr[q])'
<1>1. Mirrors(dr[q].buf, dr[q].keep) => Mirrors(dr[q].buf, dr[q].keep)'
  BY DEF Mirrors
<1>2. name["draining"] # 0 /\ Mirrors(dr[q].buf, data[name["draining"]])
        => Mirrors(dr[q].buf, data[name["draining"]])'
  BY DEF Mirrors
<1>3. EventsOf(name["draining"]) \subseteq excused => EventsOf(name["draining"])' \subseteq excused'
  BY DEF EventsOf
<1> QED
  BY <1>1, <1>2, <1>3 DEF BucketOK

\* A step that leaves the lock and the drains alone.
LEMMA LockStays ==
  ASSUME LogTypeOK, LogDrainInv, UNCHANGED lockVars, UNCHANGED dr
  PROVE  DrainLockTypeOK' /\ DrainLockInv' /\ SessionInv'
<1>1. \A q \in Proc : Owns(q)' <=> Owns(q)
  BY DEF Owns, Holds, lockVars
<1>2. FileInv(lockFile)' /\ \A q \in Proc : FileInv(lk[q].claimed)'
  BY <1>1 DEF LogDrainInv, DrainLockInv, FileInv, Live, lockVars
<1>3. StampsDiffer' /\ OwnersFile'
  BY <1>1 DEF LogDrainInv, DrainLockInv, StampsDiffer, OwnersFile, Mine, Live, lockVars
<1>4. (\A q \in Proc : lk[q].claimed # NoLock => lk[q].pc = "compare")'
  BY DEF LogDrainInv, DrainLockInv, lockVars
<1>5. DrainLockTypeOK' /\ SessionInv'
  BY DEF LogTypeOK, DrainLockTypeOK, LogDrainInv, SessionInv, lockVars
<1> QED
  BY <1>2, <1>3, <1>4, <1>5 DEF DrainLockInv

\* A step of an append that writes no line to a file: it gives files names, or gives
\* their lines up.
LEMMA RenamingKeeps ==
  ASSUME LogTypeOK, LogDrainInv, UNCHANGED lockVars,
         UNCHANGED <<dr, net, server, setAside, unfit, crashes, fails, mates>>,
         written' \in Nat, written <= written', written' + Cardinality(Busy') <= MaxEvents,
         Cardinality(Busy') \in Nat,
         app' \in [Proc -> AppendState], \A q \in Proc : app'[q].pc = "write" => app'[q].fd # 0,
         excused \subseteq excused', excused' \subseteq Line,
         \A e \in 1..written' : e \in 1..written \cup excused',
         name' \in [Bucket -> Inode \cup {0}], data' \in [Inode -> Seq(Line)],
         \A b, c \in Bucket : name'[b] # 0 /\ name'[b] = name'[c] => b = c,
         \A i \in Inode : data'[i] \in {data[i], <<>>},
         name'["draining"] = name["draining"],
         name["draining"] # 0 => data'[name["draining"]] = data[name["draining"]],
         \A b \in Bucket : \A e \in EventsOf(name[b]) :
           e \in excused' \/ \E c \in Bucket : e \in EventsOf(name[c])'
  PROVE  LogTypeOK' /\ LogDrainInv'
<1>1. KnownInv'
  <2>1. 1..written \subseteq 1..written'
    BY DEF LogTypeOK, QueueTypeOK
  <2>2. \A i \in Inode : Range(data'[i]) \subseteq 1..written'
    BY <2>1, EmptyFile DEF LogDrainInv, QueueInv, KnownInv
  <2>3. \A q \in Proc : /\ Range(dr'[q].buf) \subseteq 1..written'
                        /\ Range(dr'[q].keep) \subseteq 1..written'
    BY <2>1 DEF LogDrainInv, QueueInv, KnownInv
  <2>4. /\ \A body \in net' : Range(body) \subseteq 1..written'
        /\ Range(server') \subseteq 1..written'
    BY <2>1 DEF LogDrainInv, QueueInv, KnownInv
  <2>5. mates' \subseteq (1..written') \X (1..written')
    BY <2>1 DEF LogDrainInv, QueueInv, KnownInv
  <2> QED
    BY <2>2, <2>3, <2>4, <2>5 DEF KnownInv, Busy
<1>2. NamesInv'
  BY DEF NamesInv
<1>3. BucketInv'
  BY BucketGrows DEF LogDrainInv, QueueInv, BucketInv
<1>4. FitInv'
  BY DEF LogDrainInv, QueueInv, FitInv
<1>5. OrderInv'
  <2>1. \A i \in Inode : InOrder(data'[i])
    BY EmptyFile DEF LogDrainInv, QueueInv, OrderInv
  <2>2. \A s : InOrder(s) => InOrder(s)'
    BY DEF InOrder
  <2> QED
    BY <2>1, <2>2 DEF LogDrainInv, QueueInv, OrderInv, InOrder
<1>6. EveryLineAccounted'
  <2>1. ASSUME NEW e \in 1..written'
        PROVE  e \in InTransit' \cup Range(server) \cup setAside \cup excused'
    <3>1. CASE e \in excused'
      BY <3>1
    <3>2. CASE e \in 1..written
      <4>1. e \in InTransit \cup Range(server) \cup setAside \cup excused
        BY <3>2 DEF LogDrainInv, QueueInv, EveryLineAccounted
      <4>2. ASSUME e \in InTransit PROVE e \in InTransit' \cup excused'
        <5>1. CASE \E b \in Bucket : e \in EventsOf(name[b])
          BY <5>1 DEF InTransit
        <5>2. CASE \E q \in Proc : e \in Range(dr[q].keep)
          BY <5>2 DEF InTransit
        <5> QED
          BY <4>2, <5>1, <5>2, InTransitIs
      <4> QED
        BY <4>1, <4>2
    <3> QED
      BY <3>1, <3>2
  <2> QED
    BY <2>1 DEF LogDrainInv, QueueInv, EveryLineAccounted
<1>7. FileOrderKept'
  BY DEF LogDrainInv, QueueInv, FileOrderKept
<1>8. QueueTypeOK'
  BY LogDrainAssumption DEF LogTypeOK, QueueTypeOK
<1>9. DrainLockTypeOK' /\ DrainLockInv' /\ SessionInv'
  BY LockStays
<1> QED
  BY <1>1, <1>2, <1>3, <1>4, <1>5, <1>6, <1>7, <1>8, <1>9
  DEF LogTypeOK, LogDrainInv, QueueInv

\* guardedAppendOpen gives a file that it creates the live name, and no other.
LEMMA OpenKeeps ==
  ASSUME LogTypeOK, LogDrainInv, NEW p \in Proc, OpenLive(p, "write"), UNCHANGED lockVars,
         UNCHANGED <<dr, net, server, setAside, written, unfit, crashes, fails, excused, mates>>,
         written + Cardinality(Busy') <= MaxEvents
  PROVE  LogTypeOK' /\ LogDrainInv'
<1> DEFINE ino == IF name["live"] = 0 THEN FreshInode ELSE name["live"]
           r == [pc |-> "write", fd |-> ino]
<1>1. /\ name' = [name EXCEPT !["live"] = ino]
      /\ data' = IF name["live"] = 0 THEN [data EXCEPT ![ino] = <<>>] ELSE data
      /\ app' = [app EXCEPT ![p] = r]
  BY DEF OpenLive
<1>2. name \in [Bucket -> Inode \cup {0}] /\ data \in [Inode -> Seq(Line)]
      /\ app \in [Proc -> AppendState]
  BY DEF LogTypeOK, QueueTypeOK
<1>3. /\ ino \in Inode /\ ino # 0
      /\ name["live"] = 0 => \A b \in Bucket : name[b] # ino
  <2>1. CASE name["live"] = 0
    <3>1. ino \in Inode /\ ino \notin InUse
      BY <2>1, FreshInodeIsFree DEF LogTypeOK
    <3> QED
      BY <1>2, <3>1 DEF InUse, Range, Inode
  <2>2. CASE name["live"] # 0
    BY <1>2, <2>2 DEF Bucket
  <2> QED
    BY <2>1, <2>2
<1>4. r \in AppendState /\ r.pc = "write" /\ r.fd = ino
  <2> HIDE DEF ino
  <2> QED
    BY <1>3 DEF AppendState
<1> HIDE DEF r
<1>5. /\ app' \in [Proc -> AppendState]
      /\ app'[p] = r /\ \A q \in Proc \ {p} : app'[q] = app[q]
  BY <1>1, <1>2, <1>4
<1>6. Cardinality(Busy') \in Nat
  BY <1>1, BusyChanges DEF LogTypeOK
<1>7. \A q \in Proc : app'[q].pc = "write" => app'[q].fd # 0
  BY <1>3, <1>4, <1>5 DEF LogDrainInv, QueueInv, NamesInv
<1>8. /\ name' \in [Bucket -> Inode \cup {0}] /\ name'["live"] = ino
      /\ \A b \in Bucket \ {"live"} : name'[b] = name[b]
  <2> HIDE DEF ino
  <2> QED
    BY <1>1, <1>2, <1>3 DEF Bucket
<1>9. /\ data' \in [Inode -> Seq(Line)] /\ \A i \in Inode : data'[i] \in {data[i], <<>>}
      /\ \A b \in Bucket : name[b] # 0 => data'[name[b]] = data[name[b]]
  <2>1. CASE name["live"] = 0
    <3>1. data' = [data EXCEPT ![ino] = <<>>]
      BY <1>1, <2>1
    <3> HIDE DEF ino
    <3> QED
      BY <1>2, <1>3, <2>1, <3>1, EmptySeq
  <2>2. CASE name["live"] # 0
    BY <1>1, <1>2, <2>2
  <2> QED
    BY <2>1, <2>2
<1>10. \A b, c \in Bucket : name'[b] # 0 /\ name'[b] = name'[c] => b = c
  <2>1. CASE name["live"] = 0
    <3> HIDE DEF ino
    <3> QED
      BY <1>3, <1>8, <2>1 DEF LogDrainInv, QueueInv, NamesInv
  <2>2. CASE name["live"] # 0
    <3>1. name' = name
      BY <1>1, <1>2, <2>2
    <3> QED
      BY <3>1 DEF LogDrainInv, QueueInv, NamesInv
  <2> QED
    BY <2>1, <2>2
<1>11. ASSUME NEW b \in Bucket, NEW e \in EventsOf(name[b])
       PROVE  \E c \in Bucket : e \in EventsOf(name[c])'
  <2>1. name[b] # 0 /\ name'[b] = name[b]
    BY <1>8, <1>11 DEF EventsOf
  <2>2. e \in EventsOf(name[b])'
    BY <1>9, <1>11, <2>1 DEF EventsOf
  <2> QED
    BY <2>2
<1>12. written' \in Nat /\ written <= written' /\ excused' \subseteq Line
  BY DEF LogTypeOK, QueueTypeOK
<1>13. name'["draining"] = name["draining"] /\ "draining" \in Bucket
  BY <1>8 DEF Bucket
<1> QED
  BY <1>5, <1>6, <1>7, <1>8, <1>9, <1>10, <1>11, <1>12, <1>13, RenamingKeeps

\* An append opens the live file, or creates it, or finds it full (guardedAppendOpen).
LEMMA AppendOpenKeeps ==
  ASSUME LogTypeOK, LogDrainInv, NEW p \in Proc, AppendOpen(p)
  PROVE  LogTypeOK' /\ LogDrainInv'
<1>1. /\ app[p].pc = "idle" /\ written + Cardinality(Busy) < MaxEvents
      /\ UNCHANGED lockVars
      /\ UNCHANGED <<dr, net, server, setAside, written, unfit, crashes, fails, excused, mates>>
  BY DEF AppendOpen, Busy
<1>2. written \in Nat /\ MaxEvents \in Nat /\ Cardinality(Busy) \in Nat
  BY LogDrainAssumption, BusyIs DEF LogTypeOK, QueueTypeOK
<1>3. CASE app' = [app EXCEPT ![p].pc = "full"] /\ UNCHANGED <<name, data>>
  <2> DEFINE r == [app[p] EXCEPT !.pc = "full"]
  <2>1. app \in [Proc -> AppendState] /\ app[p] \in AppendState
    BY DEF LogTypeOK, QueueTypeOK
  <2>2. r \in AppendState /\ r.pc = "full" /\ app' = [app EXCEPT ![p] = r]
    BY <1>3, <2>1 DEF AppendState
  <2> HIDE DEF r
  <2>3. /\ app' \in [Proc -> AppendState] /\ app'[p] = r
        /\ \A q \in Proc \ {p} : app'[q] = app[q]
    BY <2>1, <2>2
  <2>4. Cardinality(Busy') \in Nat /\ Cardinality(Busy') <= Cardinality(Busy) + 1
    BY <1>1, <2>2, BusyChanges DEF LogTypeOK
  <2>5. written' + Cardinality(Busy') <= MaxEvents
    BY <1>1, <1>2, <2>4
  <2>6. \A q \in Proc : app'[q].pc = "write" => app'[q].fd # 0
    BY <2>2, <2>3 DEF LogDrainInv, QueueInv, NamesInv
  <2>7. \A b, c \in Bucket : name'[b] # 0 /\ name'[b] = name'[c] => b = c
    BY <1>3 DEF LogDrainInv, QueueInv, NamesInv
  <2>8. \A b \in Bucket : \A e \in EventsOf(name[b]) : \E c \in Bucket : e \in EventsOf(name[c])'
    BY <1>3 DEF EventsOf
  <2>9. /\ name' \in [Bucket -> Inode \cup {0}] /\ data' \in [Inode -> Seq(Line)]
        /\ excused' \subseteq Line
    BY <1>1, <1>3 DEF LogTypeOK, QueueTypeOK
  <2> QED
    BY <1>1, <1>2, <1>3, <2>3, <2>4, <2>5, <2>6, <2>7, <2>8, <2>9, RenamingKeeps
<1>4. CASE OpenLive(p, "write")
  <2> DEFINE ino == IF name["live"] = 0 THEN FreshInode ELSE name["live"]
  <2>1. app' = [app EXCEPT ![p] = [pc |-> "write", fd |-> ino]]
    BY <1>4 DEF OpenLive
  <2>2. Cardinality(Busy') \in Nat /\ Cardinality(Busy') <= Cardinality(Busy) + 1
    BY <1>1, <2>1, BusyChanges DEF LogTypeOK
  <2>3. written + Cardinality(Busy') <= MaxEvents
    BY <1>1, <1>2, <2>2
  <2> QED
    BY <1>1, <1>4, <2>3, OpenKeeps
<1> QED
  BY <1>3, <1>4 DEF AppendOpen

\* An append that goes on takes no more room than it had.
LEMMA RoomStays ==
  ASSUME LogTypeOK, LogDrainInv, NEW p \in Proc, NEW r, app' = [app EXCEPT ![p] = r],
         app[p].pc # "idle"
  PROVE  /\ Cardinality(Busy') \in Nat /\ written \in Nat /\ MaxEvents \in Nat
         /\ written + Cardinality(Busy') <= MaxEvents
         /\ r.pc = "idle" =>
              (written + 1) + Cardinality(Busy') <= MaxEvents /\ written + 1 \in Line
<1>1. /\ Cardinality(Busy') \in Nat /\ Cardinality(Busy') <= Cardinality(Busy)
      /\ r.pc = "idle" => Cardinality(Busy') = Cardinality(Busy) - 1
  BY BusyChanges DEF LogTypeOK
<1>2. /\ written \in Nat /\ MaxEvents \in Nat /\ Cardinality(Busy) \in Nat
      /\ written + Cardinality(Busy) <= MaxEvents
  BY LogDrainAssumption, BusyIs
  DEF LogTypeOK, QueueTypeOK, LogDrainInv, QueueInv, KnownInv, Busy
<1> QED
  BY <1>1, <1>2 DEF Line

\* After a rotation the append opens the live file again.
LEMMA ReopenKeeps ==
  ASSUME LogTypeOK, LogDrainInv, NEW p \in Proc, AppendReopen(p)
  PROVE  LogTypeOK' /\ LogDrainInv'
<1> DEFINE ino == IF name["live"] = 0 THEN FreshInode ELSE name["live"]
<1>1. /\ app[p].pc = "reopen" /\ OpenLive(p, "write") /\ UNCHANGED lockVars
      /\ UNCHANGED <<dr, net, server, setAside, written, unfit, crashes, fails, excused, mates>>
  BY DEF AppendReopen
<1>2. app' = [app EXCEPT ![p] = [pc |-> "write", fd |-> ino]]
  BY <1>1 DEF OpenLive
<1>3. written + Cardinality(Busy') <= MaxEvents
  BY <1>1, <1>2, RoomStays
<1> QED
  BY <1>1, <1>3, OpenKeeps

\* A rotation replaces the backup, whose lines it gives up.
LEMMA RotateKeeps ==
  ASSUME LogTypeOK, LogDrainInv, NEW p \in Proc, Rotate(p)
  PROVE  LogTypeOK' /\ LogDrainInv'
<1>1. /\ app[p].pc = "full" /\ UNCHANGED lockVars
      /\ UNCHANGED <<dr, net, server, setAside, unfit, crashes, fails, mates>>
  BY DEF Rotate
<1>2. /\ app \in [Proc -> AppendState] /\ app[p] \in AppendState /\ excused \subseteq Line
      /\ name \in [Bucket -> Inode \cup {0}] /\ data \in [Inode -> Seq(Line)]
      /\ written \in Nat
  BY DEF LogTypeOK, QueueTypeOK
<1>3. CASE name["live"] = 0
  <2>1. /\ app' = [app EXCEPT ![p] = NotAppending] /\ written' = written + 1
        /\ excused' = excused \cup {written + 1} /\ UNCHANGED <<name, data>>
    BY <1>3 DEF Rotate
  <2>2. NotAppending \in AppendState /\ NotAppending.pc = "idle"
    BY DEF NotAppending, AppendState
  <2>3. /\ Cardinality(Busy') \in Nat /\ written' + Cardinality(Busy') <= MaxEvents
        /\ written + 1 \in Line
    BY <1>1, <2>1, <2>2, RoomStays
  <2>4. /\ app' \in [Proc -> AppendState] /\ app'[p] = NotAppending
        /\ \A q \in Proc \ {p} : app'[q] = app[q]
    BY <1>2, <2>1, <2>2
  <2>5. \A q \in Proc : app'[q].pc = "write" => app'[q].fd # 0
    BY <2>2, <2>4 DEF LogDrainInv, QueueInv, NamesInv
  <2>6. \A b, c \in Bucket : name'[b] # 0 /\ name'[b] = name'[c] => b = c
    BY <2>1 DEF LogDrainInv, QueueInv, NamesInv
  <2>7. \A b \in Bucket : \A e \in EventsOf(name[b]) : \E c \in Bucket : e \in EventsOf(name[c])'
    BY <2>1 DEF EventsOf
  <2>8. /\ written' \in Nat /\ written <= written' /\ excused' \subseteq Line
        /\ excused \subseteq excused' /\ \A e \in 1..written' : e \in 1..written \cup excused'
    BY <1>2, <2>1, <2>3
  <2>9. /\ name' \in [Bucket -> Inode \cup {0}] /\ data' \in [Inode -> Seq(Line)]
        /\ \A i \in Inode : data'[i] \in {data[i], <<>>}
    BY <1>2, <2>1
  <2> QED
    BY <1>1, <2>1, <2>3, <2>4, <2>5, <2>6, <2>7, <2>8, <2>9, RenamingKeeps
<1>4. CASE name["live"] # 0
  <2> DEFINE r == [app[p] EXCEPT !.pc = "reopen"]
             old == name["backup"]
  <2>1. /\ excused' = excused \cup EventsOf(old) /\ data' = Dropped(old)
        /\ name' = [name EXCEPT !["backup"] = name["live"], !["live"] = 0]
        /\ app' = [app EXCEPT ![p] = r] /\ UNCHANGED written
    BY <1>2, <1>4 DEF Rotate
  <2>2. r \in AppendState /\ r.pc = "reopen"
    BY <1>2 DEF AppendState
  <2> HIDE DEF r
  <2>3. Cardinality(Busy') \in Nat /\ written' + Cardinality(Busy') <= MaxEvents
    BY <1>1, <2>1, RoomStays
  <2>4. /\ app' \in [Proc -> AppendState] /\ app'[p] = r
        /\ \A q \in Proc \ {p} : app'[q] = app[q]
    BY <1>2, <2>1, <2>2
  <2>5. \A q \in Proc : app'[q].pc = "write" => app'[q].fd # 0
    BY <2>2, <2>4 DEF LogDrainInv, QueueInv, NamesInv
  <2>6. /\ name' \in [Bucket -> Inode \cup {0}]
        /\ name'["backup"] = name["live"] /\ name'["live"] = 0
        /\ name'["draining"] = name["draining"]
    BY <1>2, <2>1 DEF Bucket
  <2>7. \A b, c \in Bucket : name'[b] # 0 /\ name'[b] = name'[c] => b = c
    BY <2>6 DEF LogDrainInv, QueueInv, NamesInv, Bucket
  <2>8. /\ data' \in [Inode -> Seq(Line)] /\ \A i \in Inode : data'[i] \in {data[i], <<>>}
        /\ \A i \in Inode \ {old} : data'[i] = data[i]
    <3>1. CASE old = 0
      BY <1>2, <2>1, <3>1 DEF Dropped
    <3>2. CASE old # 0
      BY <1>2, <2>1, <3>2, EmptySeq DEF Dropped
    <3> QED
      BY <3>1, <3>2
  <2>9. name["draining"] # 0 => data'[name["draining"]] = data[name["draining"]]
    BY <1>2, <2>8 DEF LogDrainInv, QueueInv, NamesInv, Bucket
  <2>10. ASSUME NEW b \in Bucket, NEW e \in EventsOf(name[b])
         PROVE  e \in excused' \/ \E c \in Bucket : e \in EventsOf(name[c])'
    <3>1. CASE b = "backup"
      BY <2>1, <2>10, <3>1
    <3>2. CASE b # "backup"
      <4>1. name[b] # 0 /\ name[b] \in Inode /\ name[b] # old
        BY <1>2, <2>10, <3>2 DEF EventsOf, LogDrainInv, QueueInv, NamesInv, Bucket
      <4>2. \E c \in Bucket : name'[c] = name[b]
        BY <2>6, <3>2 DEF Bucket
      <4> QED
        BY <2>8, <2>10, <4>1, <4>2 DEF EventsOf
    <3> QED
      BY <3>1, <3>2
  <2>11. /\ written' \in Nat /\ written <= written' /\ excused \subseteq excused'
         /\ \A e \in 1..written' : e \in 1..written \cup excused'
    BY <1>2, <2>1
  <2>12. excused' \subseteq Line
    <3>1. EventsOf(old) \subseteq Line
      <4>1. old # 0 => old \in Inode
        BY <1>2 DEF Bucket
      <4> QED
        BY <1>2, <4>1 DEF EventsOf, Range
    <3> QED
      BY <1>2, <2>1, <3>1
  <2> QED
    BY <1>1, <2>3, <2>4, <2>5, <2>6, <2>7, <2>8, <2>9, <2>10, <2>11, <2>12, RenamingKeeps
<1> QED
  BY <1>3, <1>4

\* The write of a line: it comes behind what its file holds, and is known from then on.
LEMMA WriteKeeps ==
  ASSUME LogTypeOK, LogDrainInv, NEW p \in Proc, AppendWrite(p)
  PROVE  LogTypeOK' /\ LogDrainInv'
<1> DEFINE fd == app[p].fd
           e == written + 1
           s == data[fd]
           known == 1..written
<1>1. /\ app[p].pc = "write" /\ written' = e /\ app' = [app EXCEPT ![p] = NotAppending]
      /\ data' = [data EXCEPT ![fd] = Append(@, e)]
      /\ mates' = mates \cup {<<f, e>> : f \in EventsOf(fd)}
      /\ excused' = IF fd \in {name["live"], name["backup"]} THEN excused ELSE excused \cup {e}
      /\ UNCHANGED lockVars /\ UNCHANGED <<name, dr, net, server, setAside, crashes, fails>>
  BY DEF AppendWrite
<1>2. unfit' = unfit \/ (e \in MayBeUnfit /\ unfit' = unfit \cup {e})
  BY DEF AppendWrite
<1>3. /\ app \in [Proc -> AppendState] /\ data \in [Inode -> Seq(Line)]
      /\ name \in [Bucket -> Inode \cup {0}] /\ written \in Nat
      /\ excused \subseteq Line /\ mates \subseteq Line \X Line /\ unfit \subseteq MayBeUnfit
  BY DEF LogTypeOK, QueueTypeOK
<1>4. fd \in Inode /\ fd # 0 /\ s \in Seq(Line)
  BY <1>1, <1>3 DEF LogDrainInv, QueueInv, NamesInv, AppendState
<1>5. NotAppending \in AppendState /\ NotAppending.pc = "idle"
  BY DEF NotAppending, AppendState
<1>6. /\ Cardinality(Busy') \in Nat /\ e + Cardinality(Busy') <= MaxEvents /\ e \in Line
  BY <1>1, <1>5, RoomStays
<1>7. /\ app' \in [Proc -> AppendState] /\ app'[p] = NotAppending
      /\ \A q \in Proc \ {p} : app'[q] = app[q]
  BY <1>1, <1>3, <1>5
<1>8. EventsOf(fd) = Range(s) /\ Range(s) \subseteq known
  BY <1>4 DEF EventsOf, LogDrainInv, QueueInv, KnownInv
<1>9. e \notin known /\ known \subseteq 1..e /\ e \in 1..e /\ e \in Nat
      /\ \A x \in 1..e : x \in known \/ x = e
  BY <1>3
<1>10. /\ \A i \in Inode \ {fd} : data'[i] = data[i]
       /\ data'[fd] \in Seq(Line) /\ Len(data'[fd]) = Len(s) + 1 /\ Len(s) \in Nat
       /\ \A i \in 1..Len(s) : data'[fd][i] = s[i]
       /\ data'[fd][Len(s) + 1] = e
       /\ Range(data'[fd]) = Range(s) \cup {e}
  <2>1. data'[fd] = Append(s, e) /\ \A i \in Inode \ {fd} : data'[i] = data[i]
    BY <1>1, <1>3, <1>4
  <2>2. Append(s, e) \in Seq(Line) /\ Range(Append(s, e)) = Range(s) \cup {e}
    BY <1>4, <1>6, AppendRange
  <2> HIDE DEF s, e, fd
  <2>3. /\ Len(Append(s, e)) = Len(s) + 1 /\ Len(s) \in Nat
        /\ \A i \in 1..Len(s) : Append(s, e)[i] = s[i]
        /\ Append(s, e)[Len(s) + 1] = e
    BY <1>4, <1>6, AppendProperties, LenProperties
  <2> QED
    BY <2>1, <2>2, <2>3
<1>11. data' \in [Inode -> Seq(Line)]
  <2>1. data' = [i \in Inode |-> data'[i]]
    BY <1>1, <1>3
  <2>2. \A i \in Inode : data'[i] \in Seq(Line)
    BY <1>3, <1>10
  <2> QED
    BY <2>1, <2>2
<1>12. /\ mates \subseteq known \X known /\ Range(server) \subseteq known
       /\ \A body \in net : Range(body) \subseteq known
       /\ \A q \in Proc : Range(dr[q].buf) \subseteq known /\ Range(dr[q].keep) \subseteq known
       /\ \A i \in Inode : Range(data[i]) \subseteq known
  BY DEF LogDrainInv, QueueInv, KnownInv
<1>13. \A m \in mates' \ mates : \E f \in Range(s) : m = <<f, e>>
  BY <1>1, <1>8
<1> HIDE DEF known, s, fd
<1>14. unfit \subseteq unfit' /\ unfit' \subseteq unfit \cup {e} /\ unfit' \subseteq MayBeUnfit
       /\ excused \subseteq excused' /\ excused' \subseteq excused \cup {e}
  BY <1>1, <1>2, <1>3
<1> HIDE DEF e
<1>15. KnownInv'
  <2>1. \A i \in Inode : Range(data'[i]) \subseteq 1..e
    BY <1>8, <1>9, <1>10, <1>12
  <2>2. mates' \subseteq (1..e) \X (1..e)
    <3>1. ASSUME NEW m \in mates' PROVE m \in (1..e) \X (1..e)
      <4>1. CASE m \in mates
        BY <1>9, <1>12, <4>1
      <4>2. CASE m \notin mates
        <5>1. PICK f \in Range(s) : m = <<f, e>>
          BY <1>13, <4>2
        <5>2. f \in 1..e
          BY <1>8, <1>9
        <5> QED
          BY <1>9, <5>1, <5>2
      <4> QED
        BY <4>1, <4>2
    <3> QED
      BY <3>1
  <2> QED
    BY <1>1, <1>6, <1>9, <1>12, <2>1, <2>2 DEF KnownInv, Busy
<1>16. NamesInv'
  BY <1>1, <1>5, <1>7 DEF LogDrainInv, QueueInv, NamesInv
<1>17. BucketInv'
  <2> SUFFICES ASSUME NEW q \in Proc, BucketOK(dr[q]) PROVE BucketOK(dr[q])'
    BY DEF LogDrainInv, QueueInv, BucketInv
  <2> DEFINE ino == name["draining"]
             d == dr[q]
  <2>1. ino \in Inode \cup {0} /\ (ino = fd => e \in excused')
    BY <1>1, <1>3, <1>4 DEF LogDrainInv, QueueInv, NamesInv, Bucket
  <2>2. ASSUME ino # 0, Mirrors(d.buf, data[ino]) PROVE Mirrors(d.buf, data[ino])'
    <3>1. CASE ino # fd
      <4>1. data'[ino] = data[ino]
        BY <1>10, <2>1, <2>2, <3>1
      <4> QED
        BY <1>1, <1>14, <2>2, <4>1 DEF Mirrors
    <3>2. CASE ino = fd
      <4>0. Mirrors(d.buf, s) /\ d.buf \in Seq(Line)
        BY <2>2, <3>2 DEF s, LogTypeOK, QueueTypeOK, DrainState
      <4>1. Len(d.buf) \in Nat
        BY <4>0
      <4>2. Len(d.buf) <= Len(s) /\ Len(d.buf) <= Len(data'[fd])
        BY <1>10, <4>0, <4>1 DEF Mirrors
      <4>3. \A i \in 1..Len(d.buf) : data'[fd][i] = d.buf[i]
        BY <1>10, <4>0, <4>1, <4>2 DEF Mirrors
      <4>4. ASSUME NEW i \in (Len(d.buf) + 1)..Len(data'[fd]) PROVE data'[fd][i] \in excused'
        <5>1. CASE i = Len(s) + 1
          BY <1>10, <2>1, <3>2, <5>1
        <5>2. CASE i # Len(s) + 1
          <6>1. i \in 1..Len(s) /\ i \in (Len(d.buf) + 1)..Len(s)
            BY <1>10, <4>1, <5>2
          <6> QED
            BY <1>10, <1>14, <4>0, <6>1 DEF Mirrors
        <5> QED
          BY <5>1, <5>2
      <4>5. d' = d /\ ino' = fd
        BY <1>1, <3>2
      <4> QED
        BY <4>2, <4>3, <4>4, <4>5 DEF Mirrors
    <3> QED
      BY <3>1, <3>2
  <2>3. Mirrors(d.buf, d.keep) => Mirrors(d.buf, d.keep)'
    BY <1>1, <1>14 DEF Mirrors
  <2>4. ASSUME EventsOf(ino) \subseteq excused PROVE EventsOf(ino)' \subseteq excused'
    <3>1. CASE ino = 0
      BY <1>1, <3>1 DEF EventsOf
    <3>2. CASE ino = fd
      BY <1>1, <1>4, <1>8, <1>10, <1>14, <2>1, <2>4, <3>2 DEF EventsOf
    <3>3. CASE ino # 0 /\ ino # fd
      BY <1>1, <1>10, <1>14, <2>1, <2>4, <3>3 DEF EventsOf
    <3> QED
      BY <3>1, <3>2, <3>3
  <2> QED
    BY <1>1, <2>2, <2>3, <2>4 DEF BucketOK
<1>18. FitInv'
  BY <1>1, <1>9, <1>12, <1>14 DEF LogDrainInv, QueueInv, FitInv
<1>19. ASSUME NEW t \in Seq(Line), InOrder(t), Range(t) \subseteq known PROVE InOrder(t)'
  <2>1. \A m \in mates' \ mates : \A j \in 1..Len(t) : t[j] # m[2]
    <3>1. \A j \in 1..Len(t) : t[j] # e
      BY <1>9, <1>19 DEF Range
    <3> QED
      BY <1>13, <3>1
  <2>2. Range(server) \subseteq Range(server')
    BY <1>1
  <2> QED
    BY <1>14, <1>19, <2>1, <2>2, OrderGrows
<1>20. OrderInv'
  <2>1. ASSUME NEW i \in Inode PROVE InOrder(data[i])'
    <3>1. CASE i # fd
      <4>1. InOrder(data[i]) /\ data[i] \in Seq(Line) /\ Range(data[i]) \subseteq known
        BY <1>3, <1>12 DEF LogDrainInv, QueueInv, OrderInv
      <4> DEFINE t == data[i]
      <4> HIDE DEF t
      <4>2. InOrder(t) /\ t \in Seq(Line) /\ Range(t) \subseteq known
        BY <4>1 DEF t
      <4>3. \A m \in mates' : \A j \in 1..Len(t) :
              t[j] = m[2] => m[1] \in Range(server') \cup unfit' \cup excused'
                             \/ \E k \in 1..(j - 1) : t[k] = m[1]
        <5>1. \A m \in mates' \ mates : \A j \in 1..Len(t) : t[j] # m[2]
          <6>1. \A j \in 1..Len(t) : t[j] # e
            BY <1>9, <4>2 DEF Range
          <6> QED
            BY <1>13, <6>1
        <5> QED
          BY <1>1, <1>14, <4>2, <5>1 DEF InOrder
      <4>4. data'[i] = t
        BY <1>10, <3>1 DEF t
      <4> QED
        BY <4>3, <4>4 DEF InOrder
    <3>2. CASE i = fd
      <4> DEFINE t == data'[fd]
      <4>1. InOrder(s)
        BY <1>4 DEF s, LogDrainInv, QueueInv, OrderInv
      <4>2. /\ Len(t) = Len(s) + 1 /\ Len(s) \in Nat
            /\ \A k \in 1..Len(s) : t[k] = s[k]
            /\ t[Len(s) + 1] = e /\ \A k \in 1..Len(s) : s[k] \in known
        BY <1>4, <1>8, <1>10 DEF Range
      <4> HIDE DEF t
      <4>3. ASSUME NEW m \in mates', NEW j \in 1..Len(t), t[j] = m[2],
                   m[1] \notin Range(server') \cup unfit' \cup excused'
            PROVE  \E k \in 1..(j - 1) : t[k] = m[1]
        <5>1. CASE m \in mates
          <6>1. m[2] \in known
            BY <1>12, <5>1
          <6>2. j \in 1..Len(s) /\ s[j] = m[2]
            BY <1>9, <4>2, <4>3, <6>1
          <6>3. PICK k \in 1..(j - 1) : s[k] = m[1]
            BY <1>1, <1>14, <4>1, <4>3, <5>1, <6>2 DEF InOrder
          <6>4. k \in 1..Len(s)
            BY <4>2, <6>2, <6>3
          <6> QED
            BY <4>2, <6>3, <6>4
        <5>2. CASE m \notin mates
          <6>1. PICK k \in 1..Len(s) : m = <<s[k], e>>
            BY <1>4, <1>13, <5>2 DEF Range
          <6>2. m[2] = e /\ m[1] = s[k]
            BY <6>1
          <6>3. j = Len(s) + 1
            BY <1>9, <4>2, <4>3, <6>2
          <6>4. k \in 1..(j - 1)
            BY <4>2, <6>1, <6>3
          <6> QED
            BY <4>2, <6>1, <6>2, <6>4
        <5> QED
          BY <5>1, <5>2
      <4> QED
        BY <3>2, <4>3 DEF InOrder, t
    <3> QED
      BY <3>1, <3>2
  <2>2. ASSUME NEW q \in Proc PROVE InOrder(dr[q].keep)'
    <3>1. dr[q].keep \in Seq(Line) /\ InOrder(dr[q].keep) /\ Range(dr[q].keep) \subseteq known
      BY <1>12 DEF LogTypeOK, QueueTypeOK, DrainState, LogDrainInv, QueueInv, OrderInv
    <3>2. \A j \in 1..Len(dr[q].keep) : dr[q].keep[j] # e
      BY <1>9, <3>1 DEF Range
    <3>3. \A m \in mates' \ mates : \A j \in 1..Len(dr[q].keep) : dr[q].keep[j] # m[2]
      BY <1>13, <3>2
    <3> QED
      BY <1>1, <1>14, <3>1, <3>3 DEF InOrder
  <2>3. ASSUME NEW body \in net PROVE InOrder(body)'
    BY <1>12, <1>19 DEF LogTypeOK, QueueTypeOK, LogDrainInv, QueueInv, OrderInv
  <2> QED
    BY <1>1, <2>1, <2>2, <2>3 DEF OrderInv, InOrder
<1>21. EveryLineAccounted'
  <2>1. ASSUME NEW x \in known
        PROVE  x \in InTransit' \cup Range(server) \cup setAside \cup excused'
    <3>1. x \in InTransit \cup Range(server) \cup setAside \cup excused
      BY <2>1 DEF known, LogDrainInv, QueueInv, EveryLineAccounted
    <3>2. ASSUME NEW b \in Bucket, x \in EventsOf(name[b]) PROVE x \in InTransit'
      <4>1. name[b] # 0 /\ name[b] \in Inode
        BY <1>3, <3>2 DEF EventsOf
      <4>2. Range(data[name[b]]) \subseteq Range(data'[name[b]])
        BY <1>10, <4>1 DEF s
      <4>3. x \in EventsOf(name[b])'
        BY <1>1, <3>2, <4>1, <4>2 DEF EventsOf
      <4> QED
        BY <4>3 DEF InTransit
    <3>3. ASSUME NEW q \in Proc, x \in Range(dr[q].keep) PROVE x \in InTransit'
      BY <1>1, <3>3 DEF InTransit
    <3> QED
      BY <1>14, <3>1, <3>2, <3>3, InTransitIs
  <2>2. e \in InTransit' \cup excused'
    <3>1. CASE fd \in {name["live"], name["backup"]}
      <4>1. PICK b \in Bucket : name[b] = fd
        BY <3>1 DEF Bucket
      <4>2. e \in EventsOf(name[b])'
        BY <1>1, <1>4, <1>10, <4>1 DEF EventsOf
      <4> QED
        BY <4>2 DEF InTransit
    <3>2. CASE fd \notin {name["live"], name["backup"]}
      BY <1>1, <3>2
    <3> QED
      BY <3>1, <3>2
  <2>3. setAside' \subseteq unfit' /\ Range(server') \cap unfit' = {}
    BY <1>1, <1>9, <1>12, <1>14 DEF LogDrainInv, QueueInv, EveryLineAccounted
  <2> QED
    BY <1>1, <1>9, <2>1, <2>2, <2>3 DEF EveryLineAccounted
<1>22. FileOrderKept'
  <2>1. ASSUME NEW m \in mates' \ mates PROVE ~Contains(server, m[2])
    <3>1. m[2] = e
      BY <1>13
    <3>2. server \in Seq(Line)
      BY DEF LogTypeOK, QueueTypeOK
    <3> QED
      BY <1>9, <1>12, <3>1, <3>2 DEF Contains, Range
  <2> QED
    BY <1>1, <1>14, <2>1 DEF LogDrainInv, QueueInv, FileOrderKept
<1>23. QueueTypeOK'
  <2>1. excused' \subseteq Line /\ mates' \subseteq Line \X Line
    <3>1. EventsOf(fd) \subseteq Line
      BY <1>4, <1>8 DEF Range
    <3> QED
      BY <1>1, <1>3, <1>6, <3>1
  <2>2. written' \in 0..MaxEvents
    BY <1>1, <1>6 DEF Line
  <2> QED
    BY <1>1, <1>7, <1>11, <1>14, <2>1, <2>2 DEF LogTypeOK, QueueTypeOK
<1>24. DrainLockTypeOK' /\ DrainLockInv' /\ SessionInv'
  BY <1>1, LockStays
<1> QED
  BY <1>15, <1>16, <1>17, <1>18, <1>20, <1>21, <1>22, <1>23, <1>24
  DEF LogTypeOK, LogDrainInv, QueueInv

-----------------------------------------------------------------------------
(***************************************************************************)
(* The server's answer, and the death of a process.                        *)
(***************************************************************************)
\* e is somewhere before f.
Before(s, e, f) == \E i, j \in 1..Len(s) : i < j /\ s[i] = e /\ s[j] = f

\* A row that is added keeps what is before what, and comes behind every row.
LEMMA AppendBefore ==
  ASSUME NEW T, NEW s \in Seq(T), NEW x \in T, NEW e, NEW f
  PROVE  /\ Before(s, e, f) => Before(Append(s, x), e, f)
         /\ x = f /\ e \in Range(s) => Before(Append(s, x), e, f)
<1> DEFINE t == Append(s, x)
<1>1. /\ Len(t) = Len(s) + 1 /\ Len(s) \in Nat /\ t[Len(s) + 1] = x
      /\ \A i \in 1..Len(s) : t[i] = s[i]
  BY AppendProperties, LenProperties
<1> HIDE DEF t
<1>2. ASSUME Before(s, e, f) PROVE Before(t, e, f)
  <2>1. PICK i, j \in 1..Len(s) : i < j /\ s[i] = e /\ s[j] = f
    BY <1>2 DEF Before
  <2>2. i \in 1..Len(t) /\ j \in 1..Len(t) /\ t[i] = e /\ t[j] = f
    BY <1>1, <2>1
  <2> QED
    BY <2>1, <2>2 DEF Before
<1>3. ASSUME x = f, e \in Range(s) PROVE Before(t, e, f)
  <2>1. PICK i \in 1..Len(s) : s[i] = e
    BY <1>3 DEF Range
  <2>2. i \in 1..Len(t) /\ Len(s) + 1 \in 1..Len(t) /\ i < Len(s) + 1 /\ t[i] = e
    BY <1>1, <2>1
  <2> QED
    BY <1>1, <1>3, <2>2 DEF Before
<1> QED
  BY <1>2, <1>3 DEF t

\* e is before f where f is stored, and stored or first in the body where f is posted.
Leads(e, f, rs, body) ==
  /\ f \in Range(rs) => Before(rs, e, f)
  /\ \A j \in 1..Len(body) :
       body[j] = f => e \in Range(rs) \/ \E i \in 1..(j - 1) : body[i] = e

\* Storing a body then keeps e before f.
LEMMA StoreBatchOrder ==
  ASSUME NEW T, NEW rs \in Seq(T), NEW body \in Seq(T), NEW e, NEW f,
         Leads(e, f, rs, body)
  PROVE  f \in Range(StoreBatch(rs, body)) => Before(StoreBatch(rs, body), e, f)
<1> DEFINE L == Len(body)
<1>1. L \in Nat /\ \A n \in 1..L : body[n] \in T
  OBVIOUS
<1>2. PICK g : /\ g[0] = rs /\ \A n \in 1..L : g[n] = StoreLine(g[n - 1], body[n])
               /\ StoreBatch(rs, body) = g[L]
  BY <1>1, StoreBatchSteps
<1>3. /\ f \in Range(rs) => Before(rs, e, f)
      /\ \A j \in 1..L : body[j] = f => e \in Range(rs) \/ \E i \in 1..(j - 1) : body[i] = e
  BY DEF Leads
<1> HIDE DEF L
<1> DEFINE Good(n) == /\ g[n] \in Seq(T)
                      /\ Range(rs) \subseteq Range(g[n])
                      /\ \A i \in 1..n : body[i] \in Range(g[n])
                      /\ f \in Range(g[n]) => Before(g[n], e, f)
           S == {n \in 0..L : Good(n)}
<1>4. 0 \in S
  BY <1>1, <1>2, <1>3
<1>5. ASSUME NEW n \in 1..L, n - 1 \in S PROVE n \in S
  <2> DEFINE s == g[n - 1]
             x == body[n]
  <2>1. /\ s \in Seq(T) /\ Range(rs) \subseteq Range(s)
        /\ \A i \in 1..(n - 1) : body[i] \in Range(s)
        /\ f \in Range(s) => Before(s, e, f)
    BY <1>5
  <2>2. x \in T /\ g[n] = StoreLine(s, x)
    BY <1>1, <1>2
  <2>3. x = f => e \in Range(s)
    BY <1>3, <2>1
  <2>4. \A i \in 1..n : i \in 1..(n - 1) \/ i = n
    BY <1>1
  <2>5. \A i \in 1..n : i # n => body[i] \in Range(s)
    BY <2>1, <2>4
  <2> HIDE DEF s
  <2>6. CASE x \in Range(s)
    <3>1. g[n] = s
      BY <2>2, <2>6 DEF StoreLine
    <3>2. \A i \in 1..n : body[i] \in Range(s)
      BY <2>5, <2>6
    <3> QED
      BY <1>1, <2>1, <3>1, <3>2
  <2>7. CASE x \notin Range(s)
    <3> DEFINE t == Append(s, x)
    <3>1. t \in Seq(T) /\ Range(t) = Range(s) \cup {x}
      BY <2>1, <2>2, AppendRange
    <3>2. g[n] = t
      BY <2>2, <2>7 DEF StoreLine
    <3>3. f \in Range(t) => Before(t, e, f)
      BY <2>1, <2>2, <2>3, <3>1, AppendBefore
    <3> HIDE DEF t
    <3>4. \A i \in 1..n : body[i] \in Range(t)
      BY <2>5, <3>1
    <3> QED
      BY <1>1, <2>1, <3>1, <3>2, <3>3, <3>4
  <2> QED
    BY <2>6, <2>7
<1>6. L \in S
  <2> HIDE DEF S
  <2>1. 0..L \subseteq S
    BY <1>1, <1>4, <1>5, BoundedInduction
  <2> QED
    BY <1>1, <2>1
<1> QED
  BY <1>2, <1>6

\* The server stores a body whole, behind what it has, and no line twice.
LEMMA StoresKeeps ==
  ASSUME LogTypeOK, LogDrainInv, ServerStores
  PROVE  LogTypeOK' /\ LogDrainInv'
<1>1. PICK body \in net : net' = net \ {body} /\ server' = StoreBatch(server, body)
  BY DEF ServerStores
<1>2. /\ UNCHANGED lockVars
      /\ UNCHANGED <<name, data, app, dr, setAside, written, unfit, crashes, fails, excused, mates>>
  BY DEF ServerStores
<1>3. body \in Seq(Line) /\ server \in Seq(Line)
  BY DEF LogTypeOK, QueueTypeOK
<1>4. server' \in Seq(Line) /\ Range(server') = Range(server) \cup Range(body)
  BY <1>1, <1>3, StoreBatchAdds
<1>5. /\ Range(body) \subseteq 1..written /\ Range(body) \cap unfit = {} /\ InOrder(body)
  BY NetIs DEF LogDrainInv
<1>6. KnownInv'
  BY <1>1, <1>2, <1>4, <1>5 DEF LogDrainInv, QueueInv, KnownInv
<1>7. NamesInv'
  BY <1>2 DEF LogDrainInv, QueueInv, NamesInv
<1>8. BucketInv'
  BY <1>2, <1>4, BucketGrows DEF LogDrainInv, QueueInv, BucketInv
<1>9. FitInv'
  BY <1>1, <1>2 DEF LogDrainInv, QueueInv, FitInv
<1>10. OrderInv'
  <2>1. ASSUME NEW s, InOrder(s)
        PROVE  \A m \in mates : \A j \in 1..Len(s) :
                 s[j] = m[2] => m[1] \in Range(server') \cup unfit \cup excused
                                \/ \E i \in 1..(j - 1) : s[i] = m[1]
    BY <1>4, <2>1 DEF InOrder
  <2>2. ASSUME NEW i \in Inode PROVE InOrder(data[i])'
    <3>1. InOrder(data[i])
      BY DEF LogDrainInv, QueueInv, OrderInv
    <3> QED
      BY <1>2, <2>1, <3>1 DEF InOrder
  <2>3. ASSUME NEW q \in Proc PROVE InOrder(dr[q].keep)'
    <3> DEFINE k == dr[q].keep
    <3>1. InOrder(k)
      BY DEF LogDrainInv, QueueInv, OrderInv
    <3>2. dr'[q].keep = k
      BY <1>2
    <3> HIDE DEF k
    <3>3. \A m \in mates : \A j \in 1..Len(k) :
            k[j] = m[2] => m[1] \in Range(server') \cup unfit \cup excused
                           \/ \E i \in 1..(j - 1) : k[i] = m[1]
      BY <2>1, <3>1
    <3> QED
      BY <1>2, <3>2, <3>3 DEF InOrder
  <2>4. ASSUME NEW b \in net PROVE InOrder(b)'
    <3>1. InOrder(b)
      BY DEF LogDrainInv, QueueInv, OrderInv
    <3> QED
      BY <1>2, <2>1, <3>1 DEF InOrder
  <2> QED
    BY <1>1, <2>2, <2>3, <2>4 DEF OrderInv, InOrder
<1>11. EveryLineAccounted'
  <2>1. InTransit' = InTransit
    BY <1>2 DEF InTransit, EventsOf
  <2> QED
    BY <1>2, <1>4, <1>5, <2>1 DEF LogDrainInv, QueueInv, EveryLineAccounted
<1>12. FileOrderKept'
  <2> SUFFICES ASSUME NEW m \in mates, m[2] \in Range(server'), m[1] \notin unfit \cup excused
               PROVE  Before(server', m[1], m[2])
    BY <1>2, <1>4 DEF FileOrderKept, Contains, Range, Before
  <2>1. m[2] \in Range(server) => Before(server, m[1], m[2])
    BY <1>3 DEF LogDrainInv, QueueInv, FileOrderKept, Contains, Range, Before
  <2>2. \A j \in 1..Len(body) :
          body[j] = m[2] => m[1] \in Range(server) \/ \E i \in 1..(j - 1) : body[i] = m[1]
    BY <1>5 DEF InOrder
  <2>3. Leads(m[1], m[2], server, body)
    BY <2>1, <2>2 DEF Leads
  <2> QED
    BY <1>1, <1>3, <2>3, StoreBatchOrder
<1>13. QueueTypeOK'
  BY <1>1, <1>2, <1>4 DEF LogTypeOK, QueueTypeOK
<1>14. DrainLockTypeOK' /\ DrainLockInv' /\ SessionInv'
  BY <1>2, LockStays
<1> QED
  BY <1>6, <1>7, <1>8, <1>9, <1>10, <1>11, <1>12, <1>13, <1>14
  DEF LogTypeOK, LogDrainInv, QueueInv

\* A killed process drops its append, its drain and its acquisition.
LEMMA CrashingKeeps ==
  ASSUME LogTypeOK, LogDrainInv, TwoContend, Steady, Steady', NEW p \in Proc, Crash(p)
  PROVE  LogTypeOK' /\ LogDrainInv'
<1>1. /\ crashes < MaxCrashes /\ crashes' = crashes + 1 /\ LockCrash(p)
      /\ app' = [app EXCEPT ![p] = NotAppending] /\ dr' = [dr EXCEPT ![p] = NotDraining]
      /\ excused' = excused \cup Range(dr[p].keep)
      /\ UNCHANGED <<name, data, net, server, setAside, written, unfit, fails, mates>>
  BY DEF Crash
<1>2. DrainLockTypeOK' /\ DrainLockInv' /\ OthersStay(p) /\ lk'[p].pc = "idle"
  BY <1>1, CrashKeeps DEF LogTypeOK, LogDrainInv
<1>3. /\ NotDraining \in DrainState /\ NotDraining.pc = "idle"
      /\ NotDraining.buf = <<>> /\ NotDraining.keep = <<>>
  BY EmptySeq DEF NotDraining, DrainState
<1>4. DrainMoves(p) /\ dr'[p] = NotDraining
  BY <1>1, <1>3, PutDrain DEF LogTypeOK
<1>5. NotAppending \in AppendState /\ NotAppending.pc = "idle"
  BY DEF NotAppending, AppendState
<1>6. /\ app' \in [Proc -> AppendState] /\ app'[p] = NotAppending
      /\ \A q \in Proc \ {p} : app'[q] = app[q]
  BY <1>1, <1>5 DEF LogTypeOK, QueueTypeOK
<1>7. SessionInv'
  BY <1>2, <1>3, <1>4 DEF LogDrainInv, SessionInv, OthersStay, DrainMoves
<1>8. KnownInv'
  <2>1. /\ Cardinality(Busy') \in Nat /\ Cardinality(Busy) \in Nat
        /\ Cardinality(Busy') <= Cardinality(Busy)
    <3>1. Busy' \subseteq Busy
      BY <1>5, <1>6 DEF Busy
    <3>2. IsFiniteSet(Busy)
      BY BusyIs
    <3>3. IsFiniteSet(Busy') /\ Cardinality(Busy') <= Cardinality(Busy)
      BY <3>1, <3>2, FS_Subset
    <3> QED
      BY <3>2, <3>3, FS_CardinalityType
  <2>2. written + Cardinality(Busy') <= MaxEvents
    BY <2>1, LogDrainAssumption
    DEF LogTypeOK, QueueTypeOK, LogDrainInv, QueueInv, KnownInv, Busy
  <2>3. \A q \in Proc : /\ Range(dr'[q].buf) \subseteq 1..written
                        /\ Range(dr'[q].keep) \subseteq 1..written
    BY <1>3, <1>4, EmptyFile DEF LogDrainInv, QueueInv, KnownInv, DrainMoves
  <2> QED
    BY <1>1, <2>2, <2>3 DEF LogDrainInv, QueueInv, KnownInv, Busy
<1>9. NamesInv'
  BY <1>1, <1>5, <1>6 DEF LogDrainInv, QueueInv, NamesInv
<1>10. BucketInv'
  <2>1. BucketOK(dr[p])'
    BY <1>3, <1>4 DEF BucketOK
  <2>2. ASSUME NEW q \in Proc \ {p} PROVE BucketOK(dr[q])'
    <3>1. dr'[q] = dr[q] /\ BucketOK(dr[q])
      BY <1>4 DEF DrainMoves, LogDrainInv, QueueInv, BucketInv
    <3> DEFINE ino == name["draining"]
    <3>2. Mirrors(dr[q].buf, dr[q].keep) => Mirrors(dr[q].buf, dr[q].keep)'
      BY <1>1, <3>1 DEF Mirrors
    <3>3. Mirrors(dr[q].buf, data[ino]) => Mirrors(dr[q].buf, data[ino])'
      BY <1>1, <3>1 DEF Mirrors
    <3>4. EventsOf(ino) \subseteq excused => EventsOf(ino)' \subseteq excused'
      BY <1>1 DEF EventsOf
    <3> QED
      BY <1>1, <3>1, <3>2, <3>3, <3>4 DEF BucketOK
  <2> QED
    BY <2>1, <2>2 DEF BucketInv
<1>11. FitInv'
  BY <1>1 DEF LogDrainInv, QueueInv, FitInv
<1>12. OrderInv'
  <2>1. \A s : InOrder(s) => InOrder(s)'
    BY <1>1 DEF InOrder
  <2>2. \A q \in Proc : InOrder(dr'[q].keep)
    BY <1>3, <1>4, EmptyFile DEF LogDrainInv, QueueInv, OrderInv, DrainMoves
  <2> QED
    BY <1>1, <2>1, <2>2 DEF LogDrainInv, QueueInv, OrderInv, InOrder
<1>13. EveryLineAccounted'
  <2>1. ASSUME NEW e \in InTransit PROVE e \in InTransit' \cup excused'
    <3>1. CASE \E b \in Bucket : e \in EventsOf(name[b])
      BY <1>1, <3>1 DEF InTransit, EventsOf
    <3>2. ASSUME NEW q \in Proc, e \in Range(dr[q].keep) PROVE e \in InTransit' \cup excused'
      <4>1. CASE q = p
        BY <1>1, <3>2, <4>1
      <4>2. CASE q # p
        <5>1. e \in Range(dr'[q].keep)
          BY <1>4, <3>2, <4>2 DEF DrainMoves
        <5> QED
          BY <5>1 DEF InTransit
      <4> QED
        BY <4>1, <4>2
    <3> QED
      BY <3>1, <3>2, InTransitIs
  <2> QED
    BY <1>1, <2>1 DEF LogDrainInv, QueueInv, EveryLineAccounted
<1>14. FileOrderKept'
  BY <1>1 DEF LogDrainInv, QueueInv, FileOrderKept
<1>15. QueueTypeOK'
  <2>1. dr[p].keep \in Seq(Line) /\ excused \subseteq Line
    BY DEF LogTypeOK, QueueTypeOK, DrainState
  <2>2. excused' \subseteq Line
    BY <1>1, <2>1 DEF Range
  <2>3. crashes' \in 0..MaxCrashes
    BY <1>1, LogDrainAssumption DEF LogTypeOK, QueueTypeOK
  <2> QED
    BY <1>1, <1>4, <1>6, <2>2, <2>3 DEF LogTypeOK, QueueTypeOK, DrainMoves
<1> QED
  BY <1>2, <1>7, <1>8, <1>9, <1>10, <1>11, <1>12, <1>13, <1>14, <1>15
  DEF LogTypeOK, LogDrainInv, QueueInv

\* A step that leaves the queue alone.
LEMMA QueueStays ==
  ASSUME QueueTypeOK, QueueInv, UNCHANGED drainVars
  PROVE  QueueTypeOK' /\ QueueInv'
<1>1. KnownInv'
  BY DEF QueueInv, KnownInv, drainVars
<1>2. NamesInv'
  BY DEF QueueInv, NamesInv, drainVars
<1>3. BucketInv'
  BY BucketGrows DEF QueueInv, BucketInv, drainVars
<1>4. FitInv'
  BY DEF QueueInv, FitInv, drainVars
<1>5. OrderInv'
  BY DEF QueueInv, OrderInv, InOrder, drainVars
<1>6. EveryLineAccounted'
  BY DEF QueueInv, EveryLineAccounted, InTransit, EventsOf, drainVars
<1>7. FileOrderKept'
  BY DEF QueueInv, FileOrderKept, drainVars
<1>8. QueueTypeOK'
  BY DEF QueueTypeOK, drainVars
<1> QED
  BY <1>1, <1>2, <1>3, <1>4, <1>5, <1>6, <1>7, <1>8 DEF QueueInv

\* A step of the lock alone: p has no drain under way before it takes the lock, and none
\* when it lets go of it.
LEMMA LockStepKeeps ==
  ASSUME LogTypeOK, LogDrainInv, TwoContend, NEW p \in Proc, DrainStart(p) \/ LockStep(p)
  PROVE  LogTypeOK' /\ LogDrainInv'
<1>1. UNCHANGED drainVars
  BY DEF DrainStart, LockStep
<1>2. QueueTypeOK' /\ QueueInv'
  BY <1>1, QueueStays DEF LogTypeOK, LogDrainInv
<1>3. CASE StartAcquire(p) \/ AcquireStep(p)
  <2>1. /\ DrainLockTypeOK' /\ DrainLockInv' /\ OthersStay(p)
        /\ lk[p].pc \in Acquiring \cup {"idle"}
    BY <1>3, AcquireKeeps DEF LogTypeOK, LogDrainInv
  <2>2. dr[p].pc = "idle"
    BY <2>1 DEF LogDrainInv, SessionInv, Acquiring
  <2>3. SessionInv'
    BY <1>1, <2>1, <2>2 DEF LogDrainInv, SessionInv, OthersStay, drainVars
  <2> QED
    BY <1>2, <2>1, <2>3 DEF LogTypeOK, LogDrainInv
<1>4. CASE RenewStep(p)
  <2>1. /\ DrainLockTypeOK' /\ DrainLockInv' /\ OthersStay(p)
        /\ lk[p].pc \in {"renew", "touch"} /\ lk'[p].pc \in {"touch", "lost", "kept"}
    BY <1>4, RenewKeeps DEF LogTypeOK, LogDrainInv
  <2>2. SessionInv'
    BY <1>1, <2>1 DEF LogDrainInv, SessionInv, OthersStay, drainVars
  <2> QED
    BY <1>2, <2>1, <2>2 DEF LogTypeOK, LogDrainInv
<1>5. CASE ReleaseStep(p)
  <2>1. /\ DrainLockTypeOK' /\ DrainLockInv' /\ OthersStay(p)
        /\ lk[p].pc \in {"release", "unlink"}
    BY <1>5, ReleaseKeeps DEF LogTypeOK, LogDrainInv
  <2>2. dr[p].pc = "idle"
    BY <2>1 DEF LogDrainInv, SessionInv
  <2>3. SessionInv'
    BY <1>1, <2>1, <2>2 DEF LogDrainInv, SessionInv, OthersStay, drainVars
  <2> QED
    BY <1>2, <2>1, <2>3 DEF LogTypeOK, LogDrainInv
<1> QED
  BY <1>3, <1>4, <1>5 DEF DrainStart, LockStep

\* Only the lock of an acquisition that is over grows stale.
LEMMA AgingKeeps ==
  ASSUME LogTypeOK, LogDrainInv, Steady, Steady', Ages
  PROVE  LogTypeOK' /\ LogDrainInv'
<1>1. LockAges /\ UNCHANGED drainVars
  BY DEF Ages
<1>2. DrainLockTypeOK' /\ DrainLockInv' /\ lk' = lk
  BY <1>1, AgesKeeps DEF LogTypeOK, LogDrainInv
<1>3. SessionInv'
  BY <1>1, <1>2 DEF LogDrainInv, SessionInv, drainVars
<1>4. QueueTypeOK' /\ QueueInv'
  BY <1>1, QueueStays DEF LogTypeOK, LogDrainInv
<1> QED
  BY <1>2, <1>3, <1>4 DEF LogTypeOK, LogDrainInv

-----------------------------------------------------------------------------
(***************************************************************************)
(* The invariant.                                                          *)
(***************************************************************************)
\* What the code's caller, and time, must leave as it is: no live holder's lock has
\* lapsed, and at most two callers contend.
Undisturbed == Steady /\ TwoContend

\* Init starts with an empty queue and an idle lock.
LEMMA LogInit ==
  Init => LogTypeOK /\ LogDrainInv
<1> SUFFICES ASSUME Init PROVE LogTypeOK /\ LogDrainInv
  OBVIOUS
<1>1. /\ lockFile = NoLock /\ lk = [p \in Proc |-> NotLocking] /\ lapses = 0
  BY DEF Init, LockInit
<1>2. /\ name = [b \in Bucket |-> 0] /\ data = [i \in Inode |-> <<>>]
      /\ app = [p \in Proc |-> NotAppending] /\ dr = [p \in Proc |-> NotDraining]
      /\ net = {} /\ server = <<>> /\ setAside = {}
      /\ written = 0 /\ unfit = {} /\ crashes = 0 /\ fails = 0
      /\ excused = {} /\ mates = {}
  BY DEF Init
<1>3. /\ NotDraining \in DrainState /\ NotDraining.pc = "idle"
      /\ NotDraining.buf = <<>> /\ NotDraining.keep = <<>>
  BY EmptySeq DEF NotDraining, DrainState
<1>4. NotAppending \in AppendState /\ NotAppending.pc = "idle"
  BY DEF NotAppending, AppendState
<1>5. DrainLockTypeOK /\ QueueTypeOK
  <2>1. DrainLockTypeOK
    BY <1>1, NotLockingIs, DrainLockAssumption DEF DrainLockTypeOK
  <2>2. <<>> \in Seq(Line)
    BY EmptySeq
  <2>3. /\ name \in [Bucket -> Inode \cup {0}] /\ data \in [Inode -> Seq(Line)]
        /\ app \in [Proc -> AppendState] /\ dr \in [Proc -> DrainState]
        /\ server \in Seq(Line)
    BY <1>2, <1>3, <1>4, <2>2
  <2>4. /\ net \subseteq Seq(Line) /\ setAside \subseteq Line
        /\ unfit \subseteq MayBeUnfit /\ excused \subseteq Line /\ mates \subseteq Line \X Line
    BY <1>2
  <2>5. written \in 0..MaxEvents /\ crashes \in 0..MaxCrashes /\ fails \in 0..MaxFails
    BY <1>2, LogDrainAssumption
  <2> QED
    BY <2>1, <2>3, <2>4, <2>5 DEF QueueTypeOK
<1>6. \A p \in Proc : lk[p].pc = "idle" /\ lk[p].claimed = NoLock
  BY <1>1, NotLockingIs
<1>7. DrainLockInv
  <2>1. \A p \in Proc : ~Owns(p)
    BY <1>6 DEF Owns, Holds
  <2> QED
    BY <1>1, <1>6, <2>1 DEF DrainLockInv, FileInv, StampsDiffer, OwnersFile
<1>8. \A p \in Proc : /\ dr[p].pc = "idle" /\ dr[p].buf = <<>> /\ dr[p].keep = <<>>
                      /\ app[p].pc = "idle"
  BY <1>2, <1>3, <1>4
<1>9. SessionInv
  BY <1>8 DEF SessionInv
<1>10. KnownInv
  <2>1. {q \in Proc : app[q].pc # "idle"} = {}
    BY <1>8
  <2>2. written + Cardinality({q \in Proc : app[q].pc # "idle"}) <= MaxEvents
    <3>1. Cardinality({q \in Proc : app[q].pc # "idle"}) = 0
      BY <2>1, FS_EmptySet
    <3> QED
      BY <1>2, <3>1, LogDrainAssumption
  <2>3. Range(<<>>) \subseteq 1..written
    BY EmptyFile
  <2>4. \A i \in Inode : Range(data[i]) \subseteq 1..written
    <3>1. \A i \in Inode : data[i] = <<>>
      BY <1>2
    <3> QED
      BY <2>3, <3>1
  <2>5. \A p \in Proc : Range(dr[p].buf) \subseteq 1..written /\ Range(dr[p].keep) \subseteq 1..written
    BY <2>3, <1>8
  <2>6. Range(server) \subseteq 1..written
    BY <2>3, <1>2
  <2> QED
    BY <1>2, <2>2, <2>4, <2>5, <2>6 DEF KnownInv
<1>11. NamesInv /\ BucketInv /\ FitInv
  <2>1. \A b \in Bucket : name[b] = 0
    BY <1>2
  <2>2. \A p \in Proc : BucketOK(dr[p])
    BY <1>8 DEF BucketOK
  <2> QED
    BY <1>2, <1>8, <2>1, <2>2 DEF NamesInv, BucketInv, FitInv
<1>12. OrderInv
  BY <1>2 DEF OrderInv, InOrder
<1>13. EveryLineAccounted
  BY <1>2, EmptyFile DEF EveryLineAccounted
<1>14. FileOrderKept
  BY <1>2 DEF FileOrderKept
<1> QED
  BY <1>5, <1>7, <1>9, <1>10, <1>11, <1>12, <1>13, <1>14
  DEF LogTypeOK, LogDrainInv, QueueInv

\* Every step keeps it.
LEMMA LogStep ==
  ASSUME LogTypeOK, LogDrainInv, Undisturbed, Undisturbed', [Next]_vars
  PROVE  LogTypeOK' /\ LogDrainInv'
<1> USE DEF Undisturbed
<1>1. ASSUME NEW p \in Proc, AppendOpen(p) \/ AppendStep(p)
      PROVE  LogTypeOK' /\ LogDrainInv'
  BY <1>1, AppendOpenKeeps, RotateKeeps, ReopenKeeps, WriteKeeps DEF AppendStep
<1>2. ASSUME NEW p \in Proc, DrainStart(p) \/ LockStep(p)
      PROVE  LogTypeOK' /\ LogDrainInv'
  BY <1>2, LockStepKeeps
<1>3. ASSUME NEW p \in Proc, DrainStep(p) \/ PostFails(p)
      PROVE  LogTypeOK' /\ LogDrainInv'
  BY <1>3, HeldKeeps, LostKeeps, ClaimingKeeps, ReadKeeps, NextKeeps, SetAsideKeeps, DoneKeeps,
     PostKeeps, AcknowledgedKeeps, TruncateKeeps, RewriteKeeps, UnlinkKeeps, FailsKeeps
  DEF DrainStep
<1>4. ASSUME NEW p \in Proc, Crash(p) PROVE LogTypeOK' /\ LogDrainInv'
  BY <1>4, CrashingKeeps
<1>5. CASE ServerStores
  BY <1>5, StoresKeeps
<1>6. CASE Ages
  BY <1>6, AgingKeeps
<1>7. CASE UNCHANGED vars
  <2>1. UNCHANGED lockVars /\ UNCHANGED dr /\ UNCHANGED drainVars
    BY <1>7 DEF vars, drainVars
  <2>2. DrainLockTypeOK' /\ DrainLockInv' /\ SessionInv'
    BY <2>1, LockStays
  <2>3. QueueTypeOK' /\ QueueInv'
    BY <2>1, QueueStays DEF LogTypeOK, LogDrainInv
  <2> QED
    BY <2>2, <2>3 DEF LogTypeOK, LogDrainInv
<1> QED
  BY <1>1, <1>2, <1>3, <1>4, <1>5, <1>6, <1>7 DEF Next

\* The lock, the queue, the drains and the server stay as LogTypeOK and LogDrainInv say,
\* whatever appends, drains, failed POSTs, crashes and takeovers of dead drains' locks
\* come in between.
THEOREM LogDrainInvariant == Spec /\ []Undisturbed => [](LogTypeOK /\ LogDrainInv)
<1> DEFINE Inv == LogTypeOK /\ LogDrainInv
<1>1. Init => Inv
  BY LogInit
<1>2. Inv /\ Undisturbed /\ Undisturbed' /\ [Next]_vars => Inv'
  BY LogStep
<1> HIDE DEF Inv
<1>3. Spec /\ []Undisturbed => []Inv
  BY <1>1, <1>2, PTL DEF Spec
<1> QED
  BY <1>3 DEF Inv

\* Two drains never work on one queue at a time (acquireDrainLock).
THEOREM OneDrainerHolds == Spec /\ []Undisturbed => []OneDrainer
<1>1. LogDrainInv /\ Undisturbed => OneDrainer
  BY OneOwner DEF OneDrainer, Owns, LogDrainInv, Undisturbed
<1>2. LogTypeOK /\ LogDrainInv => LogDrainInv
  OBVIOUS
<1> QED
  BY <1>1, LogDrainInvariant, PTL

\* No failed POST, lost answer, crash or takeover loses a line (removeQueueHead,
\* drainRenamedAside), and only unfit lines are set aside.
THEOREM EveryLineAccountedHolds == Spec /\ []Undisturbed => []EveryLineAccounted
<1>1. LogTypeOK /\ LogDrainInv => EveryLineAccounted
  BY DEF LogDrainInv, QueueInv
<1> QED
  BY <1>1, LogDrainInvariant, PTL

\* Lines of one file reach the server in the order in which they were written
\* (drainQueueFile, and the store's INSERT OR IGNORE).
THEOREM FileOrderKeptHolds == Spec /\ []Undisturbed => []FileOrderKept
<1>1. LogTypeOK /\ LogDrainInv => FileOrderKept
  BY DEF LogDrainInv, QueueInv
<1> QED
  BY <1>1, LogDrainInvariant, PTL
=============================================================================
