--------------------------- MODULE LogFeedProofs ---------------------------
(***************************************************************************)
(* Proofs about LogFeed and the operators of LogStore.                     *)
(*                                                                         *)
(* StoreBatch and Among are recursive functions over the length of a       *)
(* sequence.  What they compute is proved by a least counterexample: the   *)
(* library's WFMin gives the least element of a set of naturals.           *)
(***************************************************************************)
EXTENDS LogFeed, FiniteSetTheorems, SequenceTheorems, WellFoundedInduction, TLAPS

-----------------------------------------------------------------------------
\* Every set of natural numbers has a least element.
LEMMA LeastElement ==
  ASSUME NEW T, T \subseteq Nat, T # {}
  PROVE  \E m \in T : \A n \in T : m <= n
<1> DEFINE R == {ss \in Nat \X Nat : ss[1] < ss[2]}
<1>1. IsWellFoundedOn(OpToRel(<, Nat), Nat)
  BY NatLessThanWellFounded
<1>2. IsWellFoundedOn(R, Nat)
  BY <1>1 DEF OpToRel
<1>3. \A a, b \in Nat : a < b => <<a, b>> \in R
  OBVIOUS
<1> HIDE DEF R
<1>4. PICK m \in T : \A n \in T : ~(<<n, m>> \in R)
  BY <1>2, WFMin
<1>5. \A n \in T : ~(n < m)
  BY <1>3, <1>4
<1> QED
  BY <1>5

\* Induction up to a bound: a set that holds 0 and is closed under the step to the
\* next number below L holds all of 0..L.
LEMMA BoundedInduction ==
  ASSUME NEW L \in Nat, NEW S, 0 \in S,
         \A n \in 1..L : n - 1 \in S => n \in S
  PROVE  0..L \subseteq S
<1> DEFINE T == (0..L) \ S
<1> SUFFICES ASSUME T # {} PROVE FALSE
  OBVIOUS
<1>1. T \subseteq Nat
  OBVIOUS
<1>2. PICK m \in T : \A n \in T : m <= n
  <2> HIDE DEF T
  <2> QED
    BY <1>1, LeastElement
<1>3. m \in 1..L /\ m - 1 \in 0..L /\ ~(m <= m - 1)
  BY <1>2
<1> QED
  BY <1>2, <1>3

-----------------------------------------------------------------------------
\* An element put behind a sequence is the only one added to its range.
LEMMA AppendRange ==
  ASSUME NEW T, NEW s \in Seq(T), NEW e \in T
  PROVE  Append(s, e) \in Seq(T) /\ Range(Append(s, e)) = Range(s) \cup {e}
<1> DEFINE new == Append(s, e)
<1>1. /\ new \in Seq(T) /\ Len(new) = Len(s) + 1
      /\ \A i \in 1..Len(s) : new[i] = s[i]
      /\ new[Len(s) + 1] = e
  OBVIOUS
<1> HIDE DEF new
<1>2. Range(new) = Range(s) \cup {e}
  BY <1>1 DEF Range
<1> QED
  BY <1>1, <1>2 DEF new

\* storeLine: an event that is stored already changes nothing, any other is added
\* behind the rows.
LEMMA StoreLineAdds ==
  ASSUME NEW T, NEW rs \in Seq(T), NEW e \in T
  PROVE  LET new == StoreLine(rs, e)
         IN /\ new \in Seq(T) /\ Len(new) >= Len(rs)
            /\ Range(new) = Range(rs) \cup {e}
            /\ IsInjective(rs) => IsInjective(new)
<1>1. CASE e \in Range(rs)
  BY <1>1 DEF StoreLine
<1>2. CASE e \notin Range(rs)
  <2> DEFINE new == Append(rs, e)
  <2>1. /\ StoreLine(rs, e) = new /\ new \in Seq(T) /\ Len(new) = Len(rs) + 1
        /\ \A i \in 1..Len(rs) : new[i] = rs[i]
        /\ new[Len(rs) + 1] = e
    BY <1>2 DEF StoreLine
  <2>2. \A i \in 1..Len(rs) : rs[i] # e
    BY <1>2 DEF Range
  <2> HIDE DEF new
  <2>3. Range(new) = Range(rs) \cup {e}
    BY AppendRange DEF new
  <2> QED
    BY <2>1, <2>2, <2>3 DEF IsInjective
<1> QED
  BY <1>1, <1>2

(***************************************************************************)
(* StoreBatch stores a body line by line: the function it is defined by    *)
(* exists.                                                                 *)
(***************************************************************************)
LEMMA StoreBatchSteps ==
  ASSUME NEW rs, NEW body, Len(body) \in Nat
  PROVE  \E f : /\ f[0] = rs /\ \A n \in 1..Len(body) : f[n] = StoreLine(f[n - 1], body[n])
               /\ StoreBatch(rs, body) = f[Len(body)]
<1> DEFINE L == Len(body)
           Def(g, n) == g = [m \in 0..n |-> IF m = 0 THEN rs ELSE StoreLine(g[m - 1], body[m])]
           S == {n \in 0..L : \E g : Def(g, n)}
<1>1. 0 \in S
  <2> DEFINE g == [m \in 0..0 |-> rs]
  <2>1. g = [m \in 0..0 |-> IF m = 0 THEN rs ELSE StoreLine(g[m - 1], body[m])]
    OBVIOUS
  <2> HIDE DEF g
  <2>2. \E x : Def(x, 0)
    BY <2>1
  <2> HIDE DEF Def
  <2> QED
    BY <2>2
<1>2. ASSUME NEW n \in 1..L, n - 1 \in S PROVE n \in S
  <2>1. PICK g : Def(g, n - 1)
    BY <1>2
  <2> DEFINE h == [m \in 0..n |-> IF m = n THEN StoreLine(g[n - 1], body[n]) ELSE g[m]]
  <2>2. \A m \in 0..n : h[m] = IF m = 0 THEN rs ELSE StoreLine(h[m - 1], body[m])
    <3> SUFFICES ASSUME NEW m \in 0..n
                 PROVE  h[m] = IF m = 0 THEN rs ELSE StoreLine(h[m - 1], body[m])
      OBVIOUS
    <3>1. CASE m = n
      BY <3>1
    <3>2. CASE m # n
      <4>1. m \in 0..(n - 1) /\ h[m] = g[m] /\ (m # 0 => h[m - 1] = g[m - 1])
        BY <3>2
      <4>2. g[m] = IF m = 0 THEN rs ELSE StoreLine(g[m - 1], body[m])
        BY <2>1, <4>1
      <4> QED
        BY <4>1, <4>2
    <3> QED
      BY <3>1, <3>2
  <2>3. h = [m \in 0..n |-> h[m]]
    OBVIOUS
  <2> HIDE DEF h
  <2>4. Def(h, n)
    BY <2>2, <2>3
  <2> QED
    BY <2>4
<1>3. L \in S
  <2> HIDE DEF S
  <2>1. 0..L \subseteq S
    BY <1>1, <1>2, BoundedInduction
  <2> QED
    BY <2>1
<1>4. \E g : Def(g, L)
  BY <1>3
<1> DEFINE f == CHOOSE g : Def(g, L)
<1>5. StoreBatch(rs, body) = f[L]
  BY DEF StoreBatch
<1>6. Def(f, L)
  <2> HIDE DEF Def
  <2> QED
    BY <1>4
<1> HIDE DEF f
<1>7. f[0] = rs /\ \A n \in 1..L : f[n] = StoreLine(f[n - 1], body[n])
  BY <1>6
<1> QED
  BY <1>5, <1>7

(***************************************************************************)
(* One body: every event of it is stored afterwards, rows are only added,  *)
(* and none is added twice.                                                *)
(***************************************************************************)
LEMMA StoreBatchAdds ==
  ASSUME NEW T, NEW rs \in Seq(T), NEW body \in Seq(T)
  PROVE  LET new == StoreBatch(rs, body)
         IN /\ new \in Seq(T) /\ Len(new) >= Len(rs)
            /\ Range(new) = Range(rs) \cup Range(body)
            /\ IsInjective(rs) => IsInjective(new)
<1> DEFINE L == Len(body)
<1>1. L \in Nat /\ Range(body) = {body[i] : i \in 1..L} /\ \A n \in 1..L : body[n] \in T
  BY DEF Range
<1>2. PICK f : /\ f[0] = rs /\ \A n \in 1..L : f[n] = StoreLine(f[n - 1], body[n])
               /\ StoreBatch(rs, body) = f[L]
  BY <1>1, StoreBatchSteps
<1> HIDE DEF L
<1> DEFINE Good(n) == /\ f[n] \in Seq(T) /\ Len(f[n]) >= Len(rs)
                      /\ Range(f[n]) = Range(rs) \cup {body[i] : i \in 1..n}
                      /\ IsInjective(rs) => IsInjective(f[n])
           S == {n \in 0..L : Good(n)}
<1>3. 0 \in S
  BY <1>1, <1>2
<1>4. ASSUME NEW n \in 1..L, n - 1 \in S PROVE n \in S
  <2>1. f[n - 1] \in Seq(T) /\ body[n] \in T /\ f[n] = StoreLine(f[n - 1], body[n])
    BY <1>1, <1>2, <1>4
  <2>2. /\ f[n] \in Seq(T) /\ Len(f[n]) >= Len(f[n - 1])
        /\ Range(f[n]) = Range(f[n - 1]) \cup {body[n]}
        /\ IsInjective(f[n - 1]) => IsInjective(f[n])
    <3> DEFINE g == f[n - 1]  e == body[n]
    <3> HIDE DEF g, e
    <3>1. g \in Seq(T) /\ e \in T /\ f[n] = StoreLine(g, e)
      BY <2>1 DEF g, e
    <3>2. /\ f[n] \in Seq(T) /\ Len(f[n]) >= Len(g) /\ Range(f[n]) = Range(g) \cup {e}
          /\ IsInjective(g) => IsInjective(f[n])
      BY <3>1, StoreLineAdds
    <3> QED
      BY <3>2 DEF g, e
  <2>3. /\ Len(f[n - 1]) >= Len(rs) /\ (IsInjective(rs) => IsInjective(f[n - 1]))
        /\ Range(f[n - 1]) = Range(rs) \cup {body[i] : i \in 1..(n - 1)}
    BY <1>4
  <2>4. Range(f[n]) = Range(rs) \cup {body[i] : i \in 1..n}
    <3>1. {body[i] : i \in 1..n} = {body[i] : i \in 1..(n - 1)} \cup {body[n]}
      BY <1>1
    <3> QED
      BY <2>2, <2>3, <3>1
  <2>5. Len(f[n]) >= Len(rs)
    BY <2>1, <2>2, <2>3
  <2> QED
    BY <2>2, <2>3, <2>4, <2>5
<1>5. L \in S
  <2> HIDE DEF S
  <2>1. 0..L \subseteq S
    BY <1>1, <1>3, <1>4, BoundedInduction
  <2> QED
    BY <1>1, <2>1
<1> QED
  BY <1>1, <1>2, <1>5

\* Among goes through its sequence element by element: the function it is defined by
\* exists.
LEMMA AmongSteps ==
  ASSUME NEW s, NEW S, Len(s) \in Nat
  PROVE  \E f : /\ f[0] = <<>>
                /\ \A n \in 1..Len(s) :
                     f[n] = IF s[n] \in S THEN Append(f[n - 1], s[n]) ELSE f[n - 1]
                /\ Among(s, S) = f[Len(s)]
<1> DEFINE L == Len(s)
           Kept(g, m) == IF s[m] \in S THEN Append(g[m - 1], s[m]) ELSE g[m - 1]
           Def(g, n) == g = [m \in 0..n |-> IF m = 0 THEN <<>> ELSE Kept(g, m)]
           D == {n \in 0..L : \E g : Def(g, n)}
<1>1. 0 \in D
  <2> DEFINE g == [m \in 0..0 |-> <<>>]
  <2>1. g = [m \in 0..0 |-> IF m = 0 THEN <<>> ELSE Kept(g, m)]
    OBVIOUS
  <2> HIDE DEF g
  <2>2. \E x : Def(x, 0)
    BY <2>1
  <2> HIDE DEF Def
  <2> QED
    BY <2>2
<1>2. ASSUME NEW n \in 1..L, n - 1 \in D PROVE n \in D
  <2>1. PICK g : Def(g, n - 1)
    BY <1>2
  <2> DEFINE h == [m \in 0..n |-> IF m = n THEN Kept(g, n) ELSE g[m]]
  <2>2. \A m \in 0..n : h[m] = IF m = 0 THEN <<>> ELSE Kept(h, m)
    <3> SUFFICES ASSUME NEW m \in 0..n
                 PROVE  h[m] = IF m = 0 THEN <<>> ELSE Kept(h, m)
      OBVIOUS
    <3>1. CASE m = n
      <4>1. h[m] = Kept(g, n) /\ h[n - 1] = g[n - 1]
        BY <3>1
      <4> QED
        BY <3>1, <4>1
    <3>2. CASE m # n
      <4>1. m \in 0..(n - 1) /\ h[m] = g[m] /\ (m # 0 => h[m - 1] = g[m - 1])
        BY <3>2
      <4>2. g[m] = IF m = 0 THEN <<>> ELSE Kept(g, m)
        BY <2>1, <4>1
      <4> QED
        BY <4>1, <4>2
    <3> QED
      BY <3>1, <3>2
  <2>3. h = [m \in 0..n |-> h[m]]
    OBVIOUS
  <2> HIDE DEF h
  <2> HIDE DEF Kept
  <2>4. Def(h, n)
    BY <2>2, <2>3
  <2>5. \E x : Def(x, n)
    BY <2>4
  <2> HIDE DEF Def
  <2> QED
    BY <2>5
<1>3. L \in D
  <2> HIDE DEF D
  <2>1. 0..L \subseteq D
    BY <1>1, <1>2, BoundedInduction
  <2> QED
    BY <2>1
<1>4. \E g : Def(g, L)
  BY <1>3
<1> DEFINE f == CHOOSE g : Def(g, L)
<1>5. Among(s, S) = f[L]
  BY DEF Among
<1>6. Def(f, L)
  <2> HIDE DEF Def
  <2> QED
    BY <1>4
<1> HIDE DEF f
<1>7. f[0] = <<>> /\ \A n \in 1..L : f[n] = Kept(f, n)
  <2> HIDE DEF Kept
  <2>1. f = [m \in 0..L |-> IF m = 0 THEN <<>> ELSE Kept(f, m)]
    BY <1>6
  <2>2. \A m \in 0..L : f[m] = IF m = 0 THEN <<>> ELSE Kept(f, m)
    <3> DEFINE b == [m \in 0..L |-> IF m = 0 THEN <<>> ELSE Kept(f, m)]
    <3>1. \A m \in 0..L : b[m] = IF m = 0 THEN <<>> ELSE Kept(f, m)
      OBVIOUS
    <3> HIDE DEF b
    <3>2. f = b
      BY <2>1 DEF b
    <3> QED
      BY <3>1, <3>2
  <2> QED
    BY <2>2
<1> QED
  BY <1>5, <1>7

\* Among keeps exactly the elements that are in the set, and all of a sequence whose
\* elements all are.
LEMMA AmongKeeps ==
  ASSUME NEW T, NEW s \in Seq(T), NEW S
  PROVE  /\ Among(s, S) \in Seq(T \cap S)
         /\ Range(Among(s, S)) = Range(s) \cap S
         /\ Range(s) \subseteq S => Among(s, S) = s
<1> DEFINE L == Len(s)
<1>1. /\ L \in Nat /\ Range(s) = {s[i] : i \in 1..L} /\ \A n \in 1..L : s[n] \in T
      /\ s = [i \in 1..L |-> s[i]]
  BY DEF Range
<1>2. PICK f : /\ f[0] = <<>>
               /\ \A n \in 1..L :
                    f[n] = IF s[n] \in S THEN Append(f[n - 1], s[n]) ELSE f[n - 1]
               /\ Among(s, S) = f[L]
  BY <1>1, AmongSteps
<1> HIDE DEF L
<1> DEFINE Good(n) == /\ f[n] \in Seq(T \cap S)
                      /\ Range(f[n]) = {s[i] : i \in 1..n} \cap S
                      /\ Range(s) \subseteq S => f[n] = [i \in 1..n |-> s[i]]
           D == {n \in 0..L : Good(n)}
<1>3. 0 \in D
  <2>1. Range(<<>>) = {}
    BY DEF Range
  <2>2. 0 \in 0..L /\ [i \in 1..0 |-> s[i]] = <<>> /\ <<>> \in Seq(T \cap S)
    BY <1>1
  <2>3. {s[i] : i \in 1..0} \cap S = {}
    OBVIOUS
  <2>4. Good(0)
    BY <1>2, <2>1, <2>2, <2>3
  <2> HIDE DEF Good
  <2> QED
    BY <2>2, <2>4
<1>4. ASSUME NEW n \in 1..L, n - 1 \in D PROVE n \in D
  <2> DEFINE g == f[n - 1]  e == s[n]
  <2>1. /\ g \in Seq(T \cap S) /\ Range(g) = {s[i] : i \in 1..(n - 1)} \cap S
        /\ Range(s) \subseteq S => g = [i \in 1..(n - 1) |-> s[i]]
    BY <1>4
  <2>2. {s[i] : i \in 1..n} = {s[i] : i \in 1..(n - 1)} \cup {e}
    BY <1>1
  <2>3. e \in T /\ f[n] = IF e \in S THEN Append(g, e) ELSE g
    BY <1>1, <1>2
  <2>4. Range(s) \subseteq S => f[n] = [i \in 1..n |-> s[i]]
    <3> SUFFICES ASSUME Range(s) \subseteq S PROVE f[n] = [i \in 1..n |-> s[i]]
      OBVIOUS
    <3>1. e \in S /\ n - 1 \in Nat /\ g = [i \in 1..(n - 1) |-> s[i]]
      BY <1>1, <2>1
    <3>2. f[n] = Append(g, e)
      BY <2>3, <3>1
    <3>3. Append([i \in 1..(n - 1) |-> s[i]], e) = [i \in 1..n |-> s[i]]
      BY <1>1, <3>1
    <3> QED
      BY <3>1, <3>2, <3>3
  <2> HIDE DEF g, e
  <2>5. ASSUME e \in S PROVE Good(n)
    <3>1. e \in T \cap S /\ g \in Seq(T \cap S) /\ f[n] = Append(g, e)
      BY <2>1, <2>3, <2>5
    <3>2. f[n] \in Seq(T \cap S) /\ Range(f[n]) = Range(g) \cup {e}
      BY <3>1, AppendRange
    <3>3. Range(f[n]) = {s[i] : i \in 1..n} \cap S
      BY <2>1, <2>2, <2>5, <3>2
    <3> QED
      BY <2>4, <3>2, <3>3
  <2>6. ASSUME e \notin S PROVE Good(n)
    <3>1. f[n] = g /\ Range(g) = {s[i] : i \in 1..n} \cap S
      BY <2>1, <2>2, <2>3, <2>6
    <3> QED
      BY <2>1, <2>4, <3>1
  <2>7. Good(n)
    BY <2>5, <2>6
  <2> HIDE DEF Good
  <2> QED
    BY <2>7
<1>5. L \in D
  <2> HIDE DEF D
  <2>1. 0..L \subseteq D
    BY <1>1, <1>3, <1>4, BoundedInduction
  <2> QED
    BY <1>1, <2>1
<1> QED
  BY <1>1, <1>2, <1>5

-----------------------------------------------------------------------------
\* The positions after a up to b, one by one.
LEMMA PositionsRun ==
  ASSUME NEW a \in Nat, NEW b \in Nat, a <= b
  PROVE  /\ Positions(a, b) \in Seq((a + 1)..b) /\ Positions(a, b) \in Seq(Nat)
         /\ Len(Positions(a, b)) = b - a
         /\ \A i \in 1..(b - a) : Positions(a, b)[i] = a + i
  BY DEF Positions

\* Positions are handed on in one run: what follows a run up to b goes on after b.
LEMMA PositionsJoin ==
  ASSUME NEW a \in Nat, NEW b \in Nat, NEW c \in Nat, a <= b, b <= c
  PROVE  Positions(a, b) \o Positions(b, c) = Positions(a, c)
<1> DEFINE s == Positions(a, b)  t == Positions(b, c)  u == Positions(a, c)
<1>1. a <= c
  OBVIOUS
<1>2. /\ s \in Seq(Nat) /\ Len(s) = b - a /\ \A i \in 1..(b - a) : s[i] = a + i
      /\ t \in Seq(Nat) /\ Len(t) = c - b /\ \A i \in 1..(c - b) : t[i] = b + i
      /\ u \in Seq(Nat) /\ Len(u) = c - a /\ \A i \in 1..(c - a) : u[i] = a + i
  BY <1>1, PositionsRun
<1> HIDE DEF s, t, u
<1>3. /\ s \o t \in Seq(Nat) /\ Len(s \o t) = Len(s) + Len(t)
      /\ \A i \in 1..(Len(s) + Len(t)) :
           (s \o t)[i] = IF i <= Len(s) THEN s[i] ELSE t[i - Len(s)]
  BY <1>2, ConcatProperties
<1> DEFINE v == s \o t
<1> HIDE DEF v
<1>4. v \in Seq(Nat) /\ Len(v) = Len(u)
  BY <1>2, <1>3 DEF v
<1>5. ASSUME NEW i \in 1..Len(v) PROVE v[i] = u[i]
  <2>1. i \in 1..(c - a) /\ Len(s) + Len(t) = c - a
    BY <1>2, <1>4
  <2>2. v[i] = IF i <= b - a THEN s[i] ELSE t[i - (b - a)]
    BY <1>2, <1>3, <2>1 DEF v
  <2>3. CASE i <= b - a
    BY <1>2, <2>1, <2>2, <2>3
  <2>4. CASE ~(i <= b - a)
    <3>1. i - (b - a) \in 1..(c - b) /\ b + (i - (b - a)) = a + i
      BY <2>1, <2>4
    <3> QED
      BY <1>2, <2>1, <2>2, <2>4, <3>1
  <2> QED
    BY <2>3, <2>4
<1>6. v = u
  BY <1>2, <1>4, <1>5, SeqEqual
<1> QED
  BY <1>6 DEF s, t, u, v

(***************************************************************************)
(* A commit stores the readable lines of a body and sends the positions it *)
(* added: an open connection still carries everything behind the last      *)
(* position handed over.                                                   *)
(***************************************************************************)
LEMMA CommitKeeps ==
  ASSUME FeedTypeOK, FeedInv, NEW body \in Seq(Event),
         rows' = StoreBatch(rows, Among(body, Readable)), Broadcast(rows'),
         UNCHANGED <<socket, fol, last, handed>>
  PROVE  /\ rows' \in Seq(Event) /\ Len(rows) <= Len(rows)' /\ FeedInv'
         /\ Range(wire') \subseteq {Resync, Closed} \cup 1..Len(rows')
         /\ Range(rows') = Range(rows) \cup (Range(body) \cap Readable)
<1>1. Readable \subseteq Event
  BY DEF Readable
<1>2. /\ Among(body, Readable) \in Seq(Event)
      /\ Range(Among(body, Readable)) = Range(body) \cap Readable
  <2>1. Among(body, Readable) \in Seq(Event \cap Readable)
    BY AmongKeeps
  <2> QED
    BY <2>1, AmongKeeps, SeqMonotonic
<1>3. /\ rows' \in Seq(Event) /\ Len(rows') >= Len(rows) /\ (StoredOnce => StoredOnce')
      /\ Range(rows') = Range(rows) \cup (Range(body) \cap Readable)
  BY <1>2, StoreBatchAdds DEF FeedTypeOK, StoredOnce
<1>4. /\ Len(rows) \in Nat /\ Len(rows') \in Nat /\ last \in Nat
      /\ last <= Len(rows) /\ Len(rows) <= Len(rows') /\ last <= Len(rows')
  BY <1>3 DEF FeedTypeOK
<1>5. CASE ~socket
  <2>1. wire' = wire
    BY <1>5 DEF Broadcast
  <2>2. Range(wire') \subseteq {Resync, Closed} \cup 1..Len(rows')
    BY <1>3, <1>4, <2>1 DEF FeedTypeOK
  <2> QED
    BY <1>3, <1>4, <1>5, <2>1, <2>2 DEF FeedInv, ConnectionInv, NoGapNoRepeat
<1>6. CASE socket
  <2>1. fol.pc = "open" /\ wire = Positions(last, Len(rows))
    BY <1>6 DEF FeedInv, ConnectionInv
  <2>2. wire' = Positions(last, Len(rows'))
    <3>1. wire' = Positions(last, Len(rows)) \o Positions(Len(rows), Len(rows'))
      BY <1>6, <2>1 DEF Broadcast
    <3> QED
      BY <1>4, <3>1, PositionsJoin
  <2>3. Positions(last, Len(rows')) \in Seq((last + 1)..Len(rows'))
    BY <1>4, PositionsRun
  <2>4. Range(wire') \subseteq {Resync, Closed} \cup 1..Len(rows')
    BY <1>4, <2>2, <2>3 DEF Range
  <2> QED
    BY <1>3, <1>4, <1>6, <2>1, <2>2, <2>4 DEF FeedInv, ConnectionInv, NoGapNoRepeat
<1> QED
  BY <1>3, <1>4, <1>5, <1>6

\* The first of a run of positions, and what it leaves.
LEMMA PositionsHead ==
  ASSUME NEW a \in Nat, NEW b \in Nat, a < b
  PROVE  /\ Positions(a, b) # <<>> /\ Head(Positions(a, b)) = a + 1
         /\ Tail(Positions(a, b)) = Positions(a + 1, b)
         /\ <<a + 1>> = Positions(a, a + 1)
<1> DEFINE s == Positions(a, b)  t == Positions(a + 1, b)
<1>1. a <= b /\ a + 1 \in Nat /\ a + 1 <= b
  OBVIOUS
<1>2. /\ s \in Seq(Nat) /\ Len(s) = b - a /\ \A i \in 1..(b - a) : s[i] = a + i
      /\ t \in Seq(Nat) /\ Len(t) = b - (a + 1) /\ \A i \in 1..(b - (a + 1)) : t[i] = a + 1 + i
  BY <1>1, PositionsRun
<1> HIDE DEF s, t
<1>3. s # <<>> /\ Head(s) = a + 1
  BY <1>1, <1>2
<1>4. /\ Tail(s) \in Seq(Nat) /\ Len(Tail(s)) = Len(t)
      /\ \A i \in 1..Len(Tail(s)) : Tail(s)[i] = t[i]
  BY <1>1, <1>2, <1>3, HeadTailProperties
<1>5. Tail(s) = t
  BY <1>2, <1>4, SeqEqual
<1>6. <<a + 1>> = Positions(a, a + 1)
  BY DEF Positions
<1> QED
  BY <1>3, <1>5, <1>6 DEF s, t

\* A run of positions behind the last one is handed over whole.
LEMMA HandOverRun ==
  ASSUME NoGapNoRepeat, last \in Nat, NEW b \in Nat, last <= b, HandOver(Positions(last, b))
  PROVE  last' = b /\ NoGapNoRepeat'
<1> DEFINE s == Positions(last, b)
<1>1. /\ s \in Seq(Nat) /\ Len(s) = b - last /\ \A i \in 1..(b - last) : s[i] = last + i
  BY PositionsRun
<1>2. s = <<>> <=> b = last
  BY <1>1
<1>3. Range(s) \subseteq Nat \ 0..last
  BY <1>1 DEF Range
<1>4. handed' = handed \o s /\ last' = IF s = <<>> THEN last ELSE Last(s)
  <2>1. Among(s, Nat \ 0..last) = s
    BY <1>1, <1>3, AmongKeeps
  <2> QED
    BY <2>1 DEF HandOver
<1>5. last' = b
  BY <1>1, <1>2, <1>4 DEF Last
<1>6. handed' = Positions(0, b)
  <2>1. handed' = Positions(0, last) \o Positions(last, b) /\ 0 \in Nat /\ 0 <= last
    BY <1>4 DEF NoGapNoRepeat
  <2> QED
    BY <2>1, PositionsJoin
<1> QED
  BY <1>5, <1>6 DEF NoGapNoRepeat

-----------------------------------------------------------------------------
\* The replay window is a part of the rejected lines.
LEMMA ReplayedType ==
  ASSUME FeedTypeOK
  PROVE  Replayed \in Seq(Event) /\ Replayed \in Seq(Unreadable)
<1> DEFINE m == IF Len(rejected) > ReplayWindow THEN Len(rejected) - ReplayWindow + 1 ELSE 1
<1>1. /\ rejected \in Seq(Unreadable) /\ ReplayWindow \in Nat /\ Unreadable \subseteq Event
      /\ Len(rejected) \in Nat
  BY LogFeedAssumption DEF FeedTypeOK
<1>2. m \in Int /\ Len(rejected) \in Int /\ \A i \in m..Len(rejected) : i \in 1..Len(rejected)
  BY <1>1
<1>3. Replayed = SubSeq(rejected, m, Len(rejected))
  BY DEF Replayed
<1> HIDE DEF m
<1>4. \A i \in m..Len(rejected) : rejected[i] \in Unreadable
  BY <1>1, <1>2
<1>5. Replayed \in Seq(Unreadable)
  BY <1>2, <1>3, <1>4, SubSeqProperties
<1> QED
  BY <1>1, <1>5, SeqMonotonic

\* The server's turns keep the invariant.
LEMMA ServerStep ==
  ASSUME FeedTypeOK, FeedInv, Ingest \/ ReplayRejected \/ Redeploy \/ ServeLive
  PROVE  FeedTypeOK' /\ FeedInv'
<1>1. /\ MaxPosts \in Nat /\ CatchupMax \in Nat /\ ReplayWindow \in Nat
      /\ Unreadable \subseteq Event /\ Len(rows) \in Nat /\ last \in Nat /\ last <= Len(rows)
  BY LogFeedAssumption DEF FeedTypeOK
<1>2. fol.after \in Nat /\ fol.after <= Len(rows)
  BY DEF FeedTypeOK, FollowState
<1>3. CASE Ingest
  <2>1. PICK body \in Bodies :
          /\ rows' = StoreBatch(rows, Among(body, Readable))
          /\ rejected' = rejected \o Among(body, Event \ Readable)
    BY <1>3 DEF Ingest
  <2>2. /\ posts' = posts + 1 /\ posts < MaxPosts /\ Broadcast(rows')
        /\ UNCHANGED <<updated, socket, fol, last, handed, drops>>
    BY <1>3 DEF Ingest
  <2>3. body \in Seq(Event)
    BY DEF Bodies
  <2>4. /\ rows' \in Seq(Event) /\ Len(rows) <= Len(rows)' /\ FeedInv'
        /\ Range(wire') \subseteq {Resync, Closed} \cup 1..Len(rows')
    BY <2>1, <2>2, <2>3, CommitKeeps
  <2>5. rejected' \in Seq(Unreadable)
    <3>1. Event \cap (Event \ Readable) \subseteq Unreadable
      BY DEF Readable
    <3>2. Among(body, Event \ Readable) \in Seq(Unreadable)
      BY <2>3, <3>1, AmongKeeps, SeqMonotonic
    <3> QED
      BY <2>1, <3>2, ConcatProperties DEF FeedTypeOK
  <2>6. posts' \in 0..MaxPosts
    BY <1>1, <2>2 DEF FeedTypeOK
  <2>7. last' \in 0..Len(rows') /\ fol'.after <= Len(rows')
    BY <1>1, <1>2, <2>2, <2>4
  <2> QED
    BY <2>2, <2>4, <2>5, <2>6, <2>7 DEF FeedTypeOK
<1>4. CASE ReplayRejected
  <2>1. /\ rows' = StoreBatch(rows, Among(Replayed, Readable)) /\ Broadcast(rows')
        /\ UNCHANGED <<rejected, updated, socket, fol, last, handed, posts, drops>>
    BY <1>4 DEF ReplayRejected
  <2>2. Replayed \in Seq(Event)
    BY ReplayedType
  <2>3. /\ rows' \in Seq(Event) /\ Len(rows) <= Len(rows)' /\ FeedInv'
        /\ Range(wire') \subseteq {Resync, Closed} \cup 1..Len(rows')
    BY <2>1, <2>2, CommitKeeps
  <2>4. last' \in 0..Len(rows') /\ fol'.after <= Len(rows')
    BY <1>1, <1>2, <2>1, <2>3
  <2> QED
    BY <2>1, <2>3, <2>4 DEF FeedTypeOK
<1>5. CASE Redeploy
  BY <1>5 DEF Redeploy, FeedTypeOK, FeedInv, NoGapNoRepeat, ConnectionInv, StoredOnce
<1>6. CASE ServeLive
  <2>1. /\ fol.pc = "dialed" /\ fol.after = last /\ fol' = At("open")
        /\ UNCHANGED <<rows, rejected, updated, last, handed, posts, drops>>
    BY <1>6 DEF ServeLive, FeedInv, ConnectionInv
  <2>2. fol' \in FollowState /\ fol'.pc = "open" /\ fol'.after <= Len(rows)
    BY <1>1, <2>1 DEF At, FollowState
  <2>3. CASE Len(rows) - last > CatchupMax
    <3>1. wire' = <<Resync, Closed>> /\ socket' = FALSE
      BY <1>6, <2>1, <2>3 DEF ServeLive
    <3>2. Range(wire') \subseteq {Resync, Closed}
      BY <3>1 DEF Range
    <3> QED
      BY <2>1, <2>2, <3>1, <3>2
      DEF FeedTypeOK, FeedInv, NoGapNoRepeat, ConnectionInv, StoredOnce
  <2>4. CASE ~(Len(rows) - last > CatchupMax)
    <3>1. wire' = After(last, CatchupMax) /\ socket' = TRUE
      BY <1>6, <2>1, <2>4 DEF ServeLive
    <3>2. (IF Len(rows) - last < CatchupMax THEN Len(rows) ELSE last + CatchupMax) = Len(rows)
      BY <1>1, <2>4
    <3>3. wire' = Positions(last, Len(rows))
      BY <3>1, <3>2 DEF After
    <3>4. wire' \in Seq((last + 1)..Len(rows))
      BY <1>1, <3>3, PositionsRun
    <3>5. Range(wire') \subseteq 1..Len(rows)
      BY <1>1, <3>4 DEF Range
    <3> QED
      BY <2>1, <2>2, <3>1, <3>3, <3>5
      DEF FeedTypeOK, FeedInv, NoGapNoRepeat, ConnectionInv, StoredOnce
  <2> QED
    BY <2>3, <2>4
<1> QED
  BY <1>3, <1>4, <1>5, <1>6

\* The follower's steps, and what happens to its connection, keep the invariant.
LEMMA FollowerStep ==
  ASSUME FeedTypeOK, FeedInv,
         \/ Dial \/ Receive \/ ServerCloses \/ Drop \/ AskPage \/ ReadPage \/ PageFails
         \/ Refused \/ Redial \/ Stop
  PROVE  FeedTypeOK' /\ FeedInv'
<1>1. /\ MaxDrops \in Nat /\ PageMax \in Nat /\ drops \in 0..MaxDrops
      /\ Len(rows) \in Nat /\ last \in Nat /\ last <= Len(rows) /\ fol \in FollowState
  BY LogFeedAssumption DEF FeedTypeOK
<1>2. ASSUME drops < MaxDrops, drops' = drops + 1 PROVE drops' \in 0..MaxDrops
  BY <1>1, <1>2
<1>3. \A pc \in {"dial", "dialed", "open", "page", "reading", "wait", "stopped"} :
        At(pc) \in FollowState /\ At(pc).pc = pc /\ At(pc).after = 0
  BY DEF At, FollowState
<1>4. ASSUME NEW next \in {"page", "wait", "stopped"}, OnClose(next), drops' \in 0..MaxDrops
      PROVE  FeedTypeOK' /\ FeedInv'
  <2>1. /\ fol' = At(next) /\ socket' = FALSE /\ wire' = <<>> /\ Range(wire') = {}
        /\ UNCHANGED <<rows, rejected, updated, last, handed, posts>>
    BY <1>4 DEF OnClose, Range
  <2>2. fol' \in FollowState /\ fol'.pc = next /\ fol'.after <= Len(rows)
    BY <1>1, <1>3, <2>1
  <2> QED
    BY <1>4, <2>1, <2>2 DEF FeedTypeOK, FeedInv, NoGapNoRepeat, ConnectionInv, StoredOnce
<1>5. CASE Dial \/ AskPage
  <2>1. PICK pc \in {"dialed", "reading"} :
          /\ fol' = [At(pc) EXCEPT !.after = last] /\ fol.pc # "open"
          /\ UNCHANGED <<rows, rejected, updated, socket, wire, last, handed, posts, drops>>
    BY <1>5 DEF Dial, AskPage
  <2>2. fol' \in FollowState /\ fol'.pc = pc /\ fol'.after = last
    BY <1>1, <2>1 DEF At, FollowState
  <2> QED
    BY <1>1, <2>1, <2>2 DEF FeedTypeOK, FeedInv, NoGapNoRepeat, ConnectionInv, StoredOnce
<1>6. CASE PageFails \/ Refused \/ Redial
  <2>1. PICK pc \in {"dial", "wait", "stopped"} :
          /\ fol' = At(pc) /\ fol.pc # "open"
          /\ UNCHANGED <<rows, rejected, updated, socket, wire, last, handed, posts>>
    BY <1>6 DEF PageFails, Refused, Redial
  <2>2. fol' \in FollowState /\ fol'.pc = pc /\ fol'.after <= Len(rows)
    BY <1>1, <1>3, <2>1
  <2>3. drops' \in 0..MaxDrops
    BY <1>1, <1>2, <1>6 DEF PageFails, Refused, Redial
  <2> QED
    BY <2>1, <2>2, <2>3 DEF FeedTypeOK, FeedInv, NoGapNoRepeat, ConnectionInv, StoredOnce
<1>7. CASE ServerCloses
  BY <1>1, <1>4, <1>7 DEF ServerCloses
<1>8. CASE Stop
  BY <1>1, <1>4, <1>8 DEF Stop
<1>9. CASE Drop
  BY <1>2, <1>4, <1>9 DEF Drop
<1>10. CASE ReadPage
  <2> DEFINE b == IF Len(rows) - last < PageMax THEN Len(rows) ELSE last + PageMax
             page == After(fol.after, PageMax)
  <2>1. /\ fol.pc = "reading" /\ fol.after = last /\ page = Positions(last, b)
        /\ HandOver(page) /\ fol' = At(IF page = <<>> THEN "dial" ELSE "page")
        /\ UNCHANGED <<rows, rejected, updated, socket, wire, posts, drops>>
    BY <1>10 DEF ReadPage, After, FeedInv, ConnectionInv
  <2>2. b \in Nat /\ last <= b /\ b <= Len(rows)
    BY <1>1
  <2> HIDE DEF b, page
  <2>3. last' = b /\ NoGapNoRepeat'
    BY <1>1, <2>1, <2>2, HandOverRun DEF FeedInv
  <2>4. fol' \in FollowState /\ fol'.pc \in {"dial", "page"} /\ fol'.after <= Len(rows)
    BY <1>1, <1>3, <2>1
  <2> QED
    BY <2>1, <2>2, <2>3, <2>4 DEF FeedTypeOK, FeedInv, ConnectionInv, StoredOnce
<1>11. CASE Receive
  <2>1. /\ fol.pc = "open" /\ wire # <<>> /\ Head(wire) # Closed /\ wire' = Tail(wire)
        /\ UNCHANGED <<rows, rejected, updated, socket, posts, drops>>
    BY <1>11 DEF Receive
  <2>2. CASE ~socket
    <3>1. wire = <<Resync, Closed>>
      BY <2>1, <2>2 DEF FeedInv, ConnectionInv
    <3>2. Head(wire) = Resync /\ wire' = <<Closed>>
      BY <2>1, <3>1
    <3>3. fol' = [fol EXCEPT !.resync = TRUE] /\ UNCHANGED <<last, handed>>
      BY <1>11, <3>2 DEF Receive
    <3>4. fol' \in FollowState /\ fol'.pc = "open" /\ fol'.after = fol.after
      BY <1>1, <2>1, <3>3 DEF FollowState
    <3>5. Range(wire') \subseteq {Resync, Closed}
      BY <3>2 DEF Range
    <3> QED
      BY <2>1, <2>2, <3>2, <3>3, <3>4, <3>5
      DEF FeedTypeOK, FeedInv, NoGapNoRepeat, ConnectionInv, StoredOnce
  <2>3. CASE socket
    <3>1. wire = Positions(last, Len(rows))
      BY <2>1, <2>3 DEF FeedInv, ConnectionInv
    <3>2. last < Len(rows)
      <4>1. Positions(last, Len(rows)) \in Seq(Nat) /\ Len(Positions(last, Len(rows))) = Len(rows) - last
        BY <1>1, PositionsRun
      <4> QED
        BY <1>1, <2>1, <3>1, <4>1
    <3>3. /\ Head(wire) = last + 1 /\ wire' = Positions(last + 1, Len(rows))
          /\ <<last + 1>> = Positions(last, last + 1)
      BY <1>1, <2>1, <3>1, <3>2, PositionsHead
    <3>4. Head(wire) # Resync
      BY <1>1, <3>3 DEF Resync
    <3>5. HandOver(Positions(last, last + 1)) /\ UNCHANGED fol
      BY <1>11, <3>3, <3>4 DEF Receive
    <3>6. last + 1 \in Nat /\ last <= last + 1
      BY <1>1
    <3>7. last' = last + 1 /\ NoGapNoRepeat'
      BY <1>1, <3>5, <3>6, HandOverRun DEF FeedInv
    <3>8. wire' \in Seq((last + 2)..Len(rows))
      BY <1>1, <3>2, <3>3, <3>6, PositionsRun
    <3>9. Range(wire') \subseteq 1..Len(rows)
      BY <1>1, <3>8 DEF Range
    <3> QED
      BY <1>1, <2>1, <2>3, <3>2, <3>3, <3>5, <3>7, <3>9
      DEF FeedTypeOK, FeedInv, ConnectionInv, StoredOnce
  <2> QED
    BY <2>2, <2>3
<1> QED
  BY <1>5, <1>6, <1>7, <1>8, <1>9, <1>10, <1>11

-----------------------------------------------------------------------------
\* A sequence without repetitions has as many elements as positions.
LEMMA DistinctRange ==
  ASSUME NEW T, NEW s \in Seq(T), IsInjective(s)
  PROVE  Cardinality(Range(s)) = Len(s)
<1>1. Len(s) \in Nat /\ DOMAIN s = 1..Len(s) /\ s \in [1..Len(s) -> Range(s)]
  BY DEF Range
<1>2. s \in Bijection(1..Len(s), Range(s))
  BY <1>1 DEF Bijection, Injection, Surjection, IsInjective, Range
<1>3. IsFiniteSet(1..Len(s)) /\ Cardinality(1..Len(s)) = Len(s)
  BY <1>1, FS_Interval
<1>4. ExistsBijection(1..Len(s), Range(s))
  BY <1>2 DEF ExistsBijection
<1> QED
  BY <1>3, <1>4, FS_Bijection

(***************************************************************************)
(* The tables, the connection and the follower stay well typed, and the    *)
(* connection always carries what comes next or tells the follower to      *)
(* resync, whatever is dropped, resent, refused or redeployed.             *)
(***************************************************************************)
THEOREM FeedInvariant == FeedSpec => [](FeedTypeOK /\ FeedInv)
<1>1. FeedInit => FeedTypeOK /\ FeedInv
  <2> SUFFICES ASSUME FeedInit PROVE FeedTypeOK /\ FeedInv
    OBVIOUS
  <2>1. /\ Len(<<>>) = 0 /\ Range(<<>>) = {} /\ Positions(0, 0) = <<>> /\ IsInjective(<<>>)
        /\ MaxPosts \in Nat /\ MaxDrops \in Nat
    BY LogFeedAssumption DEF Range, Positions, IsInjective
  <2>2. At("dial") \in FollowState /\ At("dial").pc = "dial" /\ At("dial").after = 0
    BY DEF At, FollowState
  <2>3. FeedTypeOK
    <3>1. /\ rows \in Seq(Event) /\ rejected \in Seq(Unreadable) /\ Len(rows) = 0
          /\ Range(wire) = {}
      BY <2>1 DEF FeedInit
    <3>2. updated \in BOOLEAN /\ socket \in BOOLEAN
      BY DEF FeedInit
    <3>3. fol \in FollowState /\ fol.after = 0 /\ last = 0 /\ posts = 0 /\ drops = 0
      BY <2>2 DEF FeedInit
    <3> QED
      BY <2>1, <3>1, <3>2, <3>3 DEF FeedTypeOK
  <2>4. FeedInv
    BY <2>1, <2>2 DEF FeedInit, FeedInv, NoGapNoRepeat, ConnectionInv, StoredOnce
  <2> QED
    BY <2>3, <2>4
<1>2. FeedTypeOK /\ FeedInv /\ [FeedNext]_feedVars => (FeedTypeOK /\ FeedInv)'
  <2> SUFFICES ASSUME FeedTypeOK, FeedInv, [FeedNext]_feedVars PROVE FeedTypeOK' /\ FeedInv'
    OBVIOUS
  <2>1. CASE UNCHANGED feedVars
    BY <2>1 DEF feedVars, FeedTypeOK, FeedInv, NoGapNoRepeat, ConnectionInv, StoredOnce
  <2> QED
    BY <2>1, ServerStep, FollowerStep DEF FeedNext, Follow
<1> QED
  BY <1>1, <1>2, PTL DEF FeedSpec

\* The caller of a follower gets every stored line once and in order, with no gap,
\* across catch-ups, broadcasts, resyncs, drops and reconnects (deliver, live).
THEOREM NoGapNoRepeatHolds == FeedSpec => []NoGapNoRepeat
<1>1. FeedInv => NoGapNoRepeat
  BY DEF FeedInv
<1> QED
  BY <1>1, FeedInvariant, PTL

(***************************************************************************)
(* A replay after the validator has learnt to read a refused line stores   *)
(* everything its window reaches, and nothing that is stored already       *)
(* (replayRejected, storeLine).                                            *)
(***************************************************************************)
THEOREM ReplayRecoversHolds == FeedSpec => ReplayRecovers
<1> DEFINE P == ReplayRejected /\ updated =>
                  /\ Range(Replayed) \subseteq Range(rows')
                  /\ Cardinality(Range(rows')) = Len(rows')
<1>1. FeedTypeOK /\ FeedInv /\ [FeedNext]_feedVars => [P]_feedVars
  <2> SUFFICES ASSUME FeedTypeOK, FeedInv, ReplayRejected, updated
               PROVE  /\ Range(Replayed) \subseteq Range(rows')
                      /\ Cardinality(Range(rows')) = Len(rows')
    OBVIOUS
  <2>1. /\ rows' = StoreBatch(rows, Among(Replayed, Readable)) /\ Broadcast(rows')
        /\ UNCHANGED <<socket, fol, last, handed>>
    BY DEF ReplayRejected
  <2>2. Replayed \in Seq(Event)
    BY ReplayedType
  <2>3. /\ rows' \in Seq(Event) /\ IsInjective(rows')
        /\ Range(rows') = Range(rows) \cup (Range(Replayed) \cap Readable)
    BY <2>1, <2>2, CommitKeeps DEF FeedInv, StoredOnce
  <2>4. Range(Replayed) \subseteq Readable
    BY <2>2 DEF Range, Readable
  <2>5. Cardinality(Range(rows')) = Len(rows')
    BY <2>3, DistinctRange
  <2> QED
    BY <2>3, <2>4, <2>5
<1>2. [][P]_feedVars => ReplayRecovers
  BY PTL DEF ReplayRecovers
<1> HIDE DEF P
<1> QED
  BY <1>1, <1>2, FeedInvariant, PTL DEF FeedSpec

=============================================================================
