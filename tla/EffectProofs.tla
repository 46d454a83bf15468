---------------------------- MODULE EffectProofs ----------------------------
(***************************************************************************)
(* Proofs about EffectExecutor, for any number of callers, keys,           *)
(* identities, retries and faults.                                         *)
(***************************************************************************)
EXTENDS EffectExecutor, TLAPS

\* A call that claims its identity landed has a copy on the forge to show for it.
Honest(d) == d.pc \in {"assert", "rename"} /\ d.st = "verified" => copies[d.id] > 0

\* The call of a free process is a call.
LEMMA NoCallType == NoCall \in Call /\ NoCall.st = "started"
<1>1. (CHOOSE k \in Key : TRUE) \in Key /\ (CHOOSE i \in Identity : TRUE) \in Identity
  BY EffectAssumption
<1> QED
  BY <1>1, EffectAssumption DEF NoCall, Call, Place, Over, Status

\* The updates the actions make of a call.
Moved(c, x) == [c EXCEPT !.pc = x]
Claimed(c, x, t) == [c EXCEPT !.pc = x, !.st = t]
Counted(c, x, n) == [c EXCEPT !.pc = x, !.tries = n]
Judged(c, x, t, n) == [c EXCEPT !.pc = x, !.st = t, !.tries = n]
Tried(c, n) == [c EXCEPT !.tries = n]
Begun(c, k, i) == [c EXCEPT !.pc = "acquire", !.key = k, !.id = i]
Fencing(c) == [c EXCEPT !.pc = "acquire", !.op = "fence"]
Owning(c, x, e) == [c EXCEPT !.pc = x, !.epoch = e]
Listing(c, ks) == [c EXCEPT !.pc = "mark", !.todo = ks]
Marking(c, k, i) == [c EXCEPT !.pc = "assert", !.key = k, !.id = i, !.st = "uncertain"]
Skipping(c, ks) == [c EXCEPT !.todo = ks]
Fenced(c, ks, fs) == [c EXCEPT !.pc = "mark", !.todo = ks, !.fenced = fs]

\* Moving a call keeps its claim and its identity.
LEMMA MovedType ==
  ASSUME NEW c \in Call, NEW x \in Place
  PROVE  /\ Moved(c, x) \in Call
         /\ Moved(c, x).pc = x /\ Moved(c, x).st = c.st /\ Moved(c, x).id = c.id
BY DEF Call, Moved

\* Changing its claim keeps its identity.
LEMMA ClaimedType ==
  ASSUME NEW c \in Call, NEW x \in Place, NEW t \in Status
  PROVE  /\ Claimed(c, x, t) \in Call
         /\ Claimed(c, x, t).st = t /\ Claimed(c, x, t).id = c.id
BY DEF Call, Claimed

\* Counting a re-acquisition moves it.
LEMMA CountedType ==
  ASSUME NEW c \in Call, NEW x \in Place, NEW n \in Nat
  PROVE  Counted(c, x, n) \in Call /\ Counted(c, x, n).pc = x
BY DEF Call, Counted

\* Counting a reconciliation leaves it where it was.
LEMMA TriedType ==
  ASSUME NEW c \in Call, NEW n \in Nat
  PROVE  Tried(c, n) \in Call /\ Tried(c, n).pc = c.pc
BY DEF Call, Tried

\* A call that begins an execute is a call that claims nothing.
LEMMA BegunType ==
  ASSUME NEW c \in Call, NEW k \in Key, NEW i \in Identity
  PROVE  Begun(c, k, i) \in Call /\ Honest(Begun(c, k, i))
<1>1. Begun(c, k, i) \in Call /\ Begun(c, k, i).pc = "acquire"
  BY DEF Begun, Call, Place, Over, Status
<1> QED
  BY <1>1 DEF Honest

\* So is one that begins a fence.
LEMMA FencingType ==
  ASSUME NEW c \in Call
  PROVE  Fencing(c) \in Call /\ Honest(Fencing(c))
<1>1. Fencing(c) \in Call /\ Fencing(c).pc = "acquire"
  BY DEF Fencing, Call, Place, Over, Status
<1> QED
  BY <1>1 DEF Honest

\* So is one that has acquired its epoch.
LEMMA OwningType ==
  ASSUME NEW c \in Call, NEW x \in {"look", "list"}, NEW e \in 0..MaxEpoch
  PROVE  Owning(c, x, e) \in Call /\ Honest(Owning(c, x, e))
<1>1. Owning(c, x, e) \in Call /\ Owning(c, x, e).pc = x
  BY DEF Owning, Call, Place, Over, Status
<1> QED
  BY <1>1 DEF Honest

\* So is a fence that has listed the started records.
LEMMA ListingType ==
  ASSUME NEW c \in Call, NEW ks \in SUBSET Key
  PROVE  Listing(c, ks) \in Call /\ Honest(Listing(c, ks))
<1>1. Listing(c, ks) \in Call /\ Listing(c, ks).pc = "mark"
  BY DEF Listing, Call, Place, Over, Status
<1> QED
  BY <1>1 DEF Honest

\* So is a fence about to mark a record uncertain.
LEMMA MarkingType ==
  ASSUME NEW c \in Call, NEW k \in Key, NEW i \in Identity
  PROVE  Marking(c, k, i) \in Call /\ Honest(Marking(c, k, i))
<1>1. Marking(c, k, i) \in Call /\ Marking(c, k, i).st = "uncertain"
  BY DEF Marking, Call, Place, Over, Status
<1> QED
  BY <1>1 DEF Honest

\* So is a fence that leaves a record alone.
LEMMA SkippingType ==
  ASSUME NEW c \in Call, NEW ks \in SUBSET Key, c.pc = "mark"
  PROVE  Skipping(c, ks) \in Call /\ Honest(Skipping(c, ks))
<1>1. Skipping(c, ks) \in Call /\ Skipping(c, ks).pc = "mark"
  BY DEF Skipping, Call, Place, Over, Status
<1> QED
  BY <1>1 DEF Honest

\* A step that writes a well-typed, honest call and changes neither records nor
\* the forge keeps the types and the invariant.
LEMMA CallOnly ==
  ASSUME EffectTypeOK, LandedInv,
         NEW p \in Proc, NEW d \in Call, Step(p, d), Honest(d),
         record' = record, copies' = copies, epoch' = epoch, faults' = faults,
         intents' = intents, blind' \in [Identity -> Nat], late' \subseteq Identity
  PROVE  EffectTypeOK' /\ LandedInv'
<1>1. /\ call' \in [Proc -> Call]
      /\ call'[p] = d
      /\ \A q \in Proc \ {p} : call'[q] = call[q]
  BY DEF EffectTypeOK, Step
<1>2. EffectTypeOK'
  BY <1>1 DEF EffectTypeOK
<1>3. LandedInv'
  BY <1>1 DEF LandedInv, VerifiedMeansLanded, Honest
<1> QED
  BY <1>2, <1>3

\* A call that ends, or goes anywhere but to a write, is honest.
LEMMA EndOnly ==
  ASSUME EffectTypeOK, LandedInv,
         NEW p \in Proc, NEW how \in Over, End(p, how),
         record' = record, copies' = copies, epoch' = epoch, faults' = faults,
         intents' = intents, blind' = blind, late' = late
  PROVE  EffectTypeOK' /\ LandedInv'
<1> DEFINE d == Moved(NoCall, how)
<1>1. how \in Place /\ NoCall \in Call /\ "started" \in Status /\ 0 \in Nat
  BY NoCallType DEF Place, Status
<1>2. d \in Call /\ d.pc = how
  BY <1>1, MovedType
<1>3. Step(p, d)
  BY DEF End, Moved
<1>4. Honest(d)
  BY <1>2 DEF Honest, Over
<1> HIDE DEF d
<1> QED
  BY <1>2, <1>3, <1>4, CallOnly DEF EffectTypeOK

\* The places and statuses the actions name.
LEMMA Named ==
  /\ "idle" \in Over /\ "done" \in Over /\ "refused" \in Over /\ "failed" \in Over
  /\ "acquire" \in Place /\ "look" \in Place /\ "reconcile" \in Place
  /\ "assert" \in Place /\ "rename" \in Place /\ "post" \in Place
  /\ "recheck" \in Place /\ "list" \in Place /\ "mark" \in Place
  /\ "started" \in Status /\ "verified" \in Status /\ "uncertain" \in Status
  /\ 0 \in Nat
BY DEF Over, Place, Status

\* execute's decision on the record it found.
LEMMA LookStep ==
  ASSUME EffectTypeOK, LandedInv, NEW p \in Proc, Look(p)
  PROVE  EffectTypeOK' /\ LandedInv'
<1> DEFINE c == call[p]
           r == record[c.key]
<1>1. c \in Call
  BY DEF EffectTypeOK
<1>2. UNCHANGED <<epoch, record, copies, late, intents, blind, faults>>
  BY DEF Look, store, forge, history
<1>3. \/ End(p, "done") \/ End(p, "refused")
      \/ Step(p, Claimed(c, "assert", "started"))
      \/ Step(p, Moved(c, "reconcile"))
  BY DEF Look, Claimed, Moved, IsFor, Record, Status
<1>4. CASE End(p, "done") \/ End(p, "refused")
  BY <1>2, <1>4, Named, EndOnly
<1>5. CASE Step(p, Claimed(c, "assert", "started"))
  <2>1. Claimed(c, "assert", "started") \in Call
    BY <1>1, Named, ClaimedType
  <2>2. Honest(Claimed(c, "assert", "started"))
    BY <1>1, Named, ClaimedType DEF Honest
  <2> QED
    BY <1>2, <1>5, <2>1, <2>2, CallOnly DEF EffectTypeOK
<1>6. CASE Step(p, Moved(c, "reconcile"))
  <2>1. Moved(c, "reconcile") \in Call
    BY <1>1, Named, MovedType
  <2>2. Honest(Moved(c, "reconcile"))
    BY <1>1, Named, MovedType DEF Honest
  <2> QED
    BY <1>2, <1>6, <2>1, <2>2, CallOnly DEF EffectTypeOK
<1> QED
  BY <1>3, <1>4, <1>5, <1>6

\* Beginning an execute or a fence, and the fence's listing and re-reading.
LEMMA BeginStep ==
  ASSUME EffectTypeOK, LandedInv, NEW p \in Proc,
         Execute(p) \/ Cancel(p) \/ List(p) \/ Mark(p)
  PROVE  EffectTypeOK' /\ LandedInv'
<1> DEFINE c == call[p]
<1>1. c \in Call /\ NoCall \in Call /\ c.todo \in SUBSET Key
  BY NoCallType DEF EffectTypeOK, Call
<1>2. UNCHANGED <<epoch, record, copies, late, intents, blind, faults>>
  BY DEF Execute, Cancel, List, Mark, store, forge, history
<1>3. CASE Execute(p)
  <2>1. PICK k \in Key, i \in Identity : Step(p, Begun(NoCall, k, i))
    BY <1>3 DEF Execute, Begun
  <2>2. Begun(NoCall, k, i) \in Call /\ Honest(Begun(NoCall, k, i))
    BY <1>1, BegunType
  <2> QED
    BY <1>2, <2>1, <2>2, CallOnly DEF EffectTypeOK
<1>4. CASE Cancel(p)
  <2>1. Step(p, Fencing(NoCall))
    BY <1>4 DEF Cancel, Fencing
  <2>2. Fencing(NoCall) \in Call /\ Honest(Fencing(NoCall))
    BY <1>1, FencingType
  <2> QED
    BY <1>2, <2>1, <2>2, CallOnly DEF EffectTypeOK
<1>5. CASE List(p)
  <2> DEFINE ks == {k \in Key \ c.fenced : IsStarted(record[k])}
  <2>1. ks \in SUBSET Key /\ Step(p, Listing(c, ks))
    BY <1>5 DEF List, Listing
  <2> HIDE DEF ks
  <2>2. Listing(c, ks) \in Call /\ Honest(Listing(c, ks))
    BY <1>1, <2>1, ListingType
  <2> QED
    BY <1>2, <2>1, <2>2, CallOnly DEF EffectTypeOK
<1>6. CASE Mark(p)
  <2>1. CASE End(p, "done")
    BY <1>2, <2>1, Named, EndOnly
  <2>2. ASSUME NEW k \in c.todo, IsStarted(record[k]), Step(p, Marking(c, k, record[k].id))
        PROVE  EffectTypeOK' /\ LandedInv'
    <3>1. k \in Key /\ record[k].id \in Identity
      BY <1>1, <2>2 DEF IsStarted, Record
    <3>2. Marking(c, k, record[k].id) \in Call /\ Honest(Marking(c, k, record[k].id))
      BY <1>1, <3>1, MarkingType
    <3> QED
      BY <1>2, <2>2, <3>2, CallOnly DEF EffectTypeOK
  <2>3. ASSUME NEW k \in c.todo, Step(p, Skipping(c, c.todo \ {k}))
        PROVE  EffectTypeOK' /\ LandedInv'
    <3>1. c.todo \ {k} \in SUBSET Key /\ c.pc = "mark"
      BY <1>1, <1>6 DEF Mark
    <3>2. Skipping(c, c.todo \ {k}) \in Call /\ Honest(Skipping(c, c.todo \ {k}))
      BY <1>1, <3>1, SkippingType
    <3> QED
      BY <1>2, <2>3, <3>2, CallOnly DEF EffectTypeOK
  <2> QED
    BY <1>6, <2>1, <2>2, <2>3 DEF Mark, Marking, Skipping
<1> QED
  BY <1>3, <1>4, <1>5, <1>6

\* reconcileExisting claims 'verified' only on a copy it has just seen.
LEMMA ReconcileStep ==
  ASSUME EffectTypeOK, LandedInv, NEW p \in Proc, Reconcile(p)
  PROVE  EffectTypeOK' /\ LandedInv'
<1> DEFINE c == call[p]
<1>1. c \in Call /\ c.tries + 1 \in Nat /\ c.pc = "reconcile"
  BY DEF EffectTypeOK, Call, Reconcile
<1>2. UNCHANGED <<epoch, record, copies, late, intents, blind, faults>>
  BY DEF Reconcile, store, forge, history
<1>3. \/ copies[c.id] > 0 /\ Step(p, Judged(c, "assert", "verified", 0))
      \/ Step(p, Judged(c, "assert", "started", 0))
      \/ Step(p, Judged(c, "assert", "uncertain", 0))
      \/ Step(p, Tried(c, c.tries + 1))
  BY DEF Reconcile, Judged, Tried
<1>4. ASSUME NEW t \in Status, t # "verified" \/ copies[c.id] > 0,
             Step(p, Judged(c, "assert", t, 0))
      PROVE  EffectTypeOK' /\ LandedInv'
  <2>1. /\ Judged(c, "assert", t, 0) \in Call
        /\ Judged(c, "assert", t, 0).st = t /\ Judged(c, "assert", t, 0).id = c.id
    BY <1>1, <1>4, Named DEF Call, Judged
  <2>2. Honest(Judged(c, "assert", t, 0))
    BY <1>4, <2>1 DEF Honest
  <2> QED
    BY <1>2, <1>4, <2>1, <2>2, CallOnly DEF EffectTypeOK
<1>5. CASE Step(p, Tried(c, c.tries + 1))
  <2>1. Tried(c, c.tries + 1) \in Call /\ Tried(c, c.tries + 1).pc = "reconcile"
    BY <1>1, Named, TriedType
  <2>2. Honest(Tried(c, c.tries + 1))
    BY <2>1 DEF Honest
  <2> QED
    BY <1>2, <1>5, <2>1, <2>2, CallOnly DEF EffectTypeOK
<1> QED
  BY <1>3, <1>4, <1>5, Named

\* The epoch check moves a claim from one step of the write to the next.
LEMMA AssertStep ==
  ASSUME EffectTypeOK, LandedInv, NEW p \in Proc, AssertEpoch(p)
  PROVE  EffectTypeOK' /\ LandedInv'
<1> DEFINE c == call[p]
<1>1. c \in Call /\ c.tries + 1 \in Nat /\ c.pc = "assert"
  BY DEF EffectTypeOK, Call, AssertEpoch
<1>2. UNCHANGED <<epoch, record, copies, late, intents, blind, faults>>
  BY DEF AssertEpoch, store, forge, history
<1>3. \/ Step(p, Moved(c, "rename"))
      \/ Step(p, Counted(c, "acquire", c.tries + 1))
      \/ End(p, "failed")
  BY DEF AssertEpoch, Moved, Counted
<1>4. CASE Step(p, Moved(c, "rename"))
  <2>1. /\ Moved(c, "rename") \in Call
        /\ Moved(c, "rename").st = c.st /\ Moved(c, "rename").id = c.id
    BY <1>1, Named, MovedType
  <2>2. Honest(Moved(c, "rename"))
    BY <1>1, <2>1 DEF Honest, LandedInv
  <2> QED
    BY <1>2, <1>4, <2>1, <2>2, CallOnly DEF EffectTypeOK
<1>5. CASE Step(p, Counted(c, "acquire", c.tries + 1))
  <2>1. /\ Counted(c, "acquire", c.tries + 1) \in Call
        /\ Counted(c, "acquire", c.tries + 1).pc = "acquire"
    BY <1>1, Named DEF Call, Counted
  <2>2. Honest(Counted(c, "acquire", c.tries + 1))
    BY <2>1 DEF Honest
  <2> QED
    BY <1>2, <1>5, <2>1, <2>2, CallOnly DEF EffectTypeOK
<1>6. CASE End(p, "failed")
  BY <1>2, <1>6, Named, EndOnly
<1> QED
  BY <1>3, <1>4, <1>5, <1>6

\* postWithRetry ends as verified only on a copy it has found.
LEMMA RecheckStep ==
  ASSUME EffectTypeOK, LandedInv, NEW p \in Proc, Recheck(p)
  PROVE  EffectTypeOK' /\ LandedInv'
<1> DEFINE c == call[p]
<1>1. c \in Call /\ c.id \in Identity
  BY DEF EffectTypeOK, Call
<1>2. UNCHANGED <<epoch, record, copies, late, intents, faults>>
  BY DEF Recheck, store, forge
<1>3. blind' \in [Identity -> Nat]
  BY <1>1 DEF Recheck, EffectTypeOK
<1>4. \/ copies[c.id] > 0 /\ Step(p, Claimed(c, "assert", "verified"))
      \/ Step(p, Moved(c, "post"))
  BY DEF Recheck, Claimed, Moved
<1>5. CASE copies[c.id] > 0 /\ Step(p, Claimed(c, "assert", "verified"))
  <2>1. Claimed(c, "assert", "verified") \in Call
    BY <1>1, Named, ClaimedType
  <2>2. Honest(Claimed(c, "assert", "verified"))
    BY <1>1, <1>5, Named, ClaimedType DEF Honest
  <2> QED
    BY <1>2, <1>3, <1>5, <2>1, <2>2, CallOnly DEF EffectTypeOK
<1>6. CASE Step(p, Moved(c, "post"))
  <2>1. Moved(c, "post") \in Call
    BY <1>1, Named, MovedType
  <2>2. Honest(Moved(c, "post"))
    BY <1>1, Named, MovedType DEF Honest
  <2> QED
    BY <1>2, <1>3, <1>6, <2>1, <2>2, CallOnly DEF EffectTypeOK
<1> QED
  BY <1>4, <1>5, <1>6

\* A crash forgets the call; a late post waits with its identity.
LEMMA CrashStep ==
  ASSUME EffectTypeOK, LandedInv, NEW p \in Proc, Crash(p)
  PROVE  EffectTypeOK' /\ LandedInv'
<1>1. NoCall \in Call /\ Honest(NoCall)
  BY NoCallType DEF Honest
<1>2. call[p].id \in Identity
  BY DEF EffectTypeOK, Call
<1>3. late' \subseteq Identity
  BY <1>2 DEF Crash, EffectTypeOK
<1>4. UNCHANGED <<epoch, record, copies, intents, blind, faults>> /\ Step(p, NoCall)
  BY DEF Crash, store, history
<1> QED
  BY <1>1, <1>3, <1>4, CallOnly DEF EffectTypeOK

\* A record becomes 'verified' through a rename whose call had its copy.
LEMMA RenameStep ==
  ASSUME EffectTypeOK, LandedInv, NEW p \in Proc, Rename(p)
  PROVE  EffectTypeOK' /\ LandedInv'
<1> DEFINE c == call[p]
           ks == c.todo \ {c.key}
           fs == c.fenced \cup {c.key}
<1>1. /\ c \in Call /\ c.pc = "rename" /\ c.key \in Key /\ c.id \in Identity
      /\ c.st \in Status /\ ks \in SUBSET Key /\ fs \in SUBSET Key /\ NoCall \in Call
  BY NoCallType DEF EffectTypeOK, Call, Rename
<1>2. UNCHANGED <<epoch, copies, late, blind, faults>>
  BY DEF Rename, forge
<1>3. record' = [record EXCEPT ![c.key] = [id |-> c.id, st |-> c.st]]
  BY DEF Rename
<1>4. record' \in [Key -> Records]
  BY <1>1, <1>3 DEF EffectTypeOK, Records, Record
<1>5. intents' \in [Identity -> Nat]
  BY <1>1 DEF Rename, EffectTypeOK
<1>6. PICK d \in Call : Step(p, d) /\ d.pc \notin {"assert", "rename"}
  <2>1. /\ Fenced(c, ks, fs) \in Call /\ Fenced(c, ks, fs).pc = "mark"
    BY <1>1 DEF Fenced, Call, Place
  <2>2. Moved(c, "post") \in Call /\ Moved(c, "post").pc = "post"
    BY <1>1, Named, MovedType
  <2>3. /\ Moved(NoCall, "done") \in Call /\ Moved(NoCall, "done").pc = "done"
        /\ Moved(NoCall, "refused") \in Call /\ Moved(NoCall, "refused").pc = "refused"
    <3>1. "done" \in Place /\ "refused" \in Place
      BY DEF Place, Over
    <3> QED
      BY <1>1, <3>1, Named, MovedType
  <2>4. \/ Step(p, Fenced(c, ks, fs)) \/ Step(p, Moved(c, "post"))
        \/ Step(p, Moved(NoCall, "done")) \/ Step(p, Moved(NoCall, "refused"))
    <3>1. c.op \in {"post", "fence"} /\ c.st \in {"started", "verified", "uncertain"}
      BY <1>1 DEF Call, Status
    <3> QED
      BY <3>1 DEF Rename, End, Fenced, Moved
  <2> QED
    BY <2>1, <2>2, <2>3, <2>4
<1>7. /\ call' \in [Proc -> Call]
      /\ call'[p] = d
      /\ \A q \in Proc \ {p} : call'[q] = call[q]
  BY <1>6 DEF EffectTypeOK, Step
<1>8. VerifiedMeansLanded'
  <2>1. c.st = "verified" => copies[c.id] > 0
    BY <1>1 DEF LandedInv
  <2> QED
    BY <1>1, <1>2, <1>3, <2>1 DEF LandedInv, VerifiedMeansLanded, EffectTypeOK
<1>9. EffectTypeOK'
  BY <1>2, <1>4, <1>5, <1>7 DEF EffectTypeOK
<1> QED
  BY <1>2, <1>6, <1>7, <1>8, <1>9 DEF LandedInv

\* Copies never disappear, so no claim or record loses the copy it rests on.
LEMMA MoreCopies ==
  ASSUME EffectTypeOK, LandedInv, record' = record, NEW S \in SUBSET Proc,
         copies' \in [Identity -> Nat],
         \A i \in Identity : copies'[i] >= copies[i],
         \A q \in S : call'[q] = call[q]
  PROVE  /\ VerifiedMeansLanded'
         /\ \A q \in S : call'[q].pc \in {"assert", "rename"} /\ call'[q].st = "verified"
              => copies'[call'[q].id] > 0
<1>1. \A k \in Key : record[k] \in Record => record[k].id \in Identity
  BY DEF Record
<1>2. \A q \in S : call[q].id \in Identity
  BY DEF EffectTypeOK, Call
<1>3. VerifiedMeansLanded'
  BY <1>1 DEF LandedInv, VerifiedMeansLanded, EffectTypeOK
<1> QED
  BY <1>2, <1>3 DEF LandedInv, EffectTypeOK

\* The poster claims 'verified' only after adding its own copy.
LEMMA PostStep ==
  ASSUME EffectTypeOK, LandedInv, NEW p \in Proc, Post(p)
  PROVE  EffectTypeOK' /\ LandedInv'
<1> DEFINE c == call[p]
<1>1. /\ c \in Call /\ c.tries + 1 \in Nat /\ c.id \in Identity
      /\ NoCall \in Call /\ "failed" \in Place
  BY NoCallType DEF EffectTypeOK, Call, Place, Over
<1>2. UNCHANGED <<epoch, record, late, intents, blind, faults>>
  BY DEF Post, store, history
<1>3. /\ copies' \in [Identity -> Nat]
      /\ \A i \in Identity : copies'[i] >= copies[i]
  BY <1>1 DEF Post, EffectTypeOK
<1>4. PICK d \in Call :
        /\ Step(p, d)
        /\ d.pc \notin {"assert", "rename"} \/ copies'[d.id] > 0
  <2>1. CASE copies' = [copies EXCEPT ![c.id] = @ + 1] /\ Step(p, Claimed(c, "assert", "verified"))
    <3>1. copies'[c.id] > 0
      BY <1>1, <2>1 DEF EffectTypeOK
    <3>2. /\ Claimed(c, "assert", "verified") \in Call
          /\ Claimed(c, "assert", "verified").id = c.id
      BY <1>1, Named DEF Call, Claimed
    <3> QED
      BY <2>1, <3>1, <3>2
  <2>2. CASE Step(p, Counted(c, "recheck", c.tries + 1))
    <3>1. /\ Counted(c, "recheck", c.tries + 1) \in Call
          /\ Counted(c, "recheck", c.tries + 1).pc = "recheck"
      BY <1>1, Named, CountedType
    <3> QED
      BY <2>2, <3>1
  <2>3. CASE Step(p, Moved(NoCall, "failed"))
    <3>1. Moved(NoCall, "failed") \in Call /\ Moved(NoCall, "failed").pc = "failed"
      BY <1>1, MovedType
    <3> QED
      BY <2>3, <3>1
  <2> QED
    BY <2>1, <2>2, <2>3 DEF Post, End, Claimed, Counted, Moved
<1>5. /\ call' \in [Proc -> Call]
      /\ call'[p] = d
      /\ \A q \in Proc \ {p} : call'[q] = call[q]
  BY <1>4 DEF EffectTypeOK, Step
<1>6. EffectTypeOK'
  BY <1>2, <1>3, <1>5 DEF EffectTypeOK
<1>7. /\ VerifiedMeansLanded'
      /\ \A q \in Proc \ {p} : call'[q].pc \in {"assert", "rename"} /\ call'[q].st = "verified"
           => copies'[call'[q].id] > 0
  <2> DEFINE S == Proc \ {p}
  <2>1. S \in SUBSET Proc /\ \A q \in S : call'[q] = call[q]
    BY <1>5
  <2> HIDE DEF S
  <2>2. /\ VerifiedMeansLanded'
        /\ \A q \in S : call'[q].pc \in {"assert", "rename"} /\ call'[q].st = "verified"
             => copies'[call'[q].id] > 0
    BY <1>2, <1>3, <2>1, MoreCopies
  <2> QED
    BY <2>2 DEF S
<1> QED
  BY <1>4, <1>5, <1>6, <1>7 DEF LandedInv

\* Acquiring an epoch sends its winner to look or list and its losers home.
LEMMA AcquireStep ==
  ASSUME EffectTypeOK, LandedInv, NEW p \in Proc, Acquire(p)
  PROVE  EffectTypeOK' /\ LandedInv'
<1> DEFINE x == IF call[p].op = "post" THEN "look" ELSE "list"
           won == Owning(call[p], x, epoch + 1)
           gone == Moved(NoCall, "failed")
<1>1. UNCHANGED <<record, copies, late, intents, blind, faults>>
  BY DEF Acquire, forge, history
<1>2. epoch' \in 0..MaxEpoch /\ epoch + 1 \in 0..MaxEpoch
  BY EffectAssumption DEF Acquire, EffectTypeOK
<1>3. x \in {"look", "list"} /\ call[p] \in Call
  BY DEF EffectTypeOK
<1>4. won \in Call /\ Honest(won)
  <2> HIDE DEF x
  <2> QED
    BY <1>2, <1>3, OwningType
<1>5. gone \in Call /\ Honest(gone)
  <2>1. "failed" \in Place
    BY DEF Place, Over
  <2>2. gone \in Call /\ gone.pc = "failed"
    BY <2>1, NoCallType, MovedType
  <2> QED
    BY <2>2 DEF Honest
<1>6. PICK lost \in SUBSET Proc :
        call' = [q \in Proc |-> IF q = p THEN won ELSE IF q \in lost THEN gone ELSE call[q]]
  BY DEF Acquire, Owning, Moved
<1> HIDE DEF won, gone
<1>7. \A q \in Proc : call'[q] \in {won, gone, call[q]}
  BY <1>6
<1>8. call' \in [Proc -> Call]
  BY <1>4, <1>5, <1>6 DEF EffectTypeOK
<1>9. EffectTypeOK'
  BY <1>1, <1>2, <1>8 DEF EffectTypeOK
<1>10. \A q \in Proc : Honest(call[q])
  BY DEF LandedInv, Honest
<1>11. \A q \in Proc : Honest(call'[q])
  BY <1>4, <1>5, <1>7, <1>10
<1>12. LandedInv'
  BY <1>1, <1>11 DEF LandedInv, VerifiedMeansLanded, Honest
<1> QED
  BY <1>9, <1>12

\* A foreign acquisition sends some callers home and leaves the records alone.
LEMMA OvertakeStep ==
  ASSUME EffectTypeOK, LandedInv, Overtake
  PROVE  EffectTypeOK' /\ LandedInv'
<1> DEFINE gone == Moved(NoCall, "failed")
<1>1. UNCHANGED <<record, copies, late, intents, blind, faults>>
  BY DEF Overtake, forge, history
<1>2. epoch' \in 0..MaxEpoch
  BY EffectAssumption DEF Overtake, EffectTypeOK
<1>3. gone \in Call /\ Honest(gone)
  <2>1. "failed" \in Place
    BY DEF Place, Over
  <2>2. gone \in Call /\ gone.pc = "failed"
    BY <2>1, NoCallType, MovedType
  <2> QED
    BY <2>2 DEF Honest
<1>4. PICK lost \in SUBSET Proc :
        call' = [q \in Proc |-> IF q \in lost THEN gone ELSE call[q]]
  BY DEF Overtake, Moved
<1> HIDE DEF gone
<1>5. call' \in [Proc -> Call]
  BY <1>3, <1>4 DEF EffectTypeOK
<1>6. \A q \in Proc : Honest(call'[q])
  <2>1. \A q \in Proc : call'[q] \in {gone, call[q]}
    BY <1>4
  <2>2. \A q \in Proc : Honest(call[q])
    BY DEF LandedInv, Honest
  <2> QED
    BY <1>3, <2>1, <2>2
<1>7. EffectTypeOK'
  BY <1>1, <1>2, <1>5 DEF EffectTypeOK
<1>8. LandedInv'
  BY <1>1, <1>6 DEF LandedInv, VerifiedMeansLanded, Honest
<1> QED
  BY <1>7, <1>8

\* A late post only adds a copy; a corrupted record claims nothing.
LEMMA ForgeStep ==
  ASSUME EffectTypeOK, LandedInv, LandLate \/ CorruptRecord
  PROVE  EffectTypeOK' /\ LandedInv'
<1>1. CASE LandLate
  <2>1. UNCHANGED <<epoch, record, call, intents, faults>>
    BY <1>1 DEF LandLate, store
  <2>2. /\ copies' \in [Identity -> Nat] /\ late' \subseteq Identity
        /\ blind' \in [Identity -> Nat]
        /\ \A i \in Identity : copies'[i] >= copies[i]
    BY <1>1 DEF LandLate, EffectTypeOK
  <2>3. EffectTypeOK'
    BY <2>1, <2>2 DEF EffectTypeOK
  <2>4. Proc \in SUBSET Proc /\ \A q \in Proc : call'[q] = call[q]
    BY <2>1
  <2>5. /\ VerifiedMeansLanded'
        /\ \A q \in Proc : call'[q].pc \in {"assert", "rename"} /\ call'[q].st = "verified"
             => copies'[call'[q].id] > 0
    BY <2>1, <2>2, <2>4, MoreCopies
  <2> QED
    BY <2>3, <2>5 DEF LandedInv
<1>2. CASE CorruptRecord
  <2>1. UNCHANGED <<epoch, copies, late, call, intents, blind>>
    BY <1>2 DEF CorruptRecord, forge, history
  <2>2. PICK k \in Key : record' = [record EXCEPT ![k] = Corrupt] /\ faults' = faults + 1
    BY <1>2 DEF CorruptRecord
  <2>3. record' \in [Key -> Records] /\ faults' \in Nat
    BY <2>2 DEF EffectTypeOK, Records
  <2>4. EffectTypeOK'
    BY <2>1, <2>3 DEF EffectTypeOK
  <2>5. VerifiedMeansLanded'
    BY <2>1, <2>2, EffectAssumption DEF LandedInv, VerifiedMeansLanded, EffectTypeOK
  <2> QED
    BY <2>1, <2>4, <2>5 DEF LandedInv
<1> QED
  BY <1>1, <1>2

\* Every step of EffectExecutor keeps the types and the invariant.
LEMMA LandedStep ==
  ASSUME EffectTypeOK, LandedInv, [EffectNext]_effectVars
  PROVE  EffectTypeOK' /\ LandedInv'
<1>1. CASE UNCHANGED effectVars
  BY <1>1 DEF effectVars, EffectTypeOK, LandedInv, VerifiedMeansLanded
<1>2. CASE LandLate \/ CorruptRecord \/ Overtake
  BY <1>2, ForgeStep, OvertakeStep
<1>3. ASSUME NEW p \in Proc, Execute(p) \/ Cancel(p) \/ CallStep(p) \/ Crash(p)
      PROVE  EffectTypeOK' /\ LandedInv'
  BY <1>3, AcquireStep, LookStep, ReconcileStep, AssertStep, RenameStep, PostStep,
     RecheckStep, BeginStep, CrashStep DEF CallStep
<1> QED
  BY <1>1, <1>2, <1>3 DEF EffectNext

\* The store, the forge and every call of EffectExecutor keep their types, whatever
\* the number of callers, keys and retries.
THEOREM EffectTypeCorrect == EffectSpec => [](EffectTypeOK /\ LandedInv)
<1>1. EffectInit => EffectTypeOK /\ LandedInv
  <2> SUFFICES ASSUME EffectInit PROVE EffectTypeOK /\ LandedInv
    OBVIOUS
  <2>1. EffectTypeOK
    BY NoCallType, EffectAssumption DEF EffectInit, EffectTypeOK, Records
  <2>2. VerifiedMeansLanded
    BY EffectAssumption DEF EffectInit, VerifiedMeansLanded
  <2>3. \A p \in Proc : call[p].st = "started"
    BY NoCallType DEF EffectInit
  <2> QED
    BY <2>1, <2>2, <2>3 DEF LandedInv
<1>2. EffectTypeOK /\ LandedInv /\ [EffectNext]_effectVars => (EffectTypeOK /\ LandedInv)'
  BY LandedStep
<1> QED
  BY <1>1, <1>2, PTL DEF EffectSpec

\* A 'verified' record names an identity the forge carries: execute, reconcileExisting
\* and postWithRetry write it only on a copy they made or saw, through any crash,
\* retry, fence or corruption.
THEOREM VerifiedMeansLandedHolds == EffectSpec => []VerifiedMeansLanded
<1>1. LandedInv => VerifiedMeansLanded
  BY DEF LandedInv
<1> QED
  BY <1>1, EffectTypeCorrect, PTL
-----------------------------------------------------------------------------
(***************************************************************************)
(* One call at a time                                                      *)
(***************************************************************************)
\* What the invariant says of one call.
Sound(d) == Credited(d) /\ Undecided(d) /\ FenceKept(d)

\* A call of one process at a time: no other process is in the way.
Alone == \A p, q \in Proc : p = q

\* The call of a free process holds nothing and has fenced nothing.
LEMMA NoCallFields ==
  NoCall.pc = "idle" /\ NoCall.op = "post" /\ NoCall.fenced = {} /\ NoCall.todo = {}
BY DEF NoCall

\* A move changes no other field.
LEMMA MovedFields ==
  ASSUME NEW c \in Call, NEW x
  PROVE  LET d == Moved(c, x) IN
         /\ d.pc = x /\ d.op = c.op /\ d.key = c.key /\ d.id = c.id
         /\ d.st = c.st /\ d.todo = c.todo /\ d.fenced = c.fenced
BY DEF Call, Moved

\* A claim changes only the place and the status.
LEMMA ClaimedFields ==
  ASSUME NEW c \in Call, NEW x, NEW t
  PROVE  LET d == Claimed(c, x, t) IN
         /\ d.pc = x /\ d.op = c.op /\ d.key = c.key /\ d.id = c.id
         /\ d.st = t /\ d.todo = c.todo /\ d.fenced = c.fenced
BY DEF Call, Claimed

\* So does a reconciliation's judgement.
LEMMA JudgedFields ==
  ASSUME NEW c \in Call, NEW x, NEW t, NEW n
  PROVE  LET d == Judged(c, x, t, n) IN
         /\ d.pc = x /\ d.op = c.op /\ d.key = c.key /\ d.id = c.id
         /\ d.st = t /\ d.todo = c.todo /\ d.fenced = c.fenced
BY DEF Call, Judged

\* A counted retry changes only the place.
LEMMA CountedFields ==
  ASSUME NEW c \in Call, NEW x, NEW n
  PROVE  LET d == Counted(c, x, n) IN
         /\ d.pc = x /\ d.op = c.op /\ d.key = c.key /\ d.id = c.id
         /\ d.st = c.st /\ d.todo = c.todo /\ d.fenced = c.fenced
BY DEF Call, Counted

\* A counted look changes nothing but the count.
LEMMA TriedFields ==
  ASSUME NEW c \in Call, NEW n
  PROVE  LET d == Tried(c, n) IN
         /\ d.pc = c.pc /\ d.op = c.op /\ d.key = c.key /\ d.id = c.id
         /\ d.st = c.st /\ d.todo = c.todo /\ d.fenced = c.fenced
BY DEF Call, Tried

\* Owning an epoch changes only the place.
LEMMA OwningFields ==
  ASSUME NEW c \in Call, NEW x, NEW e
  PROVE  LET d == Owning(c, x, e) IN
         /\ d.pc = x /\ d.op = c.op /\ d.key = c.key /\ d.id = c.id
         /\ d.st = c.st /\ d.todo = c.todo /\ d.fenced = c.fenced
BY DEF Call, Owning

\* The fence's updates of its list.
LEMMA FenceFields ==
  ASSUME NEW c \in Call, NEW k, NEW i, NEW ks, NEW fs
  PROVE  /\ LET d == Listing(c, ks) IN
            /\ d.pc = "mark" /\ d.op = c.op /\ d.todo = ks /\ d.fenced = c.fenced
         /\ LET d == Skipping(c, ks) IN
            /\ d.pc = c.pc /\ d.op = c.op /\ d.todo = ks /\ d.fenced = c.fenced
            /\ d.key = c.key /\ d.id = c.id /\ d.st = c.st
         /\ LET d == Fenced(c, ks, fs) IN
            /\ d.pc = "mark" /\ d.op = c.op /\ d.todo = ks /\ d.fenced = fs
         /\ LET d == Marking(c, k, i) IN
            /\ d.pc = "assert" /\ d.op = c.op /\ d.key = k /\ d.id = i
            /\ d.st = "uncertain" /\ d.todo = c.todo /\ d.fenced = c.fenced
<1>1. LET d == Listing(c, ks) IN
      /\ d.pc = "mark" /\ d.op = c.op /\ d.todo = ks /\ d.fenced = c.fenced
  BY DEF Call, Listing
<1>2. LET d == Skipping(c, ks) IN
      /\ d.pc = c.pc /\ d.op = c.op /\ d.todo = ks /\ d.fenced = c.fenced
      /\ d.key = c.key /\ d.id = c.id /\ d.st = c.st
  BY DEF Call, Skipping
<1>3. LET d == Fenced(c, ks, fs) IN
      /\ d.pc = "mark" /\ d.op = c.op /\ d.todo = ks /\ d.fenced = fs
  BY DEF Call, Fenced
<1>4. LET d == Marking(c, k, i) IN
      /\ d.pc = "assert" /\ d.op = c.op /\ d.key = k /\ d.id = i
      /\ d.st = "uncertain" /\ d.todo = c.todo /\ d.fenced = c.fenced
  BY DEF Call, Marking
<1> QED
  BY <1>1, <1>2, <1>3, <1>4

\* A call that begins, is over, or waits for an epoch with nothing fenced is sound.
LEMMA Fresh ==
  ASSUME NEW d, d.pc \in Over \cup {"acquire", "look"},
         d.op = "post" \/ (d.pc = "acquire" /\ d.fenced = {})
  PROVE  Sound(d)
<1>1. d.pc \notin {"reconcile", "post", "recheck", "assert", "rename"}
  BY DEF Over
<1>2. Credited(d) /\ Undecided(d)
  BY <1>1 DEF Credited, Undecided
<1>3. FenceKept(d)
  BY <1>1 DEF FenceKept
<1> QED
  BY <1>2, <1>3 DEF Sound

\* A step that only writes a sound call keeps the invariant.
LEMMA SoundOnly ==
  ASSUME Alone, EffectTypeOK, SoloInv, NEW p \in Proc, NEW d, Step(p, d), Sound(d),
         UNCHANGED <<record, copies, intents, blind>>
  PROVE  SoloInv'
<1>1. \A q \in Proc : call'[q] = d
  BY DEF Alone, EffectTypeOK, Step
<1>2. \A q \in Proc : (Credited(call[q]) /\ Undecided(call[q]) /\ FenceKept(call[q]))'
  BY <1>1 DEF Sound, Credited, Undecided, FenceKept
<1>3. (OneCopyPerIntent /\ \A k \in Key : record[k] \in Record => intents[record[k].id] > 0)'
  BY DEF SoloInv, OneCopyPerIntent
<1> QED
  BY <1>2, <1>3 DEF SoloInv

\* So does one that ends the call.
LEMMA SoundEnd ==
  ASSUME Alone, EffectTypeOK, SoloInv, NEW p \in Proc, NEW how \in Over, End(p, how),
         UNCHANGED <<record, copies, intents, blind>>
  PROVE  SoloInv'
<1> DEFINE d == Moved(NoCall, how)
<1>1. d.pc = how /\ d.op = "post"
  BY NoCallType, NoCallFields, MovedFields
<1>2. Step(p, d)
  BY DEF End, Moved
<1> HIDE DEF d
<1>3. Sound(d)
  BY <1>1, Fresh
<1> QED
  BY <1>2, <1>3, SoundOnly

\* What holds of the call under way, and the types its reasoning needs.
LEMMA CallSound ==
  ASSUME EffectTypeOK, SoloInv, NEW p \in Proc
  PROVE  LET c == call[p] IN
         /\ c \in Call /\ Credited(c) /\ Undecided(c) /\ FenceKept(c)
         /\ c.id \in Identity /\ c.key \in Key /\ c.op \in {"post", "fence"}
         /\ copies[c.id] \in Nat /\ intents[c.id] \in Nat /\ blind[c.id] \in Nat
         /\ copies[c.id] <= intents[c.id] + blind[c.id]
<1>1. call[p] \in Call /\ call[p].id \in Identity /\ call[p].key \in Key
      /\ call[p].op \in {"post", "fence"}
  BY DEF EffectTypeOK, Call
<1> QED
  BY <1>1 DEF SoloInv, OneCopyPerIntent, EffectTypeOK

\* execute goes on only when the record is another identity's, or is started.
LEMMA LookSound ==
  ASSUME Alone, EffectTypeOK, SoloInv, NEW p \in Proc, Look(p)
  PROVE  SoloInv'
<1> DEFINE c == call[p]
           r == record[c.key]
           d1 == Claimed(c, "assert", "started")
           d2 == Moved(c, "reconcile")
<1>1. /\ c \in Call /\ c.pc = "look" /\ c.op = "post"
      /\ UNCHANGED <<record, copies, intents, blind>>
  BY CallSound DEF Look, store, forge, history, FenceKept
<1>2. \/ End(p, "done") \/ End(p, "refused")
      \/ ~IsFor(r, c.id) /\ Step(p, d1)
      \/ IsFor(r, c.id) /\ r.st = "started" /\ Step(p, d2)
  BY DEF Look, Claimed, Moved, IsFor, Record, Status
<1>3. CASE End(p, "done") \/ End(p, "refused")
  BY <1>1, <1>3, SoundEnd, Named
<1>4. CASE ~IsFor(r, c.id) /\ Step(p, d1)
  <2>1. d1.pc = "assert" /\ d1.op = "post" /\ d1.key = c.key /\ d1.id = c.id /\ d1.st = "started"
    BY <1>1, ClaimedFields
  <2> HIDE DEF d1
  <2>2. Sound(d1)
    BY <1>4, <2>1 DEF Sound, Credited, Undecided, FenceKept
  <2> QED
    BY <1>1, <1>4, <2>2, SoundOnly
<1>5. CASE IsFor(r, c.id) /\ r.st = "started" /\ Step(p, d2)
  <2>1. d2.pc = "reconcile" /\ d2.op = "post" /\ d2.key = c.key /\ d2.id = c.id
    BY <1>1, MovedFields
  <2>2. intents[c.id] > 0
    BY <1>5, CallSound DEF SoloInv, IsFor
  <2> HIDE DEF d2
  <2>3. Sound(d2)
    BY <1>5, <2>1, <2>2 DEF Sound, Credited, Undecided, FenceKept
  <2> QED
    BY <1>1, <1>5, <2>3, SoundOnly
<1> QED
  BY <1>2, <1>3, <1>4, <1>5

\* reconcileExisting goes back to posting only when the forge has no copy.
LEMMA ReconcileSound ==
  ASSUME Alone, EffectTypeOK, SoloInv, NEW p \in Proc, Reconcile(p)
  PROVE  SoloInv'
<1> DEFINE c == call[p]
<1>1. /\ c \in Call /\ c.pc = "reconcile" /\ c.op = "post" /\ intents[c.id] > 0
      /\ UNCHANGED <<record, copies, intents, blind>>
  BY CallSound DEF Reconcile, store, forge, history, FenceKept, Credited
<1>2. \/ Step(p, Judged(c, "assert", "verified", 0))
      \/ copies[c.id] = 0 /\ Step(p, Judged(c, "assert", "started", 0))
      \/ Step(p, Judged(c, "assert", "uncertain", 0))
      \/ Step(p, Tried(c, c.tries + 1))
  BY DEF Reconcile, Judged, Tried
<1>3. ASSUME NEW t, t = "started" => copies[c.id] = 0, Step(p, Judged(c, "assert", t, 0))
      PROVE  SoloInv'
  <2> DEFINE d == Judged(c, "assert", t, 0)
  <2>1. d.pc = "assert" /\ d.op = "post" /\ d.key = c.key /\ d.id = c.id /\ d.st = t
    BY <1>1, JudgedFields
  <2> HIDE DEF d
  <2>2. Credited(d)
    BY <1>1, <1>3, <2>1, CallSound DEF Credited
  <2>3. Undecided(d) /\ FenceKept(d)
    BY <1>1, <2>1, CallSound DEF Undecided, FenceKept
  <2> QED
    BY <1>1, <1>3, <2>2, <2>3, SoundOnly DEF Sound, d
<1>4. CASE Step(p, Tried(c, c.tries + 1))
  <2> DEFINE d == Tried(c, c.tries + 1)
  <2>1. d.pc = "reconcile" /\ d.op = "post" /\ d.key = c.key /\ d.id = c.id
    BY <1>1, TriedFields
  <2> HIDE DEF d
  <2>2. Sound(d)
    BY <1>1, <2>1, CallSound DEF Sound, Credited, Undecided, FenceKept
  <2> QED
    BY <1>1, <1>4, <2>2, SoundOnly DEF d
<1> QED
  BY <1>2, <1>3, <1>4

\* The epoch check keeps what the call has found.
LEMMA AssertSound ==
  ASSUME Alone, EffectTypeOK, SoloInv, NEW p \in Proc, AssertEpoch(p)
  PROVE  SoloInv'
<1> DEFINE c == call[p]
           d1 == Moved(c, "rename")
           d2 == Counted(c, "acquire", c.tries + 1)
<1>1. c \in Call /\ c.pc = "assert" /\ UNCHANGED <<record, copies, intents, blind>>
  BY CallSound DEF AssertEpoch, store, forge, history
<1>2. \/ Step(p, d1) \/ Step(p, d2) \/ End(p, "failed")
  BY DEF AssertEpoch, Moved, Counted
<1>3. CASE Step(p, d1)
  <2>1. /\ d1.pc = "rename" /\ d1.op = c.op /\ d1.key = c.key /\ d1.id = c.id
        /\ d1.st = c.st /\ d1.todo = c.todo /\ d1.fenced = c.fenced
    BY <1>1, MovedFields
  <2> HIDE DEF d1
  <2>2. Credited(d1) /\ Undecided(d1)
    BY <1>1, <2>1, CallSound DEF Credited, Undecided
  <2>3. FenceKept(d1)
    BY <1>1, <2>1, CallSound DEF FenceKept
  <2> QED
    BY <1>1, <1>3, <2>2, <2>3, SoundOnly DEF Sound
<1>4. CASE Step(p, d2)
  <2>1. d2.pc = "acquire" /\ d2.op = c.op /\ d2.fenced = c.fenced
    BY <1>1, CountedFields
  <2> HIDE DEF d2
  <2>2. Sound(d2)
    BY <1>1, <2>1, CallSound DEF Sound, Credited, Undecided, FenceKept
  <2> QED
    BY <1>1, <1>4, <2>2, SoundOnly
<1> QED
  BY <1>1, <1>2, <1>3, <1>4, SoundEnd, Named

\* The poster's retry posts again only on an empty forge, or blindly.
LEMMA RecheckSound ==
  ASSUME Alone, EffectTypeOK, SoloInv, NEW p \in Proc, Recheck(p)
  PROVE  SoloInv'
<1> DEFINE c == call[p]
           d1 == Claimed(c, "assert", "verified")
           d2 == Moved(c, "post")
<1>1. /\ c \in Call /\ c.pc = "recheck" /\ c.op = "post" /\ intents[c.id] > 0
      /\ UNCHANGED <<record, copies, intents>>
  BY CallSound DEF Recheck, store, forge, FenceKept, Credited
<1>2. /\ d1.pc = "assert" /\ d1.op = "post" /\ d1.key = c.key /\ d1.id = c.id
      /\ d1.st = "verified"
      /\ d2.pc = "post" /\ d2.op = "post" /\ d2.key = c.key /\ d2.id = c.id
  BY <1>1, ClaimedFields, MovedFields
<1>3. \/ UNCHANGED blind /\ Step(p, d1)
      \/ UNCHANGED blind /\ copies[c.id] = 0 /\ Step(p, d2)
      \/ blind' = [blind EXCEPT ![c.id] = @ + 1] /\ Step(p, d2)
  BY DEF Recheck, Claimed, Moved
<1> HIDE DEF d1, d2
<1>4. CASE UNCHANGED blind /\ Step(p, d1)
  <2>1. Sound(d1)
    BY <1>1, <1>2, CallSound DEF Sound, Credited, Undecided, FenceKept
  <2> QED
    BY <1>1, <1>4, <2>1, SoundOnly
<1>5. CASE UNCHANGED blind /\ copies[c.id] = 0 /\ Step(p, d2)
  <2>1. Credited(d2)
    BY <1>1, <1>2, <1>5, CallSound DEF Credited
  <2>2. Undecided(d2) /\ FenceKept(d2)
    BY <1>1, <1>2, CallSound DEF Undecided, FenceKept
  <2> QED
    BY <1>1, <1>5, <2>1, <2>2, SoundOnly DEF Sound
<1>6. CASE blind' = [blind EXCEPT ![c.id] = @ + 1] /\ Step(p, d2)
  <2>1. \A q \in Proc : call'[q] = d2
    BY <1>6 DEF Alone, EffectTypeOK, Step
  <2>2. blind'[c.id] = blind[c.id] + 1 /\ \A i \in Identity : blind'[i] \in Nat /\ blind'[i] >= blind[i]
    BY <1>6, CallSound DEF EffectTypeOK
  <2>3. OneCopyPerIntent'
    BY <1>1, <2>2 DEF SoloInv, OneCopyPerIntent, EffectTypeOK
  <2>4. (\A k \in Key : record[k] \in Record => intents[record[k].id] > 0)'
    BY <1>1 DEF SoloInv
  <2>5. \A q \in Proc : Credited(call[q])'
    BY <1>1, <1>2, <2>1, <2>2, CallSound DEF Credited
  <2>6. \A q \in Proc : Undecided(call[q])' /\ FenceKept(call[q])'
    BY <1>1, <1>2, <2>1, CallSound DEF Undecided, FenceKept
  <2> QED
    BY <2>3, <2>4, <2>5, <2>6 DEF SoloInv
<1> QED
  BY <1>3, <1>4, <1>5, <1>6

\* Beginning a call, and the fence's listing and re-reading.
LEMMA BeginSound ==
  ASSUME Alone, EffectTypeOK, SoloInv, NEW p \in Proc,
         Execute(p) \/ Cancel(p) \/ List(p) \/ Mark(p)
  PROVE  SoloInv'
<1> DEFINE c == call[p]
<1>1. c \in Call /\ NoCall \in Call /\ c.todo \in SUBSET Key
  BY NoCallType DEF EffectTypeOK, Call
<1>2. UNCHANGED <<record, copies, intents, blind>>
  BY DEF Execute, Cancel, List, Mark, store, forge, history
<1>3. CASE Execute(p)
  <2>1. PICK k \in Key, i \in Identity : Step(p, Begun(NoCall, k, i))
    BY <1>3 DEF Execute, Begun
  <2>2. Begun(NoCall, k, i).pc = "acquire" /\ Begun(NoCall, k, i).op = "post"
    BY DEF Begun, NoCall
  <2>3. Sound(Begun(NoCall, k, i))
    BY <2>2, Fresh
  <2> QED
    BY <1>2, <2>1, <2>3, SoundOnly
<1>4. CASE Cancel(p)
  <2>1. Step(p, Fencing(NoCall))
    BY <1>4 DEF Cancel, Fencing
  <2>2. Fencing(NoCall).pc = "acquire" /\ Fencing(NoCall).fenced = {}
    BY DEF Fencing, NoCall
  <2>3. Sound(Fencing(NoCall))
    BY <2>2, Fresh
  <2> QED
    BY <1>2, <2>1, <2>3, SoundOnly
<1>5. CASE List(p)
  <2> DEFINE ks == {k \in Key \ c.fenced : IsStarted(record[k])}
             d == Listing(c, ks)
  <2>1. Step(p, d)
    BY <1>5 DEF List, Listing
  <2>2. d.pc = "mark" /\ d.op = c.op /\ d.todo = ks /\ d.fenced = c.fenced
    <3> HIDE DEF ks
    <3> QED
      BY <1>1, FenceFields
  <2> HIDE DEF d
  <2>3. Credited(d) /\ Undecided(d)
    BY <2>2 DEF Credited, Undecided
  <2>4. FenceKept(d)
    BY <2>2, CallSound DEF FenceKept
  <2> QED
    BY <1>2, <2>1, <2>3, <2>4, SoundOnly DEF Sound
<1>6. CASE Mark(p)
  <2>1. CASE End(p, "done")
    BY <1>2, <2>1, Named, SoundEnd
  <2>2. ASSUME NEW k \in c.todo, IsStarted(record[k]), Step(p, Marking(c, k, record[k].id))
        PROVE  SoloInv'
    <3> DEFINE i == record[k].id
               d == Marking(c, k, i)
    <3>1. k \in Key /\ record[k] \in Record /\ record[k].st = "started" /\ intents[i] > 0
      BY <1>1, <2>2 DEF IsStarted, SoloInv
    <3>2. /\ d.pc = "assert" /\ d.op = c.op /\ d.key = k /\ d.id = i
          /\ d.st = "uncertain" /\ d.todo = c.todo /\ d.fenced = c.fenced
      BY <1>1, FenceFields
    <3>3. c.pc = "mark"
      BY <1>6 DEF Mark
    <3> HIDE DEF d
    <3>4. Credited(d) /\ Undecided(d)
      BY <3>1, <3>2 DEF Credited, Undecided
    <3>5. FenceKept(d)
      BY <3>2, <3>3, CallSound DEF FenceKept
    <3> QED
      BY <1>2, <2>2, <3>4, <3>5, SoundOnly DEF Sound, d
  <2>3. ASSUME NEW k \in c.todo, ~IsStarted(record[k]), Step(p, Skipping(c, c.todo \ {k}))
        PROVE  SoloInv'
    <3> DEFINE d == Skipping(c, c.todo \ {k})
    <3>1. d.pc = c.pc /\ d.op = c.op /\ d.todo = c.todo \ {k} /\ d.fenced = c.fenced
      BY <1>1, FenceFields
    <3>2. c.pc = "mark"
      BY <1>6 DEF Mark
    <3> HIDE DEF d
    <3>3. Credited(d) /\ Undecided(d)
      BY <3>1, <3>2 DEF Credited, Undecided
    <3>4. FenceKept(d)
      BY <2>3, <3>1, <3>2, CallSound DEF FenceKept
    <3> QED
      BY <1>2, <2>3, <3>3, <3>4, SoundOnly DEF Sound, d
  <2> QED
    BY <1>6, <2>1, <2>2, <2>3 DEF Mark, Marking, Skipping
<1> QED
  BY <1>3, <1>4, <1>5, <1>6

\* Post adds the one copy its call had to its credit.
LEMMA PostSound ==
  ASSUME Alone, EffectTypeOK, SoloInv, NEW p \in Proc, Post(p)
  PROVE  SoloInv'
<1> DEFINE c == call[p]
           d1 == Claimed(c, "assert", "verified")
           d2 == Counted(c, "recheck", c.tries + 1)
           d3 == Moved(NoCall, "failed")
<1>1. /\ c \in Call /\ c.pc = "post" /\ c.op = "post" /\ intents[c.id] > 0
      /\ c.id \in Identity /\ copies[c.id] < intents[c.id] + blind[c.id]
      /\ UNCHANGED <<record, intents, blind>>
  BY CallSound DEF Post, store, history, FenceKept, Credited
<1>2. copies' = [copies EXCEPT ![c.id] = @ + 1] \/ copies' = copies
  BY DEF Post
<1>3. \E d \in {d1, d2, d3} : Step(p, d)
  BY DEF Post, End, Claimed, Counted, Moved
<1>4. /\ d1.pc = "assert" /\ d1.op = "post" /\ d1.key = c.key /\ d1.id = c.id
      /\ d1.st = "verified"
      /\ d2.pc = "recheck" /\ d2.op = "post" /\ d2.key = c.key /\ d2.id = c.id
      /\ d3.pc = "failed" /\ d3.op = "post"
  BY <1>1, ClaimedFields, CountedFields, MovedFields, NoCallType, NoCallFields
<1> HIDE DEF d1, d2, d3
<1>5. PICK d \in {d1, d2, d3} : \A q \in Proc : call'[q] = d
  BY <1>3 DEF Alone, EffectTypeOK, Step
<1>6. OneCopyPerIntent'
  BY <1>1, <1>2 DEF SoloInv, OneCopyPerIntent, EffectTypeOK
<1>7. (\A k \in Key : record[k] \in Record => intents[record[k].id] > 0)'
  BY <1>1 DEF SoloInv
<1>8. \A q \in Proc : Credited(call[q])'
  BY <1>1, <1>4, <1>5 DEF Credited
<1>9. \A q \in Proc : Undecided(call[q])' /\ FenceKept(call[q])'
  BY <1>1, <1>4, <1>5, CallSound DEF Undecided, FenceKept
<1> QED
  BY <1>6, <1>7, <1>8, <1>9 DEF SoloInv

\* A rename writes what its call has found out, and counts a fresh intent.
LEMMA RenameSound ==
  ASSUME Alone, EffectTypeOK, SoloInv, NEW p \in Proc, Rename(p)
  PROVE  SoloInv'
<1> DEFINE c == call[p]
           ks == c.todo \ {c.key}
           fs == c.fenced \cup {c.key}
           new == [id |-> c.id, st |-> c.st]
           d1 == Fenced(c, ks, fs)
           d2 == Moved(c, "post")
           d3 == Moved(NoCall, "done")
           d4 == Moved(NoCall, "refused")
<1>1. /\ c \in Call /\ c.pc = "rename" /\ c.key \in Key /\ c.id \in Identity
      /\ c.st \in {"started", "verified", "uncertain"} /\ c.op \in {"post", "fence"}
      /\ UNCHANGED <<copies, blind>>
  BY DEF EffectTypeOK, Call, Rename, Status, forge
<1>2. /\ record'[c.key] = new
      /\ \A k \in Key \ {c.key} : record'[k] = record[k]
  BY <1>1 DEF Rename, EffectTypeOK
<1>3. new.id = c.id /\ new.st = c.st /\ new \in Record
  BY <1>1 DEF Record, Status
<1> HIDE DEF new
<1>4. /\ intents'[c.id] \in Nat
      /\ intents'[c.id] = IF c.st = "started" /\ ~IsFor(record[c.key], c.id)
                            THEN intents[c.id] + 1 ELSE intents[c.id]
      /\ \A i \in Identity \ {c.id} : intents'[i] = intents[i]
  BY <1>1 DEF Rename, EffectTypeOK
<1>5. \A i \in Identity : intents[i] \in Nat /\ intents'[i] \in Nat /\ intents'[i] >= intents[i]
  BY <1>1, <1>4 DEF EffectTypeOK
<1>6. /\ intents'[c.id] > 0
      /\ c.st = "started" => copies[c.id] < intents'[c.id] + blind[c.id]
  <2>1. CASE c.st # "started"
    BY <1>1, <1>4, <2>1, CallSound DEF Credited
  <2>2. CASE c.st = "started" /\ ~IsFor(record[c.key], c.id)
    <3>1. intents'[c.id] = intents[c.id] + 1
      BY <1>4, <2>2
    <3> QED
      BY <3>1, CallSound
  <2>3. CASE c.st = "started" /\ IsFor(record[c.key], c.id)
    <3>1. intents'[c.id] = intents[c.id] /\ intents[c.id] > 0
      BY <1>1, <1>4, <2>3 DEF SoloInv, IsFor
    <3> QED
      BY <1>1, <2>3, <3>1, CallSound DEF Credited
  <2> QED
    BY <2>1, <2>2, <2>3
<1>7. OneCopyPerIntent'
  BY <1>1, <1>5 DEF SoloInv, OneCopyPerIntent, EffectTypeOK
<1>8. (\A k \in Key : record[k] \in Record => intents[record[k].id] > 0)'
  <2> SUFFICES ASSUME NEW k \in Key, record'[k] \in Record
               PROVE  intents'[record'[k].id] > 0
    OBVIOUS
  <2>1. CASE k = c.key
    BY <1>2, <1>3, <1>6, <2>1
  <2>2. CASE k # c.key
    <3>1. record'[k] = record[k] /\ record[k].id \in Identity /\ intents[record[k].id] > 0
      BY <1>2, <2>2 DEF SoloInv, Record
    <3> QED
      BY <1>5, <3>1
  <2> QED
    BY <2>1, <2>2
<1>9. \/ c.op = "fence" /\ Step(p, d1)
      \/ c.op = "post" /\ c.st = "started" /\ Step(p, d2)
      \/ Step(p, d3) \/ Step(p, d4)
  BY <1>1 DEF Rename, End, Fenced, Moved
<1>10. /\ d1.pc = "mark" /\ d1.op = c.op /\ d1.todo = ks /\ d1.fenced = fs
       /\ d2.pc = "post" /\ d2.op = c.op /\ d2.key = c.key /\ d2.id = c.id
       /\ d3.pc = "done" /\ d3.op = "post" /\ d4.pc = "refused" /\ d4.op = "post"
  <2>1. d1.pc = "mark" /\ d1.op = c.op /\ d1.todo = ks /\ d1.fenced = fs
    <3> HIDE DEF ks, fs
    <3> QED
      BY <1>1, FenceFields
  <2>2. /\ d2.pc = "post" /\ d2.op = c.op /\ d2.key = c.key /\ d2.id = c.id
        /\ d3.pc = "done" /\ d3.op = "post" /\ d4.pc = "refused" /\ d4.op = "post"
    BY <1>1, MovedFields, NoCallType, NoCallFields
  <2> QED
    BY <2>1, <2>2
<1> HIDE DEF d1, d2, d3, d4
<1>11. ASSUME NEW d, Step(p, d) PROVE \A q \in Proc : call'[q] = d
  BY <1>11 DEF Alone, EffectTypeOK, Step
<1>12. \A q \in Proc : (Credited(call[q]) /\ Undecided(call[q]) /\ FenceKept(call[q]))'
  <2>1. CASE c.op = "fence" /\ Step(p, d1)
    <3>1. \A q \in Proc : call'[q] = d1
      BY <1>11, <2>1
    <3>2. c.st = "uncertain" /\ (\A k \in c.fenced : ~IsStarted(record[k]))
          /\ \A k \in Key : IsStarted(record[k]) => k \in c.todo
      BY <1>1, <2>1, CallSound DEF FenceKept
    <3>3. ~IsStarted(record'[c.key]) /\ c.fenced \subseteq Key
      BY <1>1, <1>2, <1>3, <3>2 DEF IsStarted, EffectTypeOK, Call
    <3>4. \A q \in Proc : FenceKept(call[q])'
      BY <1>2, <1>10, <3>1, <3>2, <3>3 DEF FenceKept
    <3> QED
      BY <1>10, <3>1, <3>4 DEF Credited, Undecided
  <2>2. CASE c.op = "post" /\ c.st = "started" /\ Step(p, d2)
    <3>1. \A q \in Proc : call'[q] = d2
      BY <1>11, <2>2
    <3>2. \A q \in Proc : Credited(call[q])'
      BY <1>1, <1>6, <1>10, <2>2, <3>1 DEF Credited
    <3> QED
      BY <1>2, <1>3, <1>10, <2>2, <3>1, <3>2 DEF Undecided, FenceKept
  <2>3. CASE Step(p, d3) \/ Step(p, d4)
    <3>1. (\A q \in Proc : call'[q] = d3) \/ (\A q \in Proc : call'[q] = d4)
      BY <1>11, <2>3
    <3> QED
      BY <1>10, <3>1 DEF Credited, Undecided, FenceKept
  <2> QED
    BY <1>9, <2>1, <2>2, <2>3
<1> QED
  BY <1>7, <1>8, <1>12 DEF SoloInv

\* An acquisition, of a call's own or of another holder, moves on or sends home.
LEMMA EpochSound ==
  ASSUME Alone, EffectTypeOK, SoloInv, (\E p \in Proc : Acquire(p)) \/ Overtake
  PROVE  SoloInv'
<1> DEFINE gone == Moved(NoCall, "failed")
<1>1. UNCHANGED <<record, copies, intents, blind>>
  BY DEF Acquire, Overtake, forge, history
<1>2. gone.pc = "failed" /\ gone.op = "post"
  BY NoCallType, NoCallFields, MovedFields
<1>3. \A q \in Proc : Sound(call'[q])
  <2> SUFFICES ASSUME NEW q \in Proc PROVE Sound(call'[q])
    OBVIOUS
  <2>1. Sound(gone) /\ Sound(call[q])
    <3> HIDE DEF gone
    <3> QED
      BY <1>2, Fresh, Named, CallSound DEF Sound
  <2>2. CASE Overtake
    <3>1. call'[q] \in {gone, call[q]}
      BY <2>2 DEF Overtake, Moved
    <3> QED
      BY <2>1, <3>1
  <2>3. ASSUME NEW p \in Proc, Acquire(p) PROVE Sound(call'[q])
    <3> DEFINE x == IF call[q].op = "post" THEN "look" ELSE "list"
               won == Owning(call[q], x, epoch + 1)
    <3>1. call'[q] = won /\ call[q].pc = "acquire"
      BY <2>3 DEF Alone, Acquire, Owning
    <3>2. won.pc = x /\ won.op = call[q].op /\ won.fenced = call[q].fenced
      BY CallSound, OwningFields
    <3> HIDE DEF won
    <3>3. Credited(won) /\ Undecided(won)
      BY <3>2 DEF Credited, Undecided
    <3>4. FenceKept(won)
      BY <3>2, CallSound DEF FenceKept
    <3> QED
      BY <3>1, <3>3, <3>4 DEF Sound
  <2> QED
    BY <2>2, <2>3
<1>4. (OneCopyPerIntent /\ \A k \in Key : record[k] \in Record => intents[record[k].id] > 0)'
  BY <1>1 DEF SoloInv, OneCopyPerIntent
<1>5. \A q \in Proc : (Credited(call[q]) /\ Undecided(call[q]) /\ FenceKept(call[q]))'
  BY <1>1, <1>3 DEF Sound, Credited, Undecided, FenceKept
<1> QED
  BY <1>4, <1>5 DEF SoloInv

\* A crash forgets the call; a post of a dead process lands blindly; a corrupted
\* record names no intent, is not started and is not uncertain.
LEMMA FaultSound ==
  ASSUME Alone, EffectTypeOK, SoloInv,
         (\E p \in Proc : Crash(p)) \/ LandLate \/ CorruptRecord
  PROVE  SoloInv'
<1>1. ASSUME NEW p \in Proc, Crash(p) PROVE SoloInv'
  <2>1. Step(p, NoCall) /\ UNCHANGED <<record, copies, intents, blind>>
    BY <1>1 DEF Crash, store, history
  <2>2. Sound(NoCall)
    BY NoCallFields, Named, Fresh
  <2> QED
    BY <2>1, <2>2, SoundOnly
<1>2. CASE LandLate
  <2>1. UNCHANGED <<record, call, intents>>
    BY <1>2 DEF LandLate, store
  <2>2. PICK j \in Identity : /\ copies' = [copies EXCEPT ![j] = @ + 1]
                              /\ blind' = [blind EXCEPT ![j] = @ + 1]
    BY <1>2 DEF LandLate, EffectTypeOK
  <2>3. \A i \in Identity :
          /\ copies'[i] <= intents[i] + blind'[i] <=> copies[i] <= intents[i] + blind[i]
          /\ copies'[i] < intents[i] + blind'[i] <=> copies[i] < intents[i] + blind[i]
    BY <2>2 DEF EffectTypeOK
  <2>4. (OneCopyPerIntent /\ \A k \in Key : record[k] \in Record => intents[record[k].id] > 0)'
    BY <2>1, <2>3 DEF SoloInv, OneCopyPerIntent
  <2>5. \A q \in Proc : Credited(call[q])'
    BY <2>1, <2>3, CallSound DEF Credited
  <2>6. \A q \in Proc : Undecided(call[q])' /\ FenceKept(call[q])'
    BY <2>1, CallSound DEF Undecided, FenceKept
  <2> QED
    BY <2>4, <2>5, <2>6 DEF SoloInv
<1>3. CASE CorruptRecord
  <2>1. UNCHANGED <<copies, call, intents, blind>>
    BY <1>3 DEF CorruptRecord, forge, history
  <2>2. \A k \in Key : record'[k] = record[k] \/ record'[k] = Corrupt
    BY <1>3 DEF CorruptRecord, EffectTypeOK
  <2>3. (OneCopyPerIntent /\ \A k \in Key : record[k] \in Record => intents[record[k].id] > 0)'
    BY <2>1, <2>2, EffectAssumption DEF SoloInv, OneCopyPerIntent
  <2>4. \A q \in Proc : call[q].key \in Key /\ call[q].fenced \subseteq Key
    BY DEF EffectTypeOK, Call
  <2>5. \A q \in Proc : Credited(call[q])' /\ Undecided(call[q])'
    BY <2>1, <2>2, <2>4, CallSound, EffectAssumption DEF Credited, Undecided, IsFor
  <2>6. \A k \in Key : IsStarted(record'[k]) => IsStarted(record[k])
    BY <2>2, EffectAssumption DEF IsStarted
  <2>7. \A q \in Proc : FenceKept(call[q])'
    BY <2>1, <2>4, <2>6, CallSound DEF FenceKept
  <2> QED
    BY <2>3, <2>5, <2>7 DEF SoloInv
<1> QED
  BY <1>1, <1>2, <1>3

\* Every step keeps the invariant while calls do not overlap.
LEMMA SoloStep ==
  ASSUME Alone, EffectTypeOK, SoloInv, [EffectNext]_effectVars
  PROVE  SoloInv'
<1>1. CASE UNCHANGED effectVars
  BY <1>1 DEF effectVars, SoloInv, OneCopyPerIntent, Credited, Undecided, FenceKept
<1>2. CASE LandLate \/ CorruptRecord \/ Overtake
  BY <1>2, FaultSound, EpochSound
<1>3. ASSUME NEW p \in Proc, Execute(p) \/ Cancel(p) \/ CallStep(p) \/ Crash(p)
      PROVE  SoloInv'
  BY <1>3, EpochSound, LookSound, ReconcileSound, AssertSound, RenameSound, PostSound,
     RecheckSound, BeginSound, FaultSound DEF CallStep
<1> QED
  BY <1>1, <1>2, <1>3 DEF EffectNext

\* While calls do not overlap, every post is backed by an intent or by a look at the
\* forge, no executor works on an uncertain record, and a fence's list misses nothing.
THEOREM SoloInvariant ==
  ASSUME Alone PROVE EffectSpec => []SoloInv
<1>1. EffectInit => SoloInv
  <2> SUFFICES ASSUME EffectInit PROVE SoloInv
    OBVIOUS
  <2>1. OneCopyPerIntent /\ \A k \in Key : record[k] \in Record => intents[record[k].id] > 0
    BY EffectAssumption DEF EffectInit, OneCopyPerIntent
  <2>2. Sound(NoCall)
    BY NoCallFields, Named, Fresh
  <2>3. \A p \in Proc : call[p] = NoCall
    BY DEF EffectInit
  <2> QED
    BY <2>1, <2>2, <2>3 DEF SoloInv, Sound
<1>2. EffectTypeOK /\ SoloInv /\ [EffectNext]_effectVars => SoloInv'
  BY SoloStep
<1> QED
  BY <1>1, <1>2, EffectTypeCorrect, PTL DEF EffectSpec

\* While calls do not overlap, a comment appears once per recorded intent: neither a
\* crash between post and acknowledgement nor a re-execution adds a second copy.
THEOREM OneCopyPerIntentHolds ==
  ASSUME Alone PROVE EffectSpec => []OneCopyPerIntent
<1>1. SoloInv => OneCopyPerIntent
  BY DEF SoloInv
<1> QED
  BY <1>1, SoloInvariant, PTL

\* While calls do not overlap, an uncertain effect is never posted again, confirmed
\* or reopened by the executor.
THEOREM UncertainIsFinalHolds ==
  ASSUME Alone PROVE EffectSpec => UncertainIsFinal
<1> DEFINE P == \A k \in Key :
       record[k] \in Record /\ record[k].st = "uncertain" /\ record'[k] \in Record
         => record'[k] = record[k] \/ record'[k].id # record[k].id
<1>1. EffectTypeOK /\ SoloInv /\ [EffectNext]_effectVars => [P]_effectVars
  <2> SUFFICES ASSUME EffectTypeOK, SoloInv, EffectNext PROVE P
    OBVIOUS
  <2>1. ASSUME NEW p \in Proc, Rename(p), NEW k \in Key, record[k] \in Record,
               record[k].st = "uncertain", record'[k].id = record[k].id
        PROVE  record'[k] = record[k]
    <3> DEFINE c == call[p]
    <3>1. /\ c.pc = "rename" /\ c.key \in Key
          /\ record' = [record EXCEPT ![c.key] = [id |-> c.id, st |-> c.st]]
      BY <2>1, CallSound DEF Rename
    <3>2. CASE k # c.key
      BY <3>1, <3>2 DEF EffectTypeOK
    <3>3. CASE k = c.key
      <4>1. record'[k] = [id |-> c.id, st |-> c.st] /\ record[k].id = c.id
        BY <2>1, <3>1, <3>3 DEF EffectTypeOK
      <4>2. IsFor(record[c.key], c.id)
        BY <2>1, <3>3, <4>1 DEF IsFor
      <4>3. c.op = "fence"
        BY <2>1, <3>1, <3>3, <4>2, CallSound DEF Undecided
      <4>4. c.st = "uncertain"
        BY <3>1, <4>3, CallSound DEF FenceKept
      <4> QED
        BY <2>1, <4>1, <4>4 DEF Record
    <3> QED
      BY <3>2, <3>3
  <2>2. CASE CorruptRecord
    BY <2>2, EffectAssumption DEF CorruptRecord, EffectTypeOK
  <2>3. CASE record' = record
    BY <2>3
  <2>4. \/ record' = record \/ CorruptRecord \/ \E p \in Proc : Rename(p)
    BY DEF EffectNext, Execute, Cancel, CallStep, Acquire, Look, Reconcile, AssertEpoch,
           Post, Recheck, List, Mark, Crash, LandLate, Overtake, store
  <2> QED
    BY <2>1, <2>2, <2>3, <2>4
<1>2. [][P]_effectVars => UncertainIsFinal
  BY DEF UncertainIsFinal
<1> HIDE DEF P
<1> QED
  BY <1>1, <1>2, EffectTypeCorrect, SoloInvariant, PTL DEF EffectSpec

\* While calls do not overlap, a cancellation's fence that returns has left no effect
\* of the task started.
THEOREM FenceLeavesNothingStartedHolds ==
  ASSUME Alone PROVE EffectSpec => FenceLeavesNothingStarted
<1> DEFINE P == \A p \in Proc :
       call[p].op = "fence" /\ p \in Active /\ call'[p].pc = "done"
         => \A k \in Key : ~IsStarted(record'[k])
<1>1. EffectTypeOK /\ SoloInv /\ [EffectNext]_effectVars => [P]_effectVars
  <2> SUFFICES ASSUME EffectTypeOK, SoloInv, EffectNext,
                      NEW p \in Proc, call[p].op = "fence", p \in Active,
                      call'[p].pc = "done", NEW k \in Key
               PROVE  ~IsStarted(record'[k])
    OBVIOUS
  <2> DEFINE c == call[p]
  <2>1. c \in Call /\ FenceKept(c) /\ c.pc \notin Over
    BY CallSound DEF Active
  <2>2. ASSUME NEW d, Step(p, d) PROVE call'[p] = d
    BY <2>2 DEF EffectTypeOK, Step
  <2>3. ASSUME NEW how, End(p, how) PROVE call'[p].pc = how
    <3>1. call'[p] = Moved(NoCall, how)
      BY <2>2, <2>3 DEF End, Moved
    <3> QED
      BY <3>1, NoCallType, MovedFields
  <2>4. ~(LandLate \/ CorruptRecord \/ Overtake)
    <3>1. ~(LandLate \/ CorruptRecord)
      BY <2>1 DEF LandLate, CorruptRecord, Over
    <3>2. ASSUME Overtake PROVE FALSE
      <4>1. call'[p] \in {Moved(NoCall, "failed"), c}
        BY <3>2 DEF Overtake, Moved
      <4>2. Moved(NoCall, "failed").pc = "failed"
        BY NoCallType, MovedFields
      <4> QED
        BY <2>1, <4>1, <4>2 DEF Over
    <3> QED
      BY <3>1, <3>2
  <2>5. Execute(p) \/ Cancel(p) \/ CallStep(p) \/ Crash(p)
    BY <2>4 DEF EffectNext, Alone
  <2>6. ~(Execute(p) \/ Cancel(p))
    BY <2>1 DEF Execute, Cancel
  <2>7. ~Crash(p)
    BY <2>2, NoCallFields DEF Crash
  <2>8. ~(Look(p) \/ Reconcile(p) \/ Post(p) \/ Recheck(p))
    BY <2>1 DEF FenceKept, Look, Reconcile, Post, Recheck
  <2>9. ~Acquire(p)
    <3>1. ASSUME Acquire(p) PROVE FALSE
      <4> DEFINE x == IF c.op = "post" THEN "look" ELSE "list"
      <4>1. call'[p] = Owning(c, x, epoch + 1)
        BY <3>1 DEF Acquire, Owning
      <4>2. call'[p].pc = x
        BY <2>1, <4>1, OwningFields
      <4> QED
        BY <4>2
    <3> QED
      BY <3>1
  <2>10. ~AssertEpoch(p)
    <3>1. ASSUME AssertEpoch(p) PROVE FALSE
      <4>1. \/ Step(p, Moved(c, "rename")) \/ Step(p, Counted(c, "acquire", c.tries + 1))
            \/ End(p, "failed")
        BY <3>1 DEF AssertEpoch, Moved, Counted
      <4> QED
        BY <2>1, <2>2, <2>3, <4>1, MovedFields, CountedFields
    <3> QED
      BY <3>1
  <2>11. ~Rename(p)
    <3>1. ASSUME Rename(p) PROVE FALSE
      <4>1. Step(p, Fenced(c, c.todo \ {c.key}, c.fenced \cup {c.key}))
        BY <3>1 DEF Rename, Fenced
      <4> QED
        BY <2>1, <2>2, <4>1, FenceFields
    <3> QED
      BY <3>1
  <2>12. ~List(p)
    <3>1. ASSUME List(p) PROVE FALSE
      <4> DEFINE ks == {j \in Key \ c.fenced : IsStarted(record[j])}
      <4>1. Step(p, Listing(c, ks))
        BY <3>1 DEF List, Listing
      <4> HIDE DEF ks
      <4> QED
        BY <2>1, <2>2, <4>1, FenceFields
    <3> QED
      BY <3>1
  <2>13. CASE Mark(p)
    <3>1. c.pc = "mark" /\ record' = record
      BY <2>13 DEF Mark, store
    <3>2. c.todo = {}
      <4>1. ASSUME NEW j \in c.todo, Step(p, Marking(c, j, record[j].id)) PROVE FALSE
        BY <2>1, <2>2, <4>1, FenceFields
      <4>2. ASSUME NEW j \in c.todo, Step(p, Skipping(c, c.todo \ {j})) PROVE FALSE
        BY <2>1, <2>2, <3>1, <4>2, FenceFields
      <4> QED
        BY <2>13, <4>1, <4>2 DEF Mark, Marking, Skipping
    <3> QED
      BY <2>1, <3>1, <3>2 DEF FenceKept
  <2> QED
    BY <2>5, <2>6, <2>7, <2>8, <2>9, <2>10, <2>11, <2>12, <2>13 DEF CallStep
<1>2. [][P]_effectVars => FenceLeavesNothingStarted
  BY DEF FenceLeavesNothingStarted
<1> HIDE DEF P
<1> QED
  BY <1>1, <1>2, EffectTypeCorrect, SoloInvariant, PTL DEF EffectSpec
=============================================================================
