--------------------------- MODULE TaskStartProofs ---------------------------
(***************************************************************************)
(* Proofs about TaskStart, for any number of calls, request identities,    *)
(* detached processes, pauses and failing reads: what the claim files      *)
(* guarantee while one server, which does not die, serves the calls.       *)
(***************************************************************************)
EXTENDS TaskStart, TLAPS

\* The calls are served by one task-tools server ...
OneServer == \A c, d \in Call : ServerOf[c] = ServerOf[d]

\* ... that does not die.
ServersLive == [][\A s \in Server : ~ServerDies(s)]_vars

\* A step of call c that leaves the other calls alone.
Acts(c) ==
  /\ call' \in [Call -> CallState]
  /\ \A d \in Call \ {c} : call'[d] = call[d]

-----------------------------------------------------------------------------
(***************************************************************************)
(* Facts about the records.                                                *)
(***************************************************************************)
\* A free slot holds the idle call.
LEMMA IdleType ==
  /\ Idle \in CallState
  /\ Idle.pc = "idle" /\ Idle.via = "start" /\ Idle.tool = "start"
  /\ Idle.request = NoKey /\ Idle.pause = NoKey
  /\ Idle.child = NoChild /\ Idle.mine = {} /\ Idle.doomed = {}
BY DEF Idle, CallState, Place, Tool

\* The idle call is coherent.
LEMMA IdleCoherent == Coherent(Idle) /\ Claimed(Idle) = {}
BY IdleType DEF Coherent, Claimed

\* A request identity is not the number of a pause, and neither is the mark of none.
LEMMA KeysDiffer ==
  /\ Request \cap Pause = {} /\ NoKey \notin Request /\ NoKey \notin Pause
  /\ Request \subseteq Key /\ Pause \subseteq Key
BY TaskStartAssumption DEF Key, Pause

\* The key a call is about is a key once it has one.
LEMMA KeyOfType ==
  ASSUME StartTypeOK, NEW c \in Call
  PROVE  /\ call[c] \in CallState
         /\ call[c].request \in Request \cup {NoKey} /\ call[c].pause \in Pause \cup {NoKey}
         /\ call[c].pc \in Place /\ call[c].via \in Tool /\ call[c].tool \in Tool
         /\ call[c].mine \subseteq Key /\ call[c].doomed \subseteq Request
         /\ call[c].child \in Child \cup {NoChild, GoneChild}
         /\ KeyOf(c) \in Key \cup {NoKey}
<1>1. call[c] \in CallState
  BY DEF StartTypeOK
<1>2. /\ call[c].request \in Request \cup {NoKey} /\ call[c].pause \in Pause \cup {NoKey}
      /\ call[c].pc \in Place /\ call[c].via \in Tool /\ call[c].tool \in Tool
      /\ call[c].mine \subseteq Key /\ call[c].doomed \subseteq Request
      /\ call[c].child \in Child \cup {NoChild, GoneChild}
  BY <1>1 DEF CallState
<1>3. KeyOf(c) \in Key \cup {NoKey}
  BY <1>2, KeysDiffer DEF KeyOf
<1> QED
  BY <1>1, <1>2, <1>3

\* While c has the server's turn every other call is free or awaits its launch.
LEMMA OthersRest ==
  ASSUME OneServer, StartTypeOK, NEW c \in Call, Turn(c)
  PROVE  \A d \in Call \ {c} : call[d].pc \in {"idle", "wait"}
BY KeyOfType DEF OneServer, Turn, Synchronous, Place

\* A claim is a record with its fields.
LEMMA ClaimType ==
  ASSUME StartTypeOK, NEW k \in Key, Held(k)
  PROVE  claim[k] \in Claim /\ claim[k].age \in Age
         /\ claim[k].child \in Child \cup {NoChild, GoneChild}
BY DEF StartTypeOK, Held, Claim

-----------------------------------------------------------------------------
(***************************************************************************)
(* The kinds of steps a call makes.                                        *)
(***************************************************************************)
\* A call moves: it changes neither claims nor processes nor what it holds.
LEMMA MoveKeeps ==
  ASSUME OneServer, StartTypeOK, StartInv, NEW c \in Call, Turn(c), Acts(c),
         UNCHANGED <<claim, child>>, HoldInv',
         Coherent(call'[c]), call'[c].mine = call[c].mine,
         call'[c].pc = "unlink" => \A r \in call'[c].doomed : DeadClaim(r),
         call'[c].pc = "release" => DeadClaim(KeyOf(c)'),
         call[c].pc # "confirm",
         call'[c].pc = "confirm" => call'[c].pause \notin call'[c].mine,
         \A p \in Child : Awaits(c, p) => Awaits(c, p)'
  PROVE  StartInv'
<1>1. OneTurn'
  BY OthersRest DEF Acts, OneTurn, Synchronous
<1>2. \A d \in Call : Coherent(call[d])'
  BY DEF Acts, StartInv
<1>3. \A d \in Call : call'[d].mine = call[d].mine
  BY DEF Acts
<1>4. FlightInv'
  <2>1. \A d \in Call \ {c} : call'[d].pc = call[d].pc /\ call'[d].pause = call[d].pause
    BY DEF Acts
  <2> QED
    BY <1>3, <2>1 DEF StartInv, FlightInv, Held
<1>5. DeadInv'
  <2> SUFFICES ASSUME NEW d \in Call
               PROVE  /\ call'[d].pc = "unlink" => \A r \in call'[d].doomed : DeadClaim(r)'
                      /\ call'[d].pc = "release" => DeadClaim(KeyOf(d))'
    BY DEF DeadInv
  <2>1. CASE d = c
    BY <2>1 DEF DeadClaim, Held, LaunchAlive
  <2>2. CASE d # c
    BY <2>2, OthersRest DEF Acts
  <2> QED
    BY <2>1, <2>2
<1>6. LaunchInv'
  <2> SUFFICES ASSUME NEW p \in Child, Live(p)', child'[p].key # NoKey
               PROVE  \/ \E d \in Call : Awaits(d, p)'
                      \/ (Held(child[p].key) /\ claim[child[p].key].child = p)'
    BY DEF LaunchInv
  <2>1. Live(p) /\ child[p].key # NoKey /\ child'[p] = child[p]
    BY DEF Live
  <2>2. CASE Held(child[p].key) /\ claim[child[p].key].child = p
    BY <2>2 DEF Held
  <2>3. ASSUME NEW d \in Call, Awaits(d, p) PROVE \E e \in Call : Awaits(e, p)'
    <3>1. CASE d = c
      BY <2>3, <3>1
    <3>2. CASE d # c
      BY <2>3, <3>2 DEF Acts, Awaits, KeyOf
    <3> QED
      BY <3>1, <3>2
  <2> QED
    BY <2>1, <2>2, <2>3 DEF StartInv, LaunchInv
<1>7. NoEmptyClaim'
  BY <1>3 DEF StartInv, NoEmptyClaim, InFlight, Held
<1> QED
  BY <1>1, <1>2, <1>4, <1>5, <1>6, <1>7 DEF StartInv

\* A call removes claims that are dead, or that are its own and name no process.
LEMMA RemoveKeeps ==
  ASSUME OneServer, StartTypeOK, StartInv, NEW c \in Call, Turn(c), Acts(c), NEW ks \in SUBSET Key,
         claim' = [k \in Key |-> IF k \in ks THEN NoClaim ELSE claim[k]],
         child' = child, HoldInv',
         Coherent(call'[c]), call'[c].mine = call[c].mine \ ks,
         call[c].pc \notin {"wait", "join", "confirm"},
         call'[c].pc \notin {"unlink", "release", "confirm"},
         \A k \in ks : DeadClaim(k) \/ k \in call[c].mine
  PROVE  StartInv'
<1>1. OneTurn'
  BY OthersRest DEF Acts, OneTurn, Synchronous
<1>2. \A d \in Call : Coherent(call[d])'
  BY DEF Acts, StartInv
<1>3. \A d \in Call : call[d].mine \subseteq Key
  BY KeyOfType
<1>4. \A d \in Call : call'[d].mine = call[d].mine \ ks
  <2> SUFFICES ASSUME NEW d \in Call \ {c} PROVE call'[d].mine = call[d].mine \ ks
    OBVIOUS
  <2>1. ASSUME NEW k \in ks, k \in call[d].mine PROVE FALSE
    BY <2>1 DEF StartInv, FlightInv, DeadClaim
  <2> QED
    BY <2>1 DEF Acts
<1>5. \A d \in Call \ {c} : call'[d].pc = call[d].pc /\ call'[d].pause = call[d].pause
  BY DEF Acts
<1>6. \A k \in Key \ ks : claim'[k] = claim[k]
  OBVIOUS
<1>7. FlightInv'
  BY <1>3, <1>4, <1>5, <1>6 DEF StartInv, FlightInv, Held
<1>8. DeadInv'
  BY OthersRest DEF Acts, DeadInv
<1>9. LaunchInv'
  <2> SUFFICES ASSUME NEW p \in Child, Live(p)', child'[p].key # NoKey
               PROVE  \/ \E d \in Call : Awaits(d, p)'
                      \/ (Held(child[p].key) /\ claim[child[p].key].child = p)'
    BY DEF LaunchInv
  <2>1. Live(p) /\ child[p].key # NoKey /\ child'[p] = child[p] /\ child[p].key \in Key
    BY DEF Live, StartTypeOK
  <2>2. CASE Held(child[p].key) /\ claim[child[p].key].child = p
    <3>1. child[p].key \notin ks
      BY <2>2, TaskStartAssumption DEF DeadClaim, LaunchAlive, StartInv, FlightInv
    <3> QED
      BY <1>6, <2>1, <2>2, <3>1 DEF Held
  <2>3. ASSUME NEW d \in Call, Awaits(d, p) PROVE \E e \in Call : Awaits(e, p)'
    <3>1. d # c
      BY <2>3 DEF Awaits
    <3> QED
      BY <2>3, <3>1 DEF Acts, Awaits, KeyOf
  <2> QED
    BY <2>1, <2>2, <2>3 DEF StartInv, LaunchInv
<1>10. NoEmptyClaim'
  BY <1>4, <1>6 DEF StartInv, NoEmptyClaim, InFlight, Held
<1> QED
  BY <1>1, <1>2, <1>7, <1>8, <1>9, <1>10 DEF StartInv

\* A call writes one claim: it creates it, fills it in, joins what it launched to it,
\* or confirms it.
LEMMA WriteKeeps ==
  ASSUME OneServer, StartTypeOK, StartInv, NEW c \in Call, Turn(c), Acts(c),
         NEW k \in Key, NEW new \in Claim,
         claim' = [claim EXCEPT ![k] = new], child' = child, HoldInv',
         Coherent(call'[c]),
         ~Held(k) \/ k \in call[c].mine,
         call[c].pc = "confirm" => call'[c].mine = {} /\ k # call[c].pause,
         call'[c].pc \notin {"unlink", "release"},
         call'[c].mine \subseteq call[c].mine \cup {k},
         \A j \in call[c].mine \ {k} : j \in call'[c].mine \/ claim[j].child # NoChild,
         k \in call'[c].mine =>
            /\ new.age \in {"torn", "fresh"}
            /\ new.child = NoChild <=> ~(call'[c].pc = "confirm" /\ k = call'[c].pause),
         call'[c].pc = "confirm" => call'[c].pause \notin call'[c].mine \ {k},
         k \notin call'[c].mine => new.child # NoChild \/ new.confirmed,
         \A p \in Child : Awaits(c, p) => Awaits(c, p)' \/ (child[p].key = k /\ new.child = p)
  PROVE  StartInv'
<1>1. OneTurn'
  BY OthersRest DEF Acts, OneTurn, Synchronous
<1>2. \A d \in Call : Coherent(call[d])'
  BY DEF Acts, StartInv
<1>3. \A d \in Call : call[d].mine \subseteq Key /\ call'[d].mine \subseteq Key
  BY KeyOfType DEF Acts
<1>4. \A d \in Call \ {c} :
        /\ call'[d].pc = call[d].pc /\ call'[d].pause = call[d].pause
        /\ call'[d].mine = call[d].mine /\ k \notin call[d].mine
  BY DEF Acts, StartInv, FlightInv
<1>5. /\ claim'[k] = new /\ new # NoClaim
      /\ \A j \in Key \ {k} : claim'[j] = claim[j]
  BY TaskStartAssumption DEF StartTypeOK
<1>6. FlightInv'
  <2> SUFFICES ASSUME NEW d \in Call, NEW j \in call'[d].mine
               PROVE  /\ \A e \in Call : j \in call'[e].mine => d = e
                      /\ Held(j)' /\ claim'[j].age \in {"torn", "fresh"}
                      /\ claim'[j].child = NoChild <=> ~(call'[d].pc = "confirm" /\ j = call'[d].pause)
    BY DEF FlightInv
  <2>1. CASE d # c
    <3>1. j \in Key \ {k} /\ j \in call[d].mine /\ \A e \in Call : j \in call'[e].mine => j \in call[e].mine
      BY <1>3, <1>4, <2>1
    <3> QED
      BY <1>4, <1>5, <2>1, <3>1 DEF StartInv, FlightInv, Held
  <2>2. CASE d = c /\ j = k
    BY <1>4, <1>5, <2>2 DEF Held
  <2>3. CASE d = c /\ j # k
    <3>1. j \in Key \ {k} /\ j \in call[c].mine /\ call[c].pc # "confirm"
      BY <1>3, <2>3
    <3>2. \A e \in Call : j \in call'[e].mine => j \in call[e].mine
      BY <1>4, <3>1
    <3> QED
      BY <1>5, <2>3, <3>1, <3>2 DEF StartInv, FlightInv, Held
  <2> QED
    BY <2>1, <2>2, <2>3
<1>7. DeadInv'
  BY OthersRest DEF Acts, DeadInv
<1>8. LaunchInv'
  <2> SUFFICES ASSUME NEW p \in Child, Live(p)', child'[p].key # NoKey
               PROVE  \/ \E d \in Call : Awaits(d, p)'
                      \/ (Held(child[p].key) /\ claim[child[p].key].child = p)'
    BY DEF LaunchInv
  <2>1. Live(p) /\ child[p].key # NoKey /\ child'[p] = child[p] /\ child[p].key \in Key
    BY DEF Live, StartTypeOK
  <2>2. CASE Held(child[p].key) /\ claim[child[p].key].child = p
    <3>1. child[p].key # k
      BY <2>2, TaskStartAssumption DEF StartInv, FlightInv
    <3> QED
      BY <1>5, <2>1, <2>2, <3>1 DEF Held
  <2>3. ASSUME NEW d \in Call, Awaits(d, p)
        PROVE  \/ \E e \in Call : Awaits(e, p)'
               \/ (Held(child[p].key) /\ claim[child[p].key].child = p)'
    <3>1. CASE d = c
      BY <1>5, <2>1, <2>3, <3>1 DEF Held
    <3>2. CASE d # c
      BY <2>3, <3>2 DEF Acts, Awaits, KeyOf
    <3> QED
      BY <3>1, <3>2
  <2> QED
    BY <2>1, <2>2, <2>3 DEF StartInv, LaunchInv
<1>9. NoEmptyClaim'
  <2> SUFFICES ASSUME NEW j \in Key, Held(j)', ~InFlight(j)'
               PROVE  claim'[j].child # NoChild \/ claim'[j].confirmed
    BY DEF NoEmptyClaim
  <2>1. \A d \in Call : j \notin call'[d].mine
    BY DEF InFlight
  <2>2. CASE j = k
    BY <1>5, <2>1, <2>2
  <2>3. CASE j # k /\ j \in call[c].mine
    BY <1>5, <2>1, <2>3
  <2>4. CASE j # k /\ j \notin call[c].mine
    <3>1. \A d \in Call : j \notin call[d].mine
      BY <1>4, <2>1, <2>4
    <3> QED
      BY <1>5, <2>4, <3>1 DEF StartInv, NoEmptyClaim, InFlight, Held
  <2> QED
    BY <2>2, <2>3, <2>4
<1> QED
  BY <1>1, <1>2, <1>6, <1>7, <1>8, <1>9 DEF StartInv

\* A call launches a process under its own claim.
LEMMA LaunchKeeps ==
  ASSUME OneServer, StartTypeOK, StartInv, NEW c \in Call, Turn(c), Acts(c), NEW q \in Child,
         ~Live(q), child' = [child EXCEPT ![q] = [at |-> "prep", key |-> KeyOf(c)]],
         claim' = claim, HoldInv', Coherent(call'[c]), call'[c].mine = call[c].mine,
         call[c].pc = "launch", call'[c].pc = "wait", call'[c].child = q,
         KeyOf(c)' = KeyOf(c)
  PROVE  StartInv'
<1>1. OneTurn'
  BY OthersRest DEF Acts, OneTurn, Synchronous
<1>2. \A d \in Call : Coherent(call[d])'
  BY DEF Acts, StartInv
<1>3. \A d \in Call : call'[d].mine = call[d].mine
  BY DEF Acts
<1>4. FlightInv'
  <2>1. \A d \in Call \ {c} : call'[d].pc = call[d].pc /\ call'[d].pause = call[d].pause
    BY DEF Acts
  <2> QED
    BY <1>3, <2>1 DEF StartInv, FlightInv, Held
<1>5. DeadInv'
  BY OthersRest DEF Acts, DeadInv
<1>6. LaunchInv'
  <2> SUFFICES ASSUME NEW p \in Child, Live(p)', child'[p].key # NoKey
               PROVE  \/ \E d \in Call : Awaits(d, p)'
                      \/ (Held(child[p].key) /\ claim[child[p].key].child = p)'
    BY DEF LaunchInv
  <2>1. CASE p = q
    <3>1. child'[p].key = KeyOf(c)
      BY <2>1 DEF StartTypeOK
    <3> QED
      BY <2>1, <3>1 DEF Awaits
  <2>2. CASE p # q
    <3>1. child'[p] = child[p]
      BY <2>2 DEF StartTypeOK
    <3>2. Live(p) /\ child[p].key # NoKey
      BY <3>1 DEF Live
    <3>3. CASE Held(child[p].key) /\ claim[child[p].key].child = p
      BY <3>1, <3>3 DEF Held
    <3>4. ASSUME NEW d \in Call, Awaits(d, p) PROVE \E e \in Call : Awaits(e, p)'
      <4>1. d # c
        BY <3>4 DEF Awaits
      <4> QED
        BY <3>1, <3>4, <4>1 DEF Acts, Awaits, KeyOf
    <3> QED
      BY <3>2, <3>3, <3>4 DEF StartInv, LaunchInv
  <2> QED
    BY <2>1, <2>2
<1>7. NoEmptyClaim'
  BY <1>3 DEF StartInv, NoEmptyClaim, InFlight, Held
<1> QED
  BY <1>1, <1>2, <1>4, <1>5, <1>6, <1>7 DEF StartInv

-----------------------------------------------------------------------------
(***************************************************************************)
(* The launched processes, the Principal and time.                         *)
(***************************************************************************)
\* A process is gone; whoever recorded it finds it dead.
LEMMA GoneKeeps ==
  ASSUME StartTypeOK, StartInv, NEW q \in Child, Gone(q), HoldInv'
  PROVE  StartInv' /\ call' \in [Call -> CallState] /\ claim' \in [Key -> Claim \cup {NoClaim}]
<1>1. \A d \in Call :
        /\ call'[d] \in CallState
        /\ call'[d].pc = call[d].pc /\ call'[d].via = call[d].via /\ call'[d].tool = call[d].tool
        /\ call'[d].request = call[d].request /\ call'[d].pause = call[d].pause
        /\ call'[d].mine = call[d].mine /\ call'[d].doomed = call[d].doomed
        /\ call'[d].child = IF call[d].child = q THEN GoneChild ELSE call[d].child
  BY KeyOfType DEF Gone, CallState
<1>2. \A k \in Key :
        /\ claim[k] = NoClaim => claim'[k] = NoClaim
        /\ Held(k) => /\ claim'[k] \in Claim
                      /\ claim'[k].age = claim[k].age /\ claim'[k].confirmed = claim[k].confirmed
                      /\ claim'[k].child = IF claim[k].child = q THEN GoneChild ELSE claim[k].child
  BY ClaimType DEF Gone, Held, Claim
<1>3. \A k \in Key : Held(k)' <=> Held(k)
  BY <1>2, TaskStartAssumption DEF Held
<1>4. call' \in [Call -> CallState] /\ claim' \in [Key -> Claim \cup {NoClaim}]
  BY <1>1, <1>2 DEF Gone, Held
<1>5. OneTurn'
  BY <1>1 DEF StartInv, OneTurn
<1>6. \A d \in Call : Coherent(call[d])'
  <2> SUFFICES ASSUME NEW d \in Call PROVE Coherent(call'[d])
    OBVIOUS
  <2>1. CASE call[d].child = q
    <3>1. call[d].pc # "idle"
      BY <2>1, IdleType, TaskStartAssumption DEF StartInv, Coherent
    <3>2. Claimed(call'[d]) = Claimed(call[d])
      BY <1>1 DEF Claimed
    <3> QED
      BY <1>1, <3>1, <3>2, TaskStartAssumption DEF StartInv, Coherent
  <2>2. CASE call[d].child # q
    BY <2>2 DEF Gone, StartInv
  <2> QED
    BY <2>1, <2>2
<1>7. FlightInv'
  <2> SUFFICES ASSUME NEW d \in Call, NEW j \in call[d].mine
               PROVE  /\ \A e \in Call : j \in call'[e].mine => d = e
                      /\ Held(j)' /\ claim'[j].age \in {"torn", "fresh"}
                      /\ claim'[j].child = NoChild <=> ~(call'[d].pc = "confirm" /\ j = call'[d].pause)
    BY <1>1 DEF FlightInv
  <2>1. j \in Key
    BY KeyOfType
  <2> QED
    BY <1>1, <1>2, <1>3, <2>1, TaskStartAssumption DEF StartInv, FlightInv
<1>8. DeadInv'
  <2>1. \A k \in Key : DeadClaim(k) => DeadClaim(k)'
    BY <1>2, <1>3, TaskStartAssumption DEF DeadClaim, LaunchAlive
  <2>2. \A d \in Call : KeyOf(d)' = KeyOf(d) /\ call[d].doomed \subseteq Key
    BY <1>1, KeyOfType, KeysDiffer DEF KeyOf
  <2>3. \A d \in Call : call[d].pc = "release" => KeyOf(d) \in Key
    BY KeyOfType, KeysDiffer DEF StartInv, Coherent, KeyOf, Tool
  <2> QED
    BY <1>1, <2>1, <2>2, <2>3 DEF StartInv, DeadInv
<1>9. LaunchInv'
  <2> SUFFICES ASSUME NEW p \in Child, Live(p)', child'[p].key # NoKey
               PROVE  \/ \E d \in Call : Awaits(d, p)'
                      \/ (Held(child[p].key) /\ claim[child[p].key].child = p)'
    BY DEF LaunchInv
  <2>1. p # q /\ child'[p] = child[p]
    BY DEF Gone, Live, StartTypeOK
  <2>2. Live(p) /\ child[p].key # NoKey /\ child[p].key \in Key
    BY <2>1 DEF Live, StartTypeOK
  <2>3. CASE Held(child[p].key) /\ claim[child[p].key].child = p
    BY <1>2, <1>3, <2>1, <2>2, <2>3
  <2>4. ASSUME NEW d \in Call, Awaits(d, p) PROVE \E e \in Call : Awaits(e, p)'
    BY <1>1, <2>1, <2>4 DEF Awaits, KeyOf
  <2> QED
    BY <2>2, <2>3, <2>4 DEF StartInv, LaunchInv
<1>10. NoEmptyClaim'
  BY <1>1, <1>2, <1>3, TaskStartAssumption DEF StartInv, NoEmptyClaim, InFlight
<1> QED
  BY <1>4, <1>5, <1>6, <1>7, <1>8, <1>9, <1>10 DEF StartInv

\* Steps that leave the claims and the calls alone, and no process without its key.
LEMMA WorldKeeps ==
  ASSUME StartTypeOK, StartInv, UNCHANGED <<claim, call>>, HoldInv',
         \A p \in Child : Live(p)' /\ child'[p].key # NoKey =>
                            Live(p) /\ child'[p].key = child[p].key
  PROVE  StartInv'
<1>1. OneTurn' /\ (\A d \in Call : Coherent(call[d])') /\ FlightInv' /\ NoEmptyClaim'
  BY DEF StartInv, OneTurn, FlightInv, NoEmptyClaim, InFlight, Held
<1>2. DeadInv'
  BY DEF StartInv, DeadInv, DeadClaim, Held, LaunchAlive, KeyOf
<1>3. LaunchInv'
  <2> SUFFICES ASSUME NEW p \in Child, Live(p)', child'[p].key # NoKey
               PROVE  \/ \E d \in Call : Awaits(d, p)'
                      \/ (Held(child[p].key) /\ claim[child[p].key].child = p)'
    BY DEF LaunchInv
  <2>1. Live(p) /\ child'[p].key = child[p].key
    OBVIOUS
  <2>2. CASE Held(child[p].key) /\ claim[child[p].key].child = p
    BY <2>1, <2>2 DEF Held
  <2>3. ASSUME NEW d \in Call, Awaits(d, p) PROVE \E e \in Call : Awaits(e, p)'
    BY <2>1, <2>3 DEF Awaits, KeyOf
  <2> QED
    BY <2>1, <2>2, <2>3 DEF StartInv, LaunchInv
<1> QED
  BY <1>1, <1>2, <1>3 DEF StartInv

\* A claim grows old only when nobody is writing it.
LEMMA AgeKeeps ==
  ASSUME StartTypeOK, StartInv, NEW k \in Key, ClaimAges(k)
  PROVE  StartInv' /\ StartTypeOK'
<1>1. UNCHANGED <<call, child, lock, traced, hold, newer, crashes, hiccups>>
  BY DEF ClaimAges, task
<1>2. PICK a \in {"stale", "past"} :
        /\ claim' = [claim EXCEPT ![k].age = a]
        /\ Held(k) /\ ~InFlight(k)
  <2>1. InFlight(k) => claim[k].age \in {"torn", "fresh"}
    BY DEF StartInv, FlightInv, InFlight
  <2> QED
    BY <2>1 DEF ClaimAges
<1>3. /\ claim'[k] \in Claim /\ claim'[k].age = a
      /\ claim'[k].child = claim[k].child /\ claim'[k].confirmed = claim[k].confirmed
  BY <1>2, ClaimType DEF StartTypeOK, Claim, Age
<1>4. \A j \in Key \ {k} : claim'[j] = claim[j]
  BY <1>2 DEF StartTypeOK
<1>5. \A j \in Key : /\ Held(j)' <=> Held(j)
                     /\ Held(j) => claim'[j].child = claim[j].child
  BY <1>2, <1>3, <1>4, TaskStartAssumption DEF Held
<1>6. StartTypeOK'
  <2>1. claim' \in [Key -> Claim \cup {NoClaim}]
    BY <1>2, <1>3, <1>4 DEF StartTypeOK
  <2> QED
    BY <1>1, <2>1 DEF StartTypeOK
<1>7. OneTurn' /\ (\A d \in Call : Coherent(call[d])') /\ HoldInv'
  BY <1>1 DEF StartInv, OneTurn, HoldInv
<1>8. FlightInv'
  <2>1. \A d \in Call : \A j \in call[d].mine : j \in Key \ {k}
    BY <1>2, KeyOfType DEF InFlight
  <2> QED
    BY <1>1, <1>4, <1>5, <2>1 DEF StartInv, FlightInv
<1>9. DeadInv'
  <2>1. \A j \in Key : DeadClaim(j) => DeadClaim(j)'
    BY <1>3, <1>4, <1>5 DEF DeadClaim, LaunchAlive
  <2>2. \A d \in Call : KeyOf(d)' = KeyOf(d) /\ call[d].doomed \subseteq Key
    BY <1>1, KeyOfType, KeysDiffer DEF KeyOf
  <2>3. \A d \in Call : call[d].pc = "release" => KeyOf(d) \in Key
    BY KeyOfType, KeysDiffer DEF StartInv, Coherent, KeyOf, Tool
  <2> QED
    BY <1>1, <2>1, <2>2, <2>3 DEF StartInv, DeadInv
<1>10. LaunchInv'
  <2> SUFFICES ASSUME NEW p \in Child, Live(p)', child'[p].key # NoKey
               PROVE  \/ \E d \in Call : Awaits(d, p)'
                      \/ (Held(child[p].key) /\ claim[child[p].key].child = p)'
    BY DEF LaunchInv
  <2>1. Live(p) /\ child'[p] = child[p] /\ child[p].key # NoKey /\ child[p].key \in Key
    BY <1>1 DEF Live, StartTypeOK
  <2>2. CASE Held(child[p].key) /\ claim[child[p].key].child = p
    BY <1>5, <2>1, <2>2
  <2>3. ASSUME NEW d \in Call, Awaits(d, p) PROVE \E e \in Call : Awaits(e, p)'
    BY <1>1, <2>3 DEF Awaits, KeyOf
  <2> QED
    BY <2>1, <2>2, <2>3 DEF StartInv, LaunchInv
<1>11. NoEmptyClaim'
  <2> SUFFICES ASSUME NEW j \in Key, Held(j)', ~InFlight(j)'
               PROVE  claim'[j].child # NoChild \/ claim'[j].confirmed
    BY DEF NoEmptyClaim
  <2>1. Held(j) /\ ~InFlight(j)
    BY <1>1, <1>5 DEF InFlight
  <2> QED
    BY <1>3, <1>4, <2>1 DEF StartInv, NoEmptyClaim
<1> QED
  BY <1>6, <1>7, <1>8, <1>9, <1>10, <1>11 DEF StartInv

\* The processes of the task and its Principal.
LEMMA ProcessKeeps ==
  ASSUME StartTypeOK, StartInv, NEW p \in Child,
         \/ Foreground(p) \/ PreparationEnds(p) \/ ConsumeResolution(p) \/ EnterGate(p)
         \/ DriverPauses(p) \/ DriverPublishes(p) \/ DriverEnds(p)
  PROVE  StartInv' /\ StartTypeOK'
<1> DEFINE ChildType == [at : {"gone", "prep", "drive"}, key : Key \cup {NoKey}]
<1>1. child[p] \in ChildType /\ hold \in [n : 0..MaxPauses, is : Disposition, pr : BOOLEAN]
  BY DEF StartTypeOK
<1>2. CASE Foreground(p)
  <2>1. /\ UNCHANGED <<claim, call, lock, traced, hold, newer, crashes, hiccups>>
        /\ child' = [child EXCEPT ![p] = [at |-> "prep", key |-> NoKey]]
    BY <1>2 DEF Foreground, task, bounds
  <2>2. child' \in [Child -> ChildType]
    BY <2>1 DEF StartTypeOK
  <2>3. StartTypeOK'
    BY <2>1, <2>2 DEF StartTypeOK
  <2>4. HoldInv' /\ \A q \in Child : Live(q)' /\ child'[q].key # NoKey =>
                      Live(q) /\ child'[q].key = child[q].key
    BY <2>1 DEF StartInv, HoldInv, Live, StartTypeOK
  <2> QED
    BY <2>1, <2>3, <2>4, WorldKeeps
<1>3. CASE PreparationEnds(p)
  <2>1. Gone(p) /\ UNCHANGED <<lock, traced, hold, newer, crashes, hiccups>>
    BY <1>3 DEF PreparationEnds, task, bounds
  <2>2. StartInv' /\ call' \in [Call -> CallState] /\ claim' \in [Key -> Claim \cup {NoClaim}]
    BY <2>1, GoneKeeps DEF StartInv, HoldInv
  <2>3. child' \in [Child -> ChildType]
    BY <2>1 DEF Gone, StartTypeOK
  <2> QED
    BY <2>1, <2>2, <2>3 DEF StartTypeOK
<1>4. CASE ConsumeResolution(p) \/ DriverPauses(p) \/ DriverPublishes(p)
  <2>1. UNCHANGED <<claim, call, child, lock, traced, newer, crashes, hiccups>>
    BY <1>4 DEF ConsumeResolution, DriverPauses, DriverPublishes, bounds
  <2>2. hold' \in [n : 0..MaxPauses, is : Disposition, pr : BOOLEAN] /\ HoldInv'
    <3>1. CASE ConsumeResolution(p)
      <4>1. hold' = [hold EXCEPT !.is = "resumed"]
        BY <3>1 DEF ConsumeResolution
      <4>2. hold' \in [n : 0..MaxPauses, is : Disposition, pr : BOOLEAN]
        BY <1>1, <4>1 DEF Disposition
      <4>3. hold'.is = "resumed"
        BY <1>1, <4>1
      <4> QED
        BY <4>2, <4>3 DEF HoldInv
    <3>2. CASE DriverPauses(p)
      <4>1. PICK is \in {"awaiting", "self"}, pr \in BOOLEAN :
              hold' = [n |-> hold.n + 1, is |-> is, pr |-> pr]
        BY <3>2 DEF DriverPauses
      <4>2. hold.n + 1 \in 0..MaxPauses /\ hold.n + 1 \in Pause
        BY <1>1, <3>2, TaskStartAssumption DEF DriverPauses, Pause
      <4>3. hold' \in [n : 0..MaxPauses, is : Disposition, pr : BOOLEAN]
        BY <4>1, <4>2 DEF Disposition
      <4>4. hold'.n \in Pause
        BY <4>1, <4>2
      <4> QED
        BY <4>3, <4>4 DEF HoldInv
    <3>3. CASE DriverPublishes(p)
      <4>1. hold' = [hold EXCEPT !.is = "published"]
        BY <3>3 DEF DriverPublishes
      <4>2. hold' \in [n : 0..MaxPauses, is : Disposition, pr : BOOLEAN]
        BY <1>1, <4>1 DEF Disposition
      <4>3. hold'.is = "published"
        BY <1>1, <4>1
      <4> QED
        BY <4>2, <4>3 DEF HoldInv
    <3> QED
      BY <1>4, <3>1, <3>2, <3>3
  <2>3. StartInv'
    BY <2>1, <2>2, WorldKeeps DEF Live
  <2> QED
    BY <2>1, <2>2, <2>3 DEF StartTypeOK
<1>5. CASE EnterGate(p)
  <2>1. /\ UNCHANGED <<claim, call, traced, hold, crashes, hiccups>>
        /\ lock' = p /\ newer' = {} /\ child' = [child EXCEPT ![p].at = "drive"]
        /\ child[p].at = "prep"
    BY <1>5 DEF EnterGate, bounds
  <2>2. child' \in [Child -> ChildType] /\ child'[p].key = child[p].key
        /\ \A q \in Child \ {p} : child'[q] = child[q]
    BY <1>1, <2>1 DEF StartTypeOK
  <2>3. HoldInv' /\ \A q \in Child : Live(q)' /\ child'[q].key # NoKey =>
                      Live(q) /\ child'[q].key = child[q].key
    BY <2>1, <2>2 DEF StartInv, HoldInv, Live
  <2>4. StartInv'
    BY <2>1, <2>3, WorldKeeps
  <2> QED
    BY <2>1, <2>2, <2>4 DEF StartTypeOK
<1>6. CASE DriverEnds(p)
  <2>1. Gone(p) /\ hiccups' = hiccups /\ traced' \in BOOLEAN /\ newer' \subseteq Request
        /\ lock' \in {NoLock, DeadLock}
    BY <1>6 DEF DriverEnds, StartTypeOK
  <2>2. crashes' \in 0..MaxCrashes
    <3>1. MaxCrashes \in Nat /\ crashes \in 0..MaxCrashes
      BY TaskStartAssumption DEF StartTypeOK
    <3>2. crashes' = crashes \/ (crashes < MaxCrashes /\ crashes' = crashes + 1)
      BY <1>6 DEF DriverEnds
    <3> QED
      BY <3>1, <3>2
  <2>3. hold' \in [n : 0..MaxPauses, is : Disposition, pr : BOOLEAN] /\ HoldInv'
    <3>1. CASE hold' = hold
      BY <1>1, <3>1 DEF StartInv, HoldInv
    <3>2. CASE hold' = [hold EXCEPT !.is = "unreadable"]
      <4>1. hold' \in [n : 0..MaxPauses, is : Disposition, pr : BOOLEAN]
        BY <1>1, <3>2 DEF Disposition
      <4>2. hold'.is = "unreadable"
        BY <1>1, <3>2
      <4> QED
        BY <4>1, <4>2 DEF HoldInv
    <3> QED
      BY <1>6, <3>1, <3>2 DEF DriverEnds
  <2>4. StartInv' /\ call' \in [Call -> CallState] /\ claim' \in [Key -> Claim \cup {NoClaim}]
    BY <2>1, <2>3, GoneKeeps
  <2>5. child' \in [Child -> ChildType]
    BY <2>1 DEF Gone, StartTypeOK
  <2> QED
    BY <2>1, <2>2, <2>3, <2>4, <2>5 DEF StartTypeOK
<1> QED
  BY <1>2, <1>3, <1>4, <1>5, <1>6

\* The Principal rules or cancels.
LEMMA PrincipalKeeps ==
  ASSUME StartTypeOK, StartInv, PostRuling \/ CancelRun
  PROVE  StartInv' /\ StartTypeOK'
<1>1. UNCHANGED <<claim, call, child, lock, traced, newer, crashes, hiccups>>
  BY DEF PostRuling, CancelRun, bounds
<1>2. hold \in [n : 0..MaxPauses, is : Disposition, pr : BOOLEAN]
  BY DEF StartTypeOK
<1>3. PICK is \in {"ruled", "cancelled"} :
        hold' = [hold EXCEPT !.is = is] /\ (is = "ruled" => hold.is = "awaiting")
  BY DEF PostRuling, CancelRun
<1>4. hold' \in [n : 0..MaxPauses, is : Disposition, pr : BOOLEAN]
  BY <1>2, <1>3 DEF Disposition
<1>5. hold'.is = is /\ hold'.n = hold.n
  BY <1>2, <1>3
<1>6. HoldInv'
  BY <1>3, <1>5 DEF StartInv, HoldInv
<1>7. StartInv'
  BY <1>1, <1>6, WorldKeeps DEF Live
<1> QED
  BY <1>1, <1>4, <1>7 DEF StartTypeOK

-----------------------------------------------------------------------------
(***************************************************************************)
(* The steps of the two handlers.                                          *)
(***************************************************************************)
\* A call's state but for its place.
SameButPlace(s, t) ==
  /\ s.via = t.via /\ s.tool = t.tool /\ s.request = t.request /\ s.pause = t.pause
  /\ s.child = t.child /\ s.mine = t.mine /\ s.doomed = t.doomed

\* Goto changes the place alone.
LEMMA GotoActs ==
  ASSUME StartTypeOK, NEW c \in Call, NEW x \in Place, Goto(c, x)
  PROVE  Acts(c) /\ call'[c].pc = x /\ SameButPlace(call'[c], call[c])
<1>1. call' \in [Call -> CallState]
  BY DEF Goto, StartTypeOK, CallState
<1>2. \A d \in Call \ {c} : call'[d] = call[d]
  BY DEF Goto, StartTypeOK
<1>3. call'[c].pc = x /\ SameButPlace(call'[c], call[c])
  BY DEF Goto, StartTypeOK, CallState, SameButPlace
<1> QED
  BY <1>1, <1>2, <1>3 DEF Acts

\* A resume answers the start that handed it the pause, or ends.
LEMMA AnswerActs ==
  ASSUME StartTypeOK, NEW c \in Call, NEW x \in Place, ResumeAnswers(c, x)
  PROVE  /\ Acts(c)
         /\ call[c].via # "start" => call'[c] = Idle
         /\ call[c].via = "start" =>
              /\ call'[c].pc = x /\ call'[c].via = "start" /\ call'[c].tool = "start"
              /\ call'[c].request = call[c].request /\ call'[c].pause = call[c].pause
              /\ call'[c].child = call[c].child /\ call'[c].mine = call[c].mine
              /\ call'[c].doomed = call[c].doomed
<1> DEFINE s == [call[c] EXCEPT !.tool = "start", !.pc = x]
<1>1. call[c] \in CallState
  BY DEF StartTypeOK
<1>2. s \in CallState
  BY <1>1 DEF CallState, Tool
<1>3. /\ s.pc = x /\ s.via = call[c].via /\ s.tool = "start"
      /\ s.request = call[c].request /\ s.pause = call[c].pause
      /\ s.child = call[c].child /\ s.mine = call[c].mine /\ s.doomed = call[c].doomed
  BY <1>1 DEF CallState
<1>4. call' = [call EXCEPT ![c] = IF call[c].via = "start" THEN s ELSE Idle]
  BY DEF ResumeAnswers
<1> HIDE DEF s
<1>5. Acts(c) /\ call'[c] = IF call[c].via = "start" THEN s ELSE Idle
  BY <1>2, <1>4, IdleType DEF Acts, StartTypeOK
<1> QED
  BY <1>3, <1>5

\* Steps that change no record but the call's own keep the types.
LEMMA TypesKept ==
  ASSUME StartTypeOK, NEW c \in Call, Acts(c), UNCHANGED <<claim, child, newer>>,
         UNCHANGED <<lock, traced, hold, crashes>>,
         hiccups' = hiccups \/ Hiccup
  PROVE  StartTypeOK'
<1>1. hiccups' \in 0..MaxHiccups
  <2>1. hiccups \in 0..MaxHiccups /\ MaxHiccups \in Nat
    BY TaskStartAssumption DEF StartTypeOK
  <2> QED
    BY <2>1 DEF Hiccup
<1> QED
  BY <1>1 DEF StartTypeOK, Acts

\* A call without claims of its own that ends holds none.
LEMMA EndCoherent ==
  ASSUME StartTypeOK, StartInv, NEW c \in Call, call[c].tool = "resume",
         call[c].pc \in {"check", "back", "again"}
  PROVE  /\ call[c].via # "start" => call[c].mine = {}
         /\ call[c].via = "start" => call[c].mine = {call[c].request} /\ call[c].request \in Request
BY DEF StartInv, Coherent, Claimed

\* Replay, and a resume's answer before it has claimed, are moves.
LEMMA AnswerKeeps ==
  ASSUME OneServer, StartTypeOK, StartInv, NEW c \in Call, Turn(c),
         call[c].tool = "resume", call[c].pc \in {"check", "back", "again"},
         NEW x \in {"confirm", "drop"}, ResumeAnswers(c, x),
         UNCHANGED <<claim, child>>, hold' = hold
  PROVE  StartInv' /\ Acts(c)
<1>1. x \in Place
  BY DEF Place
<1>2. Acts(c)
  BY <1>1, AnswerActs
<1>3. Coherent(call[c]) /\ HoldInv' /\ \A p \in Child : ~Awaits(c, p)
  BY DEF StartInv, HoldInv, Awaits
<1>4. CASE call[c].via # "start"
  <2>1. call'[c] = Idle /\ call[c].mine = {}
    BY <1>1, <1>4, AnswerActs, EndCoherent
  <2> QED
    BY <1>2, <1>3, <2>1, IdleType, IdleCoherent, MoveKeeps
<1>5. CASE call[c].via = "start"
  <2>1. /\ call'[c].pc = x /\ call'[c].via = "start" /\ call'[c].tool = "start"
        /\ call'[c].request = call[c].request /\ call'[c].pause = call[c].pause
        /\ call'[c].mine = call[c].mine
        /\ call[c].mine = {call[c].request} /\ call[c].request \in Request
    BY <1>1, <1>5, AnswerActs, EndCoherent
  <2>2. Coherent(call'[c])
    BY <2>1 DEF Coherent, Claimed
  <2>3. call'[c].pause \notin call'[c].mine
    BY <2>1, KeyOfType, KeysDiffer
  <2> QED
    BY <1>2, <1>3, <2>1, <2>2, <2>3, MoveKeeps
<1> QED
  BY <1>2, <1>4, <1>5

\* The call answers from another call's claim.
LEMMA ReplayKeeps ==
  ASSUME OneServer, StartTypeOK, StartInv, NEW c \in Call, Turn(c),
         call[c].pc \in {"back", "again"}, Replay(c), UNCHANGED <<claim, child>>, hold' = hold
  PROVE  StartInv' /\ Acts(c)
<1>1. CASE call[c].tool = "start"
  <2>1. call' = [call EXCEPT ![c] = Idle]
    BY <1>1 DEF Replay
  <2>2. Acts(c) /\ call'[c] = Idle
    BY <2>1, IdleType DEF Acts, StartTypeOK
  <2>3. call[c].mine = {} /\ HoldInv' /\ \A p \in Child : ~Awaits(c, p)
    BY <1>1 DEF StartInv, Coherent, Claimed, HoldInv, Awaits
  <2> QED
    BY <2>2, <2>3, IdleType, IdleCoherent, MoveKeeps
<1>2. CASE call[c].tool = "resume"
  BY <1>2, AnswerKeeps DEF Replay
<1> QED
  BY <1>1, <1>2, KeyOfType DEF Tool

\* The beginning of a call.
LEMMA BeginKeeps ==
  ASSUME OneServer, StartTypeOK, StartInv, NEW c \in Call,
         (\E r \in Request : StartCall(c, r)) \/ ResumeCall(c)
  PROVE  StartInv' /\ StartTypeOK'
<1>1. /\ UNCHANGED <<claim, child, lock, traced, hold, newer, crashes, hiccups>>
      /\ Turn(c) /\ call[c] = Idle /\ HoldInv' /\ \A p \in Child : ~Awaits(c, p)
  BY IdleType DEF StartCall, ResumeCall, At, task, bounds, StartInv, Coherent, HoldInv, Awaits
<1>2. ASSUME NEW r \in Request, StartCall(c, r) PROVE StartInv' /\ StartTypeOK'
  <2> DEFINE s == [Idle EXCEPT !.pc = "prune", !.request = r]
  <2>1. s \in CallState
    BY IdleType DEF CallState, Place
  <2>2. s.pc = "prune" /\ s.via = "start" /\ s.tool = "start" /\ s.request = r /\ s.mine = {}
    BY IdleType DEF CallState
  <2>3. call' = [call EXCEPT ![c] = s]
    BY <1>1, <1>2 DEF StartCall
  <2> HIDE DEF s
  <2>4. Acts(c) /\ call'[c] = s
    BY <2>1, <2>3 DEF Acts, StartTypeOK
  <2>5. Coherent(s)
    BY <2>2 DEF Coherent, Claimed
  <2> QED
    BY <1>1, <2>2, <2>4, <2>5, IdleType, MoveKeeps, TypesKept
<1>3. CASE ResumeCall(c)
  <2> DEFINE s == [Idle EXCEPT !.pc = "check", !.via = "resume", !.tool = "resume"]
  <2>1. s \in CallState
    BY IdleType DEF CallState, Place, Tool
  <2>2. s.pc = "check" /\ s.via = "resume" /\ s.tool = "resume" /\ s.mine = {}
    BY IdleType DEF CallState
  <2>3. call' = [call EXCEPT ![c] = s]
    BY <1>3 DEF ResumeCall
  <2> HIDE DEF s
  <2>4. Acts(c) /\ call'[c] = s
    BY <2>1, <2>3 DEF Acts, StartTypeOK
  <2>5. Coherent(s)
    BY <2>2 DEF Coherent, Claimed
  <2> QED
    BY <1>1, <2>2, <2>4, <2>5, IdleType, MoveKeeps, TypesKept
<1> QED
  BY <1>2, <1>3

\* The claims a call with a key is about are keys it holds, where it holds them.
LEMMA Holding ==
  ASSUME StartTypeOK, StartInv, NEW c \in Call
  PROVE  /\ call[c].pc \in {"claim", "again", "back", "release", "fill", "consume", "launch",
                            "wait", "join", "drop"} => KeyOf(c) \in Key
         /\ call[c].pc \in {"fill", "launch", "wait", "join", "drop"} => KeyOf(c) \in call[c].mine
         /\ call[c].pc \in {"claim", "again", "back", "release"} => KeyOf(c) \notin call[c].mine
<1>1. Coherent(call[c]) /\ call[c].tool \in {"start", "resume"}
  BY KeyOfType DEF StartInv, Tool
<1>2. CASE call[c].tool = "start"
  BY <1>1, <1>2, KeysDiffer DEF Coherent, Claimed, KeyOf
<1>3. CASE call[c].tool = "resume"
  BY <1>1, <1>3, KeysDiffer DEF Coherent, Claimed, KeyOf
<1> QED
  BY <1>1, <1>2, <1>3

\* pruneDeadStartClaims lists dead claims, and removes only those.
LEMMA PruneKeeps ==
  ASSUME OneServer, StartTypeOK, StartInv, NEW c \in Call, PruneRead(c) \/ PruneUnlink(c)
  PROVE  StartInv' /\ StartTypeOK'
<1>1. /\ call[c] \in CallState /\ Coherent(call[c]) /\ call[c].doomed \in SUBSET Request
      /\ Turn(c) /\ \A p \in Child : ~Awaits(c, p)
  BY KeyOfType DEF StartInv, PruneRead, PruneUnlink, At, Awaits
<1>2. CASE PruneRead(c)
  <2> DEFINE dead == {r \in Request : Held(r) /\ claim[r].age = "past" /\ ~LaunchAlive(r)}
             x == IF dead = {} THEN "claim" ELSE "unlink"
             s == [call[c] EXCEPT !.doomed = dead, !.pc = x]
  <2>1. dead \in SUBSET Request /\ x \in {"claim", "unlink"} /\ \A r \in dead : DeadClaim(r)
    BY DEF DeadClaim
  <2>2. /\ call' = [call EXCEPT ![c] = s] /\ call[c].pc = "prune"
        /\ UNCHANGED <<claim, child, lock, traced, hold, newer, crashes, hiccups>>
    BY <1>2 DEF PruneRead, At, task, bounds
  <2> HIDE DEF dead, x
  <2>3. s \in CallState
    BY <1>1, <2>1 DEF CallState, Place
  <2>4. /\ s.pc = x /\ s.via = call[c].via /\ s.tool = call[c].tool /\ s.request = call[c].request
        /\ s.pause = call[c].pause /\ s.mine = call[c].mine /\ s.doomed = dead
    BY <1>1 DEF CallState
  <2> HIDE DEF s
  <2>5. Acts(c) /\ call'[c] = s
    BY <2>2, <2>3 DEF Acts, StartTypeOK
  <2>6. Coherent(s)
    BY <1>1, <2>1, <2>2, <2>4 DEF Coherent, Claimed
  <2>7. StartInv'
    BY <1>1, <2>1, <2>2, <2>4, <2>5, <2>6, MoveKeeps DEF StartInv, HoldInv
  <2> QED
    BY <2>2, <2>5, <2>7, TypesKept
<1>3. CASE PruneUnlink(c)
  <2> DEFINE ks == call[c].doomed
             s == [call[c] EXCEPT !.mine = {}, !.pc = "claim", !.doomed = {}]
  <2>1. /\ call[c].pc = "unlink" /\ Unclaim(ks)
        /\ UNCHANGED <<child, lock, traced, hold, crashes, hiccups>>
    BY <1>3 DEF PruneUnlink, At, task, bounds
  <2>2. call[c].mine = {}
    BY <1>1, <2>1 DEF Coherent, Claimed
  <2>3. ks \in SUBSET Key /\ \A k \in ks : DeadClaim(k)
    BY <1>1, <2>1, KeysDiffer DEF StartInv, DeadInv
  <2>4. \A d \in Call : call[d].mine \ ks = call[d].mine
    BY <2>3 DEF StartInv, FlightInv, DeadClaim
  <2>5. \A d \in Call : [call[d] EXCEPT !.mine = @ \ ks] = call[d]
    BY <2>4, KeyOfType DEF CallState
  <2>6. /\ call'[c] = s
        /\ \A d \in Call \ {c} : call'[d] = call[d]
    <3>1. call' = [[d \in Call |-> [call[d] EXCEPT !.mine = @ \ ks]]
                      EXCEPT ![c].pc = "claim", ![c].doomed = {}]
      BY <1>3 DEF PruneUnlink, Bereft
    <3>2. call' = [call EXCEPT ![c].pc = "claim", ![c].doomed = {}]
      BY <2>5, <3>1 DEF StartTypeOK
    <3> QED
      BY <1>1, <2>2, <3>2 DEF StartTypeOK, CallState
  <2>7. s \in CallState
    BY <1>1 DEF CallState, Place
  <2>8. /\ s.pc = "claim" /\ s.via = call[c].via /\ s.tool = call[c].tool
        /\ s.request = call[c].request /\ s.pause = call[c].pause /\ s.mine = {}
    BY <1>1 DEF CallState
  <2> HIDE DEF s
  <2>9. call' \in [Call -> CallState]
    <3>1. call' = [d \in Call |-> call'[d]]
      BY <1>3 DEF PruneUnlink, Bereft
    <3>2. \A d \in Call : call'[d] \in CallState
      BY <2>6, <2>7, KeyOfType
    <3> QED
      BY <3>1, <3>2
  <2>10. Acts(c)
    BY <2>6, <2>9 DEF Acts
  <2>11. Coherent(s)
    BY <1>1, <2>1, <2>8 DEF Coherent, Claimed
  <2>12. HoldInv' /\ claim' = [k \in Key |-> IF k \in ks THEN NoClaim ELSE claim[k]]
    BY <2>1 DEF StartInv, HoldInv, Unclaim
  <2>13. StartInv'
    BY <1>1, <2>1, <2>2, <2>3, <2>6, <2>8, <2>10, <2>11, <2>12, RemoveKeeps
  <2>14. newer' \subseteq Request /\ claim' \in [Key -> Claim \cup {NoClaim}]
    BY <2>1, <2>12 DEF StartTypeOK, Unclaim
  <2> QED
    BY <2>1, <2>9, <2>13, <2>14 DEF StartTypeOK
<1> QED
  BY <1>2, <1>3

\* RequestStore.claim creates the file, or finds another call's.
LEMMA CreateKeeps ==
  ASSUME OneServer, StartTypeOK, StartInv, NEW c \in Call, ClaimCreate(c)
  PROVE  StartInv' /\ StartTypeOK'
<1> DEFINE k == KeyOf(c)
           new == [age |-> "torn", child |-> NoChild, confirmed |-> FALSE]
<1>1. /\ call[c] \in CallState /\ Coherent(call[c]) /\ Turn(c)
      /\ call[c].pc \in {"claim", "again"} /\ k \in Key /\ k \notin call[c].mine
      /\ UNCHANGED <<child, lock, traced, hold, newer, crashes, hiccups>>
      /\ HoldInv' /\ \A p \in Child : ~Awaits(c, p)
  BY KeyOfType, Holding DEF StartInv, ClaimCreate, At, Awaits, task, bounds, HoldInv
<1>2. CASE Held(k)
  <2>1. UNCHANGED claim /\ IF call[c].pc = "claim" THEN Goto(c, "back") ELSE Replay(c)
    BY <1>2 DEF ClaimCreate
  <2>2. CASE call[c].pc = "claim"
    <3>1. Acts(c) /\ call'[c].pc = "back" /\ SameButPlace(call'[c], call[c])
      BY <2>1, <2>2, GotoActs DEF Place
    <3>2. Coherent(call'[c])
      BY <1>1, <2>2, <3>1 DEF Coherent, Claimed, SameButPlace
    <3> QED
      BY <1>1, <2>1, <3>1, <3>2, MoveKeeps, TypesKept DEF SameButPlace
  <2>3. CASE call[c].pc # "claim"
    BY <1>1, <2>1, <2>3, ReplayKeeps, TypesKept
  <2> QED
    BY <2>2, <2>3
<1>3. CASE ~Held(k)
  <2> DEFINE s == [call[c] EXCEPT !.pc = "fill", !.mine = call[c].mine \cup {k}]
  <2>1. claim' = [claim EXCEPT ![k] = new] /\ call' = [call EXCEPT ![c] = s]
    BY <1>3 DEF ClaimCreate
  <2>2. new \in Claim /\ new.age = "torn" /\ new.child = NoChild
    BY DEF Claim, Age
  <2>3. s \in CallState
    BY <1>1, KeyOfType DEF CallState, Place
  <2>4. /\ s.pc = "fill" /\ s.via = call[c].via /\ s.tool = call[c].tool
        /\ s.request = call[c].request /\ s.pause = call[c].pause
        /\ s.mine = call[c].mine \cup {k}
    BY <1>1 DEF CallState
  <2> HIDE DEF s, new
  <2>5. Acts(c) /\ call'[c] = s
    BY <2>1, <2>3 DEF Acts, StartTypeOK
  <2>6. Coherent(s)
    <3>1. CASE call[c].tool = "start"
      BY <1>1, <2>4, <3>1 DEF Coherent, Claimed, KeyOf
    <3>2. CASE call[c].tool = "resume"
      BY <1>1, <2>4, <3>2 DEF Coherent, Claimed, KeyOf
    <3> QED
      BY <3>1, <3>2, KeyOfType DEF Tool
  <2>7. StartInv'
    BY <1>1, <1>3, <2>1, <2>2, <2>4, <2>5, <2>6, WriteKeeps
  <2>8. claim' \in [Key -> Claim \cup {NoClaim}]
    BY <1>1, <2>1, <2>2 DEF StartTypeOK
  <2> QED
    BY <1>1, <2>5, <2>7, <2>8 DEF StartTypeOK, Acts
<1> QED
  BY <1>2, <1>3

\* The record is written into the file the call created.
LEMMA FillKeeps ==
  ASSUME OneServer, StartTypeOK, StartInv, NEW c \in Call, ClaimFill(c)
  PROVE  StartInv' /\ StartTypeOK'
<1> DEFINE k == KeyOf(c)
           x == IF call[c].tool = "start" THEN "target" ELSE "consume"
           new == [claim[k] EXCEPT !.age = "fresh"]
<1>1. /\ Coherent(call[c]) /\ Turn(c)
      /\ call[c].pc = "fill" /\ k \in Key /\ k \in call[c].mine /\ Goto(c, x)
      /\ UNCHANGED <<child, lock, traced, hold, crashes, hiccups>>
      /\ HoldInv' /\ \A p \in Child : ~Awaits(c, p)
  BY Holding DEF StartInv, ClaimFill, At, Awaits, task, bounds, HoldInv
<1>2. claim' = [claim EXCEPT ![k] = new] /\ newer' \subseteq Request
  BY <1>1 DEF ClaimFill, StartTypeOK
<1>3. Held(k) /\ claim[k].child = NoChild
  BY <1>1 DEF StartInv, FlightInv
<1>4. claim[k] \in Claim
  BY <1>1, <1>3, ClaimType
<1>5. new \in Claim
  BY <1>4 DEF Claim, Age
<1>6. new.age = "fresh" /\ new.child = NoChild
  BY <1>3, <1>4 DEF Claim
<1>7. x \in {"target", "consume"} /\ x \in Place
  BY DEF Place
<1>8. Acts(c) /\ call'[c].pc = x /\ SameButPlace(call'[c], call[c])
  <2> HIDE DEF x
  <2> QED
    BY <1>1, <1>7, GotoActs
<1>9. Coherent(call'[c])
  BY <1>1, <1>8, KeyOfType DEF Coherent, Claimed, SameButPlace, Tool
<1> HIDE DEF new
<1>10. StartInv'
  BY <1>1, <1>2, <1>5, <1>6, <1>7, <1>8, <1>9, WriteKeeps DEF SameButPlace
<1>11. claim' \in [Key -> Claim \cup {NoClaim}]
  BY <1>1, <1>2, <1>5 DEF StartTypeOK
<1> QED
  BY <1>1, <1>2, <1>8, <1>10, <1>11 DEF StartTypeOK, Acts

\* Another call's claim is replayed, or found dead.
LEMMA BackKeeps ==
  ASSUME OneServer, StartTypeOK, StartInv, NEW c \in Call, ReadBack(c)
  PROVE  StartInv' /\ StartTypeOK'
<1>1. /\ Coherent(call[c]) /\ Turn(c) /\ call[c].pc = "back" /\ KeyOf(c) \in Key
      /\ UNCHANGED <<claim, child, lock, traced, hold, newer, crashes>>
      /\ HoldInv' /\ \A p \in Child : ~Awaits(c, p)
      /\ hiccups' = hiccups \/ Hiccup
  BY Holding DEF StartInv, ReadBack, At, Awaits, task, HoldInv
<1>2. CASE Superseded(c) /\ Goto(c, "release")
  <2>1. Acts(c) /\ call'[c].pc = "release" /\ SameButPlace(call'[c], call[c])
    BY <1>2, GotoActs DEF Place
  <2>2. Coherent(call'[c])
    BY <1>1, <2>1 DEF Coherent, Claimed, SameButPlace
  <2>3. KeyOf(c)' = KeyOf(c) /\ DeadClaim(KeyOf(c))
    BY <1>2, <2>1 DEF KeyOf, SameButPlace, Superseded, DeadClaim
  <2> QED
    BY <1>1, <2>1, <2>2, <2>3, MoveKeeps, TypesKept DEF SameButPlace
<1>3. CASE Replay(c)
  BY <1>1, <1>3, ReplayKeeps, TypesKept
<1> QED
  BY <1>2, <1>3 DEF ReadBack

\* No other call loses a claim to a removal of dead ones or of the call's own.
LEMMA OthersSpared ==
  ASSUME StartTypeOK, StartInv, NEW c \in Call, NEW ks \in SUBSET Key,
         \A k \in ks : DeadClaim(k) \/ k \in call[c].mine
  PROVE  \A d \in Call \ {c} : [call[d] EXCEPT !.mine = @ \ ks] = call[d]
<1>1. \A d \in Call \ {c} : call[d].mine \ ks = call[d].mine
  BY DEF StartInv, FlightInv, DeadClaim
<1> QED
  BY <1>1, KeyOfType DEF CallState

\* A dead claim is superseded.
LEMMA SupersedeKeeps ==
  ASSUME OneServer, StartTypeOK, StartInv, NEW c \in Call, Supersede(c)
  PROVE  StartInv' /\ StartTypeOK'
<1> DEFINE ks == {KeyOf(c)}
           s == [call[c] EXCEPT !.pc = "again", !.mine = call[c].mine \ ks]
<1>1. /\ Coherent(call[c]) /\ Turn(c) /\ call[c].pc = "release" /\ Unclaim(ks)
      /\ KeyOf(c) \in Key /\ KeyOf(c) \notin call[c].mine /\ DeadClaim(KeyOf(c))
      /\ UNCHANGED <<child, lock, traced, hold, crashes, hiccups>> /\ call[c] \in CallState
      /\ HoldInv'
  BY Holding, KeyOfType DEF StartInv, DeadInv, Supersede, At, task, bounds, HoldInv
<1>2. call' = [[d \in Call |-> [call[d] EXCEPT !.mine = @ \ ks]] EXCEPT ![c].pc = "again"]
  BY DEF Supersede, Bereft
<1>3. s \in CallState
  BY <1>1 DEF CallState, Place
<1>4. /\ s.pc = "again" /\ s.via = call[c].via /\ s.tool = call[c].tool
      /\ s.request = call[c].request /\ s.pause = call[c].pause /\ s.mine = call[c].mine \ ks
      /\ s.mine = call[c].mine
  BY <1>1 DEF CallState
<1>5. call'[c] = s
  BY <1>1, <1>2 DEF CallState
<1>6. \A d \in Call \ {c} : call'[d] = call[d]
  <2>1. \A d \in Call \ {c} : call'[d] = [call[d] EXCEPT !.mine = @ \ ks]
    BY <1>2
  <2>2. ks \in SUBSET Key /\ \A k \in ks : DeadClaim(k) \/ k \in call[c].mine
    BY <1>1
  <2>3. \A d \in Call \ {c} : [call[d] EXCEPT !.mine = @ \ ks] = call[d]
    <3> HIDE DEF ks
    <3> QED
      BY <2>2, OthersSpared
  <2> QED
    BY <2>1, <2>3
<1> HIDE DEF s
<1>7. Acts(c)
  <2>1. \A d \in Call : call'[d] \in CallState
    BY <1>3, <1>5, <1>6, KeyOfType
  <2>2. call' = [d \in Call |-> call'[d]]
    BY <1>2
  <2> QED
    BY <1>6, <2>1, <2>2 DEF Acts
<1>8. Coherent(s)
  BY <1>1, <1>4 DEF Coherent, Claimed
<1>9. claim' = [k \in Key |-> IF k \in ks THEN NoClaim ELSE claim[k]]
  BY <1>1 DEF Unclaim
<1>10. StartInv'
  BY <1>1, <1>4, <1>5, <1>7, <1>8, <1>9, RemoveKeeps
<1>11. newer' \subseteq Request /\ claim' \in [Key -> Claim \cup {NoClaim}]
  BY <1>1, <1>9 DEF StartTypeOK, Unclaim
<1> QED
  BY <1>1, <1>7, <1>10, <1>11 DEF StartTypeOK, Acts

\* A refused or failed call releases its own claims, one after the other.
LEMMA DropKeeps ==
  ASSUME OneServer, StartTypeOK, StartInv, NEW c \in Call, Drop(c)
  PROVE  StartInv' /\ StartTypeOK'
<1> DEFINE ks == {KeyOf(c)}
           b == [call[c] EXCEPT !.mine = @ \ ks]
           s == IF b.tool = "resume" /\ b.via = "start" THEN [b EXCEPT !.tool = "start"] ELSE Idle
<1>1. /\ Coherent(call[c]) /\ Turn(c) /\ call[c].pc = "drop" /\ Unclaim(ks)
      /\ KeyOf(c) \in Key /\ KeyOf(c) \in call[c].mine
      /\ UNCHANGED <<child, lock, traced, hold, crashes, hiccups>> /\ call[c] \in CallState
      /\ HoldInv'
  BY Holding, KeyOfType DEF StartInv, Drop, At, task, bounds, HoldInv
<1>2. call' = [[d \in Call |-> [call[d] EXCEPT !.mine = @ \ ks]] EXCEPT ![c] = s]
  BY DEF Drop, Bereft
<1>3. b \in CallState
  BY <1>1 DEF CallState
<1>4. /\ b.pc = "drop" /\ b.via = call[c].via /\ b.tool = call[c].tool
      /\ b.request = call[c].request /\ b.pause = call[c].pause /\ b.mine = call[c].mine \ ks
  BY <1>1 DEF CallState
<1> HIDE DEF b
<1>5. s \in CallState /\ Coherent(s) /\ s.mine = call[c].mine \ ks /\ s.pc \in {"drop", "idle"}
  <2>1. CASE b.tool = "resume" /\ b.via = "start"
    <3> DEFINE t == [b EXCEPT !.tool = "start"]
    <3>1. t \in CallState
      BY <1>3 DEF CallState, Tool
    <3>2. /\ t.pc = "drop" /\ t.via = "start" /\ t.tool = "start"
          /\ t.request = call[c].request /\ t.mine = call[c].mine \ ks
      BY <1>3, <1>4, <2>1 DEF CallState
    <3>3. t.mine = {call[c].request} /\ call[c].request \in Request
      BY <1>1, <1>4, <2>1, <3>2, KeysDiffer DEF Coherent, Claimed, KeyOf
    <3> HIDE DEF t
    <3>4. Coherent(t)
      BY <3>2, <3>3 DEF Coherent, Claimed
    <3> QED
      BY <2>1, <3>1, <3>2, <3>4 DEF t
  <2>2. CASE ~(b.tool = "resume" /\ b.via = "start")
    <3>1. call[c].mine \ ks = {}
      BY <1>1, <1>4, <2>2, KeyOfType DEF Coherent, Claimed, KeyOf, Tool
    <3> QED
      BY <2>2, <3>1, IdleType, IdleCoherent
  <2> QED
    BY <2>1, <2>2
<1> HIDE DEF s
<1>6. call'[c] = s
  BY <1>2
<1>7. \A d \in Call \ {c} : call'[d] = call[d]
  <2>1. \A d \in Call \ {c} : call'[d] = [call[d] EXCEPT !.mine = @ \ ks]
    BY <1>2
  <2>2. ks \in SUBSET Key /\ \A k \in ks : DeadClaim(k) \/ k \in call[c].mine
    BY <1>1
  <2>3. \A d \in Call \ {c} : [call[d] EXCEPT !.mine = @ \ ks] = call[d]
    <3> HIDE DEF ks
    <3> QED
      BY <2>2, OthersSpared
  <2> QED
    BY <2>1, <2>3
<1>8. Acts(c)
  <2>1. \A d \in Call : call'[d] \in CallState
    BY <1>5, <1>6, <1>7, KeyOfType
  <2>2. call' = [d \in Call |-> call'[d]]
    BY <1>2
  <2> QED
    BY <1>7, <2>1, <2>2 DEF Acts
<1>9. claim' = [k \in Key |-> IF k \in ks THEN NoClaim ELSE claim[k]]
  BY <1>1 DEF Unclaim
<1>10. StartInv'
  BY <1>1, <1>5, <1>6, <1>8, <1>9, RemoveKeeps
<1>11. newer' \subseteq Request /\ claim' \in [Key -> Claim \cup {NoClaim}]
  BY <1>1, <1>9 DEF StartTypeOK, Unclaim
<1> QED
  BY <1>1, <1>8, <1>10, <1>11 DEF StartTypeOK, Acts

\* task_start's target, state and disposition, and task_resume's checks.
LEMMA GateKeeps ==
  ASSUME OneServer, StartTypeOK, StartInv, NEW c \in Call,
         ResolveTarget(c) \/ ReadState(c) \/ ReadDisposition(c) \/ ResumeCheck(c)
  PROVE  StartInv' /\ StartTypeOK'
<1>1. /\ Coherent(call[c]) /\ Turn(c) /\ call[c] \in CallState
      /\ call[c].pc \in {"target", "state", "dispose", "check"}
      /\ UNCHANGED <<claim, child, lock, traced, hold, newer, crashes>>
      /\ HoldInv' /\ \A p \in Child : ~Awaits(c, p)
      /\ hiccups' = hiccups \/ Hiccup
  BY KeyOfType DEF StartInv, ResolveTarget, ReadState, ReadDisposition, ResumeCheck, At, Awaits,
                   task, bounds, HoldInv
<1>2. ASSUME NEW x \in {"state", "drop", "dispose", "launch"}, Goto(c, x), call[c].pc # "check"
      PROVE  StartInv' /\ StartTypeOK'
  <2>1. x \in Place
    BY DEF Place
  <2>2. Acts(c) /\ call'[c].pc = x /\ SameButPlace(call'[c], call[c])
    BY <1>2, <2>1, GotoActs
  <2>3. Coherent(call'[c])
    BY <1>1, <1>2, <2>2, KeyOfType DEF Coherent, Claimed, SameButPlace, Tool
  <2> QED
    BY <1>1, <2>2, <2>3, MoveKeeps, TypesKept DEF SameButPlace
<1>3. ASSUME call[c].pc = "dispose",
             call' = [call EXCEPT ![c].pc = "check", ![c].tool = "resume"]
      PROVE  StartInv' /\ StartTypeOK'
  <2> DEFINE s == [call[c] EXCEPT !.pc = "check", !.tool = "resume"]
  <2>1. s \in CallState
    BY <1>1 DEF CallState, Place, Tool
  <2>2. /\ s.pc = "check" /\ s.via = call[c].via /\ s.tool = "resume"
        /\ s.request = call[c].request /\ s.pause = call[c].pause /\ s.mine = call[c].mine
    BY <1>1 DEF CallState
  <2>3. call' = [call EXCEPT ![c] = s]
    BY <1>3
  <2> HIDE DEF s
  <2>4. Acts(c) /\ call'[c] = s
    BY <2>1, <2>3 DEF Acts, StartTypeOK
  <2>5. Coherent(s)
    BY <1>1, <1>3, <2>2, KeyOfType DEF Coherent, Claimed, Tool
  <2> QED
    BY <1>1, <2>2, <2>4, <2>5, MoveKeeps, TypesKept
<1>4. CASE ResumeCheck(c)
  <2>1. call[c].pc = "check" /\ call[c].tool = "resume"
    BY <1>1, <1>4, KeyOfType DEF ResumeCheck, At, Coherent, Tool
  <2>2. CASE \E x \in {"confirm", "drop"} : ResumeAnswers(c, x)
    BY <1>1, <2>1, <2>2, AnswerKeeps, TypesKept
  <2>3. CASE /\ hold.is = "ruled"
             /\ call' = [call EXCEPT ![c].pc = "claim", ![c].pause = hold.n]
    <3> DEFINE s == [call[c] EXCEPT !.pc = "claim", !.pause = hold.n]
    <3>1. hold.n \in Pause
      BY <2>3 DEF StartInv, HoldInv
    <3>2. s \in CallState
      BY <1>1, <3>1 DEF CallState, Place
    <3>3. /\ s.pc = "claim" /\ s.via = call[c].via /\ s.tool = call[c].tool
          /\ s.request = call[c].request /\ s.pause = hold.n /\ s.mine = call[c].mine
      BY <1>1 DEF CallState
    <3>4. call' = [call EXCEPT ![c] = s]
      BY <2>3
    <3> HIDE DEF s
    <3>5. Acts(c) /\ call'[c] = s
      BY <3>2, <3>4 DEF Acts, StartTypeOK
    <3>6. Coherent(s)
      BY <1>1, <2>1, <3>1, <3>3 DEF Coherent, Claimed
    <3> QED
      BY <1>1, <2>1, <3>3, <3>5, <3>6, MoveKeeps, TypesKept
  <2> QED
    BY <1>4, <2>2, <2>3 DEF ResumeCheck
<1>5. CASE ResolveTarget(c)
  BY <1>2, <1>5 DEF ResolveTarget, At
<1>6. CASE ReadState(c)
  <2>1. call[c].pc = "state" /\ \E x \in {"drop", "dispose"} : Goto(c, x)
    BY <1>6 DEF ReadState, At
  <2> QED
    BY <1>2, <2>1
<1>7. CASE ReadDisposition(c)
  BY <1>2, <1>3, <1>7 DEF ReadDisposition, At
<1> QED
  BY <1>4, <1>5, <1>6, <1>7

\* A pause without a pull request is resolved before the launch.
LEMMA ConsumeKeeps ==
  ASSUME OneServer, StartTypeOK, StartInv, NEW c \in Call, ConsumeRuling(c)
  PROVE  StartInv' /\ StartTypeOK'
<1>1. /\ Coherent(call[c]) /\ Turn(c) /\ call[c].pc = "consume"
      /\ UNCHANGED <<claim, child, lock, traced, newer, crashes, hiccups>>
      /\ \A p \in Child : ~Awaits(c, p)
  BY DEF StartInv, ConsumeRuling, At, Awaits, bounds
<1>2. hold \in [n : 0..MaxPauses, is : Disposition, pr : BOOLEAN]
  BY DEF StartTypeOK
<1>3. hold' = hold \/ hold' = [hold EXCEPT !.is = "resumed"]
  BY DEF ConsumeRuling
<1>4. hold' \in [n : 0..MaxPauses, is : Disposition, pr : BOOLEAN]
  BY <1>2, <1>3 DEF Disposition
<1>5. hold' = hold \/ hold'.is = "resumed"
  BY <1>2, <1>3
<1>6. HoldInv'
  BY <1>5 DEF StartInv, HoldInv
<1>7. PICK x \in {"launch", "drop"} : Goto(c, x)
  BY DEF ConsumeRuling
<1>8. Acts(c) /\ call'[c].pc = x /\ SameButPlace(call'[c], call[c])
  BY <1>7, GotoActs DEF Place
<1>9. Coherent(call'[c])
  BY <1>1, <1>7, <1>8, KeyOfType DEF Coherent, Claimed, SameButPlace, Tool
<1>10. StartInv'
  BY <1>1, <1>6, <1>7, <1>8, <1>9, MoveKeeps DEF SameButPlace
<1> QED
  BY <1>1, <1>4, <1>8, <1>10 DEF StartTypeOK, Acts

\* launchDetached and the wait for a live driver.
LEMMA DetachKeeps ==
  ASSUME OneServer, StartTypeOK, StartInv, NEW c \in Call, Launch(c) \/ WaitEnds(c)
  PROVE  StartInv' /\ StartTypeOK'
<1>1. /\ Coherent(call[c]) /\ Turn(c) /\ call[c] \in CallState
      /\ UNCHANGED <<claim, lock, traced, hold, newer, crashes>>
      /\ HoldInv' /\ KeyOf(c) \in Key
      /\ hiccups' = hiccups \/ Hiccup
  BY KeyOfType, Holding DEF StartInv, Launch, WaitEnds, At, task, bounds, HoldInv
<1>2. ASSUME call[c].pc \in {"launch", "wait"}, Goto(c, "drop"), child' = child,
             call[c].pc = "launch" \/ call[c].child = GoneChild
      PROVE  StartInv' /\ StartTypeOK'
  <2>1. Acts(c) /\ call'[c].pc = "drop" /\ SameButPlace(call'[c], call[c])
    BY <1>2, GotoActs DEF Place
  <2>2. Coherent(call'[c])
    BY <1>1, <1>2, <2>1, KeyOfType DEF Coherent, Claimed, SameButPlace, Tool
  <2>3. \A p \in Child : ~Awaits(c, p)
    BY <1>2, TaskStartAssumption DEF Awaits
  <2> QED
    BY <1>1, <1>2, <2>1, <2>2, <2>3, MoveKeeps, TypesKept DEF SameButPlace
<1>3. ASSUME call[c].pc = "wait", child' = child, NEW s \in CallState,
             call' = [call EXCEPT ![c] = s], s.pc = "join", SameButPlace(s, call[c])
      PROVE  StartInv' /\ StartTypeOK'
  <2>1. Acts(c) /\ call'[c] = s
    BY <1>3 DEF Acts, StartTypeOK
  <2>2. Coherent(s)
    BY <1>1, <1>3, KeyOfType DEF Coherent, Claimed, SameButPlace, Tool
  <2>3. \A p \in Child : Awaits(c, p) => Awaits(c, p)'
    BY <1>3, <2>1 DEF Awaits, KeyOf, SameButPlace
  <2> QED
    BY <1>1, <1>3, <2>1, <2>2, <2>3, MoveKeeps, TypesKept DEF SameButPlace
<1>4. CASE WaitEnds(c)
  <2> DEFINE s1 == [call[c] EXCEPT !.pc = "join", !.confirmed = TRUE]
             s2 == [call[c] EXCEPT !.pc = "join"]
  <2>1. s1 \in CallState /\ s2 \in CallState
    BY <1>1 DEF CallState, Place
  <2>2. s1.pc = "join" /\ SameButPlace(s1, call[c]) /\ s2.pc = "join" /\ SameButPlace(s2, call[c])
    BY <1>1 DEF CallState, SameButPlace
  <2>3. /\ call[c].pc = "wait" /\ child' = child
        /\ \/ call' = [call EXCEPT ![c] = s1] \/ call' = [call EXCEPT ![c] = s2]
           \/ call[c].child = GoneChild /\ Goto(c, "drop")
    BY <1>4 DEF WaitEnds, At
  <2> HIDE DEF s1, s2
  <2> QED
    BY <1>2, <1>3, <2>1, <2>2, <2>3
<1>5. CASE Launch(c)
  <2>1. call[c].pc = "launch"
    BY <1>5 DEF Launch, At
  <2>2. CASE Goto(c, "drop") /\ child' = child
    BY <1>2, <2>1, <2>2
  <2>3. ASSUME NEW q \in Child, ~Live(q),
               child' = [child EXCEPT ![q] = [at |-> "prep", key |-> KeyOf(c)]],
               call' = [call EXCEPT ![c].pc = "wait", ![c].child = q]
        PROVE  StartInv' /\ StartTypeOK'
    <3> DEFINE s == [call[c] EXCEPT !.pc = "wait", !.child = q]
    <3>1. s \in CallState
      BY <1>1 DEF CallState, Place
    <3>2. /\ s.pc = "wait" /\ s.via = call[c].via /\ s.tool = call[c].tool /\ s.child = q
          /\ s.request = call[c].request /\ s.pause = call[c].pause /\ s.mine = call[c].mine
      BY <1>1 DEF CallState
    <3>3. call' = [call EXCEPT ![c] = s]
      BY <2>3
    <3> HIDE DEF s
    <3>4. Acts(c) /\ call'[c] = s
      BY <3>1, <3>3 DEF Acts, StartTypeOK
    <3>5. Coherent(s)
      BY <1>1, <2>1, <3>2, KeyOfType, TaskStartAssumption DEF Coherent, Claimed, Tool
    <3>6. KeyOf(c)' = KeyOf(c)
      BY <3>2, <3>4 DEF KeyOf
    <3>7. StartInv'
      BY <1>1, <2>1, <2>3, <3>2, <3>4, <3>5, <3>6, LaunchKeeps
    <3>8. child' \in [Child -> [at : {"gone", "prep", "drive"}, key : Key \cup {NoKey}]]
      BY <1>1, <2>3 DEF StartTypeOK
    <3>9. hiccups' \in 0..MaxHiccups
      <4>1. hiccups \in 0..MaxHiccups /\ MaxHiccups \in Nat
        BY TaskStartAssumption DEF StartTypeOK
      <4> QED
        BY <1>1, <4>1 DEF Hiccup
    <3> QED
      BY <1>1, <3>4, <3>7, <3>8, <3>9 DEF StartTypeOK, Acts
  <2> QED
    BY <1>5, <2>2, <2>3 DEF Launch
<1> QED
  BY <1>4, <1>5

\* The launched process joins the claim; a start's hand-off confirms its own.
LEMMA JoinKeeps ==
  ASSUME OneServer, StartTypeOK, StartInv, NEW c \in Call, Join(c) \/ ConfirmHandOff(c)
  PROVE  StartInv' /\ StartTypeOK'
<1> DEFINE k == KeyOf(c)
<1>1. /\ Coherent(call[c]) /\ Turn(c) /\ call[c] \in CallState
      /\ UNCHANGED <<child, lock, traced, hold, newer, crashes, hiccups>> /\ HoldInv'
      /\ call[c].pc \in {"join", "confirm"}
  BY KeyOfType DEF StartInv, Join, ConfirmHandOff, At, task, bounds, HoldInv
<1>2. k \in Key /\ k \in call[c].mine
  <2>1. CASE call[c].pc = "join"
    BY <2>1, Holding
  <2>2. CASE call[c].pc = "confirm"
    BY <1>1, <2>2, KeyOfType, KeysDiffer DEF Coherent, KeyOf, Tool
  <2> QED
    BY <1>1, <2>1, <2>2
<1>3. Held(k) /\ claim[k].age \in {"torn", "fresh"}
  BY <1>2 DEF StartInv, FlightInv
<1>4. ASSUME NEW proc \in Child \cup {NoChild, GoneChild}, NEW conf \in BOOLEAN,
             Rewrite(c, k, proc, conf)
      PROVE  /\ claim' = [claim EXCEPT ![k] = [age |-> claim[k].age, child |-> proc, confirmed |-> conf]]
             /\ [age |-> claim[k].age, child |-> proc, confirmed |-> conf] \in Claim
             /\ claim' \in [Key -> Claim \cup {NoClaim}]
  <2>1. claim' = [claim EXCEPT ![k] = [age |-> claim[k].age, child |-> proc, confirmed |-> conf]]
    BY <1>2, <1>3, <1>4 DEF Rewrite
  <2>2. [age |-> claim[k].age, child |-> proc, confirmed |-> conf] \in Claim
    BY <1>3 DEF Claim, Age
  <2> QED
    BY <1>2, <2>1, <2>2 DEF StartTypeOK
<1>5. CASE Join(c)
  <2> DEFINE conf == call[c].tool = "start" /\ call[c].confirmed
             new == [age |-> claim[k].age, child |-> call[c].child, confirmed |-> conf]
  <2>1. /\ call[c].pc = "join" /\ Rewrite(c, k, call[c].child, conf)
        /\ IF call[c].tool = "start" THEN call' = [call EXCEPT ![c] = Idle]
                                     ELSE ResumeAnswers(c, "confirm")
    BY <1>5 DEF Join, At
  <2>2. conf \in BOOLEAN
    OBVIOUS
  <2>3. call[c].child # NoChild /\ call[c].child \in Child \cup {NoChild, GoneChild}
    BY <1>1, <2>1, KeyOfType DEF Coherent
  <2>4. new.age = claim[k].age /\ new.child = call[c].child
    OBVIOUS
  <2> HIDE DEF conf
  <2>5. /\ claim' = [claim EXCEPT ![k] = new] /\ new \in Claim
        /\ claim' \in [Key -> Claim \cup {NoClaim}]
    BY <1>4, <2>1, <2>2, <2>3
  <2> HIDE DEF new
  <2>6. \A p \in Child : Awaits(c, p) => child[p].key = k /\ new.child = p
    BY <2>4 DEF Awaits
  <2>7. Acts(c) /\ StartInv'
    <3>1. CASE call[c].tool = "start" \/ call[c].via # "start"
      <4>1. call'[c] = Idle /\ Acts(c)
        <5>1. CASE call[c].tool = "start"
          BY <2>1, <5>1, IdleType DEF Acts, StartTypeOK
        <5>2. CASE call[c].tool # "start"
          BY <2>1, <3>1, <5>2, AnswerActs DEF Place
        <5> QED
          BY <5>1, <5>2
      <4>2. call[c].mine = {k}
        BY <1>1, <2>1, <3>1, KeyOfType DEF Coherent, Claimed, KeyOf, Tool
      <4>3. /\ Coherent(call'[c]) /\ call'[c].mine = {}
            /\ call'[c].pc \notin {"unlink", "release", "confirm"} /\ call[c].pc # "confirm"
        BY <2>1, <4>1, IdleType, IdleCoherent
      <4>4. /\ new \in Claim /\ claim' = [claim EXCEPT ![k] = new] /\ new.child # NoChild
            /\ call[c].mine \ {k} = {} /\ k \in Key /\ k \in call[c].mine
        BY <1>2, <2>3, <2>4, <2>5, <4>2
      <4> HIDE DEF k
      <4>5. StartInv'
        BY <1>1, <2>6, <4>1, <4>3, <4>4, WriteKeeps
      <4> QED
        BY <4>1, <4>5
    <3>2. CASE call[c].tool # "start" /\ call[c].via = "start"
      <4>1. /\ Acts(c) /\ call'[c].pc = "confirm" /\ call'[c].via = "start"
            /\ call'[c].tool = "start" /\ call'[c].request = call[c].request
            /\ call'[c].pause = call[c].pause /\ call'[c].mine = call[c].mine
        BY <2>1, <3>2, AnswerActs DEF Place
      <4>2. /\ call[c].tool = "resume" /\ call[c].pause \in Pause /\ call[c].request \in Request
            /\ call[c].mine = {call[c].request, call[c].pause} /\ k = call[c].pause
        BY <1>1, <2>1, <3>2, KeyOfType DEF Coherent, Claimed, KeyOf, Tool
      <4>3. {call[c].request, call[c].pause} = {call[c].request, call[c].pause} \ {NoKey}
        BY <4>2, KeysDiffer
      <4>4. Coherent(call'[c])
        BY <4>1, <4>2, <4>3 DEF Coherent
      <4>5. /\ call'[c].pc \notin {"unlink", "release"} /\ call[c].pc # "confirm"
            /\ call'[c].pause = k /\ k \in call'[c].mine
        BY <1>2, <2>1, <4>1, <4>2
      <4>6. /\ new \in Claim /\ claim' = [claim EXCEPT ![k] = new] /\ new.child # NoChild
            /\ new.age \in {"torn", "fresh"} /\ k \in Key /\ k \in call[c].mine
        BY <1>2, <1>3, <2>3, <2>4, <2>5
      <4> HIDE DEF k
      <4>7. StartInv'
        BY <1>1, <2>6, <4>1, <4>4, <4>5, <4>6, WriteKeeps
      <4> QED
        BY <4>1, <4>7
    <3> QED
      BY <3>1, <3>2
  <2> QED
    BY <1>1, <2>5, <2>7 DEF StartTypeOK, Acts
<1>6. CASE ConfirmHandOff(c)
  <2> DEFINE new == [age |-> claim[k].age, child |-> NoChild, confirmed |-> TRUE]
  <2>1. /\ call[c].pc = "confirm" /\ Rewrite(c, k, NoChild, TRUE)
        /\ call' = [call EXCEPT ![c] = Idle]
    BY <1>6 DEF ConfirmHandOff, At
  <2>2. /\ claim' = [claim EXCEPT ![k] = new] /\ new \in Claim
        /\ claim' \in [Key -> Claim \cup {NoClaim}]
    BY <1>4, <2>1
  <2>3. new.confirmed = TRUE
    OBVIOUS
  <2> HIDE DEF new
  <2>4. Acts(c) /\ call'[c] = Idle
    BY <2>1, IdleType DEF Acts, StartTypeOK
  <2>5. /\ call[c].tool = "start" /\ k = call[c].request /\ call[c].request \in Request
        /\ call[c].mine \subseteq {call[c].request, call[c].pause}
    BY <1>1, <2>1, KeyOfType DEF Coherent, KeyOf, Tool
  <2>6. k # call[c].pause
    BY <2>5, KeyOfType, KeysDiffer
  <2>7. \A j \in call[c].mine \ {k} : claim[j].child # NoChild
    BY <2>1, <2>5 DEF StartInv, FlightInv
  <2>8. \A p \in Child : ~Awaits(c, p)
    BY <2>1 DEF Awaits
  <2>9. StartInv'
    BY <1>1, <1>2, <2>1, <2>2, <2>3, <2>4, <2>6, <2>7, <2>8, IdleType, IdleCoherent, WriteKeeps
  <2> QED
    BY <1>1, <2>2, <2>4, <2>9 DEF StartTypeOK, Acts
<1> QED
  BY <1>5, <1>6

-----------------------------------------------------------------------------
\* Every step of a server that lives keeps the types and the invariant.
LEMMA StartStep ==
  ASSUME OneServer, StartTypeOK, StartInv, [Next]_vars, [\A s \in Server : ~ServerDies(s)]_vars
  PROVE  StartInv' /\ StartTypeOK'
<1>1. CASE UNCHANGED vars
  <2>1. UNCHANGED <<claim, call, child, lock, traced, newer, hold, crashes, hiccups>>
    BY <1>1 DEF vars
  <2>2. StartTypeOK'
    BY <2>1 DEF StartTypeOK
  <2> QED
    BY <2>1, <2>2, WorldKeeps DEF StartInv, HoldInv, Live
<1>2. ASSUME NEW c \in Call, (\E r \in Request : StartCall(c, r)) \/ ResumeCall(c) \/ CallStep(c)
      PROVE  StartInv' /\ StartTypeOK'
  BY <1>2, BeginKeeps, PruneKeeps, CreateKeeps, FillKeeps, BackKeeps, SupersedeKeeps, DropKeeps,
     GateKeeps, ConsumeKeeps, DetachKeeps, JoinKeeps DEF CallStep
<1>3. ASSUME NEW p \in Child,
             \/ Foreground(p) \/ PreparationEnds(p) \/ ConsumeResolution(p) \/ EnterGate(p)
             \/ DriverPauses(p) \/ DriverPublishes(p) \/ DriverEnds(p)
      PROVE  StartInv' /\ StartTypeOK'
  BY <1>3, ProcessKeeps
<1>4. ASSUME NEW k \in Key, ClaimAges(k) PROVE StartInv' /\ StartTypeOK'
  BY <1>4, AgeKeeps
<1>5. CASE PostRuling \/ CancelRun
  BY <1>5, PrincipalKeeps
<1> QED
  BY <1>1, <1>2, <1>3, <1>4, <1>5 DEF Next

\* With one server that does not die, one handler runs at a time, a claim in flight
\* is one call's, a claim found dead stays dead until it is removed, and every live
\* launch is known to the call that awaits it or to its claim.
THEOREM StartInvariant ==
  ASSUME OneServer PROVE Spec /\ ServersLive => [](StartTypeOK /\ StartInv)
<1>1. Init => StartTypeOK /\ StartInv
  <2> SUFFICES ASSUME Init PROVE StartTypeOK /\ StartInv
    OBVIOUS
  <2>1. hold = [n |-> 0, is |-> "none", pr |-> FALSE]
    BY DEF Init
  <2>2. hold \in [n : 0..MaxPauses, is : Disposition, pr : BOOLEAN]
    BY <2>1, TaskStartAssumption DEF Disposition
  <2>3. crashes \in 0..MaxCrashes /\ hiccups \in 0..MaxHiccups
    BY TaskStartAssumption DEF Init
  <2>4. /\ claim \in [Key -> Claim \cup {NoClaim}] /\ call \in [Call -> CallState]
        /\ child \in [Child -> [at : {"gone", "prep", "drive"}, key : Key \cup {NoKey}]]
        /\ \A c \in Call : call[c] = Idle
    BY IdleType DEF Init
  <2>5. StartTypeOK
    BY <2>2, <2>3, <2>4 DEF Init, StartTypeOK
  <2>6. OneTurn /\ (\A c \in Call : Coherent(call[c])) /\ FlightInv /\ DeadInv
    BY <2>4, IdleType, IdleCoherent DEF OneTurn, Synchronous, FlightInv, DeadInv
  <2>7. LaunchInv /\ NoEmptyClaim
    BY DEF Init, LaunchInv, NoEmptyClaim, Live, Held
  <2>8. HoldInv
    BY <2>1 DEF HoldInv
  <2> QED
    BY <2>5, <2>6, <2>7, <2>8 DEF StartInv
<1>2. /\ StartTypeOK /\ StartInv /\ [Next]_vars /\ [\A s \in Server : ~ServerDies(s)]_vars
      => (StartTypeOK /\ StartInv)'
  BY StartStep
<1> QED
  BY <1>1, <1>2, PTL DEF Spec, ServersLive

\* With one server that does not die, one request identity never has two live runs
\* and one pause never two live continuations (startTaskHandler, resumeTaskHandler).
THEOREM OneLaunchPerClaimHolds ==
  ASSUME OneServer PROVE Spec /\ ServersLive => []OneLaunchPerClaim
<1>1. StartTypeOK /\ StartInv => OneLaunchPerClaim
  <2> SUFFICES ASSUME StartTypeOK, StartInv, NEW p \in Child, NEW q \in Child,
                      Live(p), Live(q), child[p].key = child[q].key, child[p].key # NoKey
               PROVE  p = q
    BY DEF OneLaunchPerClaim
  <2> DEFINE k == child[p].key
  <2>1. ASSUME NEW c \in Call, call[c].pc \in {"wait", "join"}, KeyOf(c) = k
        PROVE  k \in call[c].mine /\ claim[k].child = NoChild
    BY <2>1, Holding DEF StartInv, FlightInv
  <2>2. ASSUME NEW c \in Call, NEW d \in Call, Awaits(c, p), Awaits(d, q) PROVE p = q
    <3>1. c = d
      BY <2>1, <2>2 DEF Awaits, StartInv, FlightInv
    <3> QED
      BY <2>2, <3>1 DEF Awaits
  <2>3. ASSUME NEW c \in Call, Awaits(c, p) \/ Awaits(c, q), claim[k].child \in Child PROVE FALSE
    BY <2>1, <2>3, TaskStartAssumption DEF Awaits
  <2> QED
    BY <2>2, <2>3 DEF StartInv, LaunchInv
<1> QED
  BY <1>1, StartInvariant, PTL

\* With one server that does not die, a live launch keeps the claim that names it
\* once its call has answered: no prune, supersede, drop or update takes it away.
THEOREM LiveLaunchIsClaimedHolds ==
  ASSUME OneServer PROVE Spec /\ ServersLive => []LiveLaunchIsClaimed
<1>1. StartTypeOK /\ StartInv => LiveLaunchIsClaimed
  <2> SUFFICES ASSUME StartTypeOK, StartInv, NEW p \in Child, Live(p), child[p].key # NoKey,
                      ~InFlight(child[p].key)
               PROVE  Held(child[p].key) /\ claim[child[p].key].child = p
    BY DEF LiveLaunchIsClaimed
  <2>1. ASSUME NEW c \in Call, Awaits(c, p) PROVE FALSE
    BY <2>1, Holding DEF Awaits, InFlight
  <2> QED
    BY <2>1 DEF StartInv, LaunchInv
<1> QED
  BY <1>1, StartInvariant, PTL

\* With one server that does not die, no answered call leaves a claim for a run that
\* never began.
THEOREM NoEmptyClaimHolds ==
  ASSUME OneServer PROVE Spec /\ ServersLive => []NoEmptyClaim
<1>1. StartInv => NoEmptyClaim
  BY DEF StartInv
<1> QED
  BY <1>1, StartInvariant, PTL
=============================================================================
