------------------------------- MODULE LogFeed -------------------------------
(***************************************************************************)
(* One repository's Log on the server and one follower of it.              *)
(*                                                                         *)
(* The server (apps/log-server/src/repo-log.ts) is a durable object: each  *)
(* request is one synchronous turn - an ingest, a replay of the rejected   *)
(* lines, a read of one page, the opening of a live connection.  The       *)
(* follower (harness/kernel/log/client/log-follow.ts,                      *)
(* log-sync-server-source.ts) opens a live connection after the last       *)
(* position it handed over, pages with the read route when the server      *)
(* tells it to resync, and reconnects after a drop.                        *)
(*                                                                         *)
(* A connection delivers in order until it drops; what is in it then is    *)
(* lost.  Requests and answers may be lost as well, and a body may arrive  *)
(* again, which is what the outbox drain does after a lost answer.         *)
(***************************************************************************)
EXTENDS LogStore, FiniteSets

CONSTANTS
  Event,        \* events that senders may post
  Unreadable,   \* events the deployed validator refuses until it is updated
  BodyMax,      \* bound: lines of one request body
  CatchupMax,   \* LIVE_CATCHUP_MAX
  PageMax,      \* READ_LIMIT_MAX = SERVER_SOURCE_PAGE_MAX
  ReplayWindow, \* REJECTED_GROUP_WINDOW
  MaxPosts,     \* bound: requests ingested
  MaxDrops      \* bound: connections, page requests lost

ASSUME LogFeedAssumption ==
  /\ Unreadable \subseteq Event
  /\ {BodyMax, CatchupMax, MaxPosts, MaxDrops} \subseteq Nat
  /\ PageMax \in Nat \ {0} /\ ReplayWindow \in Nat

VARIABLES
  rows,         \* the events table, seq = index
  rejected,     \* the rejected table
  updated,      \* the server has been redeployed with a newer validator
  socket,       \* the server's end: TRUE while getWebSockets() lists it
  wire,         \* messages of the live connection under way to the follower
  fol,          \* the follower's loop
  last,         \* the last position handed over
  handed,       \* history: positions handed to the caller
  posts, drops

feedVars == <<rows, rejected, updated, socket, wire, fol, last, handed, posts, drops>>

(***************************************************************************)
(* The follower: "dial" is about to open a socket, "dialed" has asked for  *)
(* after = fol.after, "open" is connected (or does not know yet that it    *)
(* no longer is), "page" is about to read a page, "reading" has asked for  *)
(* the one after fol.after, "wait" sleeps before it reconnects.            *)
(***************************************************************************)
FollowState ==
  [pc : {"dial", "dialed", "open", "page", "reading", "wait", "stopped"},
   after : Nat, resync : BOOLEAN]

At(pc) == [pc |-> pc, after |-> 0, resync |-> FALSE]

Resync == 0    \* a message that is no event; positions start at 1
Closed == -1   \* the server has closed the connection (RESYNC_CLOSE_CODE)

Bodies == UNION {[1..n -> Event] : n \in 1..BodyMax}

-----------------------------------------------------------------------------
(***************************************************************************)
(* The server.                                                             *)
(***************************************************************************)
Readable == IF updated THEN Event ELSE Event \ Unreadable

\* The positions after a, up to b.
Positions(a, b) == [i \in 1..(b - a) |-> a + i]

\* The positions that a commit has added, sent to every open connection.
Broadcast(new) ==
  wire' = IF socket THEN wire \o Positions(Len(rows), Len(new)) ELSE wire

\* ingest: one transaction, refused lines kept aside, then the broadcast.
Ingest ==
  /\ posts < MaxPosts /\ posts' = posts + 1
  /\ \E body \in Bodies :
       /\ rows' = StoreBatch(rows, Among(body, Readable))
       /\ rejected' = rejected \o Among(body, Event \ Readable)
  /\ Broadcast(rows')
  /\ UNCHANGED <<updated, socket, fol, last, handed, drops>>

\* The newest rejected lines, oldest first; a replay never removes one.
Replayed ==
  SubSeq(rejected, IF Len(rejected) > ReplayWindow THEN Len(rejected) - ReplayWindow + 1 ELSE 1,
         Len(rejected))

\* Faulty variant: recovered lines are inserted without a look at their identity.
ReplayRejectedAgain ==
  /\ rejected # <<>>
  /\ posts < MaxPosts /\ posts' = posts + 1
  /\ rows' = rows \o Among(Replayed, Readable)
  /\ Broadcast(rows')
  /\ UNCHANGED <<rejected, updated, socket, fol, last, handed, drops>>

\* replayRejected: the same decision again for each of them.
ReplayRejected ==
  /\ rejected # <<>>
  /\ rows' = StoreBatch(rows, Among(Replayed, Readable))
  /\ Broadcast(rows')
  /\ UNCHANGED <<rejected, updated, socket, fol, last, handed, posts, drops>>

Redeploy ==
  /\ ~updated /\ updated' = TRUE
  /\ UNCHANGED <<rows, rejected, socket, wire, fol, last, handed, posts, drops>>

After(p, limit) ==
  Positions(p, IF Len(rows) - p < limit THEN Len(rows) ELSE p + limit)

\* live: accept the socket, then either resync and close, or catch up.
ServeLive ==
  /\ fol.pc = "dialed"
  /\ IF Len(rows) - fol.after > CatchupMax
     THEN wire' = <<Resync, Closed>> /\ socket' = FALSE
     ELSE wire' = After(fol.after, CatchupMax) /\ socket' = TRUE
  /\ fol' = At("open")
  /\ UNCHANGED <<rows, rejected, updated, last, handed, posts, drops>>

-----------------------------------------------------------------------------
(***************************************************************************)
(* The follower.  deliver drops what is at or below the last position.     *)
(***************************************************************************)
HandOver(positions) ==
  LET new == Among(positions, Nat \ 0..last)
  IN /\ handed' = handed \o new
     /\ last' = IF new = <<>> THEN last ELSE Last(new)

\* Faulty variant: asks after the position that would come next.
DialPastNext ==
  /\ fol.pc = "dial"
  /\ fol' = [At("dialed") EXCEPT !.after = IF last < Len(rows) THEN last + 1 ELSE last]
  /\ UNCHANGED <<rows, rejected, updated, socket, wire, last, handed, posts, drops>>

\* The socket is asked for the lines after the last position.
Dial ==
  /\ fol.pc = "dial"
  /\ fol' = [At("dialed") EXCEPT !.after = last]
  /\ UNCHANGED <<rows, rejected, updated, socket, wire, last, handed, posts, drops>>

\* onmessage: a resync is remembered until the close, a position is delivered.
Receive ==
  /\ fol.pc = "open" /\ wire # <<>> /\ Head(wire) # Closed
  /\ wire' = Tail(wire)
  /\ IF Head(wire) = Resync
     THEN fol' = [fol EXCEPT !.resync = TRUE] /\ UNCHANGED <<last, handed>>
     ELSE HandOver(<<Head(wire)>>) /\ UNCHANGED fol
  /\ UNCHANGED <<rows, rejected, updated, socket, posts, drops>>

\* onclose: after a resync the follower pages, otherwise it waits and redials.
OnClose(next) ==
  /\ fol' = At(next)
  /\ socket' = FALSE /\ wire' = <<>>
  /\ UNCHANGED <<rows, rejected, updated, last, handed, posts>>

\* Faulty variant: the resync is forgotten at the close.
ServerClosesForgetful ==
  /\ fol.pc = "open" /\ wire # <<>> /\ Head(wire) = Closed
  /\ OnClose("wait")
  /\ UNCHANGED drops

\* The close that follows a resync.
ServerCloses ==
  /\ fol.pc = "open" /\ wire # <<>> /\ Head(wire) = Closed
  /\ OnClose("page")
  /\ UNCHANGED drops

\* The connection drops, before or after it was opened.
Drop ==
  /\ fol.pc \in {"dialed", "open"}
  /\ drops < MaxDrops /\ drops' = drops + 1
  /\ OnClose(IF fol.resync THEN "page" ELSE "wait")

\* catchUp: a page is asked for, read in a turn of the server, handed over.
AskPage ==
  /\ fol.pc = "page"
  /\ fol' = [At("reading") EXCEPT !.after = last]
  /\ UNCHANGED <<rows, rejected, updated, socket, wire, last, handed, posts, drops>>

ReadPage ==
  LET page == After(fol.after, PageMax)
  IN /\ fol.pc = "reading"
     /\ HandOver(page)
     /\ fol' = At(IF page = <<>> THEN "dial" ELSE "page")
     /\ UNCHANGED <<rows, rejected, updated, socket, wire, posts, drops>>

PageFails ==
  /\ fol.pc = "reading"
  /\ drops < MaxDrops /\ drops' = drops + 1
  /\ fol' = At("wait")
  /\ UNCHANGED <<rows, rejected, updated, socket, wire, last, handed, posts>>

\* A missing or refused read credential ends the follow for good.
Refused ==
  /\ fol.pc \in {"dial", "reading"}
  /\ drops < MaxDrops /\ drops' = drops + 1
  /\ fol' = At("stopped")
  /\ UNCHANGED <<rows, rejected, updated, socket, wire, last, handed, posts>>

Redial ==
  /\ fol.pc = "wait"
  /\ fol' = At("dial")
  /\ UNCHANGED <<rows, rejected, updated, socket, wire, last, handed, posts, drops>>

\* stop(): the socket is closed and nothing is handed over any more.
Stop ==
  /\ fol.pc # "stopped"
  /\ OnClose("stopped")
  /\ UNCHANGED drops

-----------------------------------------------------------------------------
FeedInit ==
  /\ rows = <<>> /\ rejected = <<>> /\ updated = FALSE
  /\ socket = FALSE /\ wire = <<>>
  /\ fol = At("dial") /\ last = 0 /\ handed = <<>>
  /\ posts = 0 /\ drops = 0

Follow ==
  \/ Dial \/ ServeLive \/ Receive \/ ServerCloses
  \/ AskPage \/ ReadPage \/ Redial

FeedNext ==
  \/ Ingest \/ ReplayRejected \/ Redeploy
  \/ Follow \/ Drop \/ PageFails \/ Refused \/ Stop

\* The follower and the server keep taking turns; drops are bounded.
FeedSpec == FeedInit /\ [][FeedNext]_feedVars /\ WF_feedVars(Follow)

-----------------------------------------------------------------------------
\* The tables, the connection and the follower have their types; what is under way
\* to a follower names stored rows only.
FeedTypeOK ==
  /\ rows \in Seq(Event) /\ rejected \in Seq(Unreadable)
  /\ updated \in BOOLEAN /\ socket \in BOOLEAN
  /\ Range(wire) \subseteq {Resync, Closed} \cup 1..Len(rows)
  /\ fol \in FollowState /\ fol.after <= Len(rows)
  /\ last \in 0..Len(rows)
  /\ posts \in 0..MaxPosts /\ drops \in 0..MaxDrops

\* The caller gets every stored line once, in position order, with no gap and
\* no repeat, across catch-up, broadcasts, resyncs and reconnects (deliver, live).
NoGapNoRepeat == handed = Positions(0, last)

\* What a follower awaits is what comes next: a request carries the last position
\* handed over, an open connection everything stored behind it, or a resync.
ConnectionInv ==
  /\ fol.pc \in {"dialed", "reading"} => fol.after = last
  /\ fol.pc # "open" => ~socket /\ wire = <<>>
  /\ fol.pc = "open" =>
       IF socket THEN wire = Positions(last, Len(rows))
                 ELSE wire \in {<<Resync, Closed>>, <<Closed>>}

\* No event is stored twice.
StoredOnce == IsInjective(rows)

\* The inductive invariant behind NoGapNoRepeat and ReplayRecovers.
FeedInv == NoGapNoRepeat /\ ConnectionInv /\ StoredOnce

\* A refused line within the window is stored by the first replay after the
\* validator has learnt to read it, once however often it was refused and
\* resent, and never again by a later replay (replayRejected, storeLine).
ReplayRecovers ==
  [][ReplayRejected /\ updated =>
       /\ Range(Replayed) \subseteq Range(rows')
       /\ Cardinality(Range(rows')) = Len(rows')]_feedVars

\* A follower that is not stopped catches up with the table.
FollowerCatchesUp == <>(fol.pc = "stopped") \/ <>[](last = Len(rows))
=============================================================================
