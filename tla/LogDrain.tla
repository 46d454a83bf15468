------------------------------ MODULE LogDrain ------------------------------
(***************************************************************************)
(* The outbox of one task and its delivery to the log server.              *)
(*                                                                         *)
(* A log call appends its line to the live file, moving a full one to the  *)
(* single backup slot first (log-sink.ts, appendLine), and starts a drain  *)
(* (client/log-webhook-drain.ts).  A drain renames one bucket at a time -  *)
(* what an earlier drain left, the backup slot, the live file - to a       *)
(* private name, POSTs it from its head in chunks, and cuts each chunk off *)
(* once the server has acknowledged it.  Appends take no lock.             *)
(*                                                                         *)
(* Files are inodes: a writer that has opened the live file keeps writing  *)
(* to it after a rename.  A process runs one thread, so a drain of its own *)
(* advances past an append only while the drain waits for a POST; system   *)
(* calls of different processes interleave freely.                         *)
(*                                                                         *)
(* Events are numbered in the order in which their lines are written.      *)
(***************************************************************************)
EXTENDS DrainLock, LogStore

CONSTANTS
  MaxEvents,    \* bound: lines written
  RotateAt,     \* OUTBOX_MAX_BYTES, in lines
  ChunkMax,     \* MAX_WEBHOOK_BODY_BYTES, in lines
  MayBeUnfit,   \* bound: events that may turn out undeliverable
  MaxCrashes,   \* bound: processes that die
  MaxFails      \* bound: POSTs that fail, lines that cannot be set aside

ASSUME LogDrainAssumption ==
  /\ {MaxEvents, RotateAt, MaxCrashes, MaxFails} \subseteq Nat
  /\ ChunkMax \in Nat \ {0}
  /\ MayBeUnfit \subseteq 1..MaxEvents

VARIABLES
  name,         \* name[b]: the inode under a bucket's name, 0 when absent
  data,         \* data[i]: the events in inode i
  app,          \* app[p]: p's append
  dr,           \* dr[p]: p's drain
  net,          \* request bodies on their way to the server
  server,       \* events the server has stored, in order
  setAside,     \* events in the rejected file
  written,      \* lines written so far
  unfit,        \* those the storage contract rejects, or one POST cannot carry
  crashes, fails,
  excused,      \* history: events given up by a rotation, by a write to a file
                \* that a drain has taken, by a crash inside a rewrite
  mates         \* history: <<e, f>> when f was written behind e in one file

drainVars == <<name, data, app, dr, net, server, setAside, written, unfit,
               crashes, fails, excused, mates>>
vars == <<lockVars, drainVars>>

Bucket == {"live", "backup", "draining"}
Line == 1..MaxEvents
Inode == 1..(3 + 2 * Cardinality(Proc))

AppendState == [pc : {"idle", "full", "reopen", "write"}, fd : Inode \cup {0}]
NotAppending == [pc |-> "idle", fd |-> 0]

DrainState ==
  [pc : {"idle", "claim", "read", "next", "post", "await", "cut", "rewrite",
         "unlink"},
   stage : {"leftover", "backup", "live"},
   buf : Seq(Line),       \* what is left of the one read of the bucket
   count : Nat,           \* lines to cut
   keep : Seq(Line),      \* what a rewrite puts back
   ino : Inode \cup {0}]
NotDraining == [pc |-> "idle", stage |-> "leftover", buf |-> <<>>,
                count |-> 0, keep |-> <<>>, ino |-> 0]

InUse == Range(name) \cup {app[p].fd : p \in Proc} \cup {dr[p].ino : p \in Proc}
FreshInode == CHOOSE i \in Inode : i \notin InUse

EventsOf(i) == IF i = 0 THEN {} ELSE Range(data[i])

\* The last name of inode i is gone: nobody reads its content again.
Dropped(i) == IF i = 0 THEN data ELSE [data EXCEPT ![i] = <<>>]

-----------------------------------------------------------------------------
(***************************************************************************)
(* appendLine.  The thread is p's alone: no append starts while p's drain  *)
(* is between two waits.                                                   *)
(***************************************************************************)
ThreadFree(p) == dr[p].pc \in {"idle", "await"} /\ lk[p].pc \in {"idle", "held"}

\* guardedAppendOpen: the live file, created when absent.
OpenLive(p, pc) ==
  LET ino == IF name["live"] = 0 THEN FreshInode ELSE name["live"]
  IN /\ name' = [name EXCEPT !["live"] = ino]
     /\ data' = IF name["live"] = 0 THEN [data EXCEPT ![ino] = <<>>] ELSE data
     /\ app' = [app EXCEPT ![p] = [pc |-> pc, fd |-> ino]]

\* Open and fstat: a file past the cap is closed and rotated first.
AppendOpen(p) ==
  /\ app[p].pc = "idle" /\ ThreadFree(p)
  /\ written + Cardinality({q \in Proc : app[q].pc # "idle"}) < MaxEvents
  /\ IF name["live"] # 0 /\ Len(data[name["live"]]) > RotateAt
     THEN app' = [app EXCEPT ![p].pc = "full"] /\ UNCHANGED <<name, data>>
     ELSE OpenLive(p, "write")
  /\ UNCHANGED <<lockVars, dr, net, server, setAside, written, unfit, crashes, fails,
                 excused, mates>>

(***************************************************************************)
(* The rename over the backup slot; what the slot held is gone.  When a    *)
(* drain has taken the live file meanwhile the rename throws, and the line *)
(* is dropped with a warning.                                              *)
(***************************************************************************)
Rotate(p) ==
  /\ app[p].pc = "full"
  /\ IF name["live"] = 0
     THEN /\ app' = [app EXCEPT ![p] = NotAppending]
          /\ written' = written + 1
          /\ excused' = excused \cup {written + 1}
          /\ UNCHANGED <<name, data>>
     ELSE /\ excused' = excused \cup EventsOf(name["backup"])
          /\ data' = Dropped(name["backup"])
          /\ name' = [name EXCEPT !["backup"] = name["live"], !["live"] = 0]
          /\ app' = [app EXCEPT ![p].pc = "reopen"]
          /\ UNCHANGED written
  /\ UNCHANGED <<lockVars, dr, net, server, setAside, unfit, crashes, fails, mates>>

AppendReopen(p) ==
  /\ app[p].pc = "reopen"
  /\ OpenLive(p, "write")
  /\ UNCHANGED <<lockVars, dr, net, server, setAside, written, unfit, crashes, fails,
                 excused, mates>>

\* One O_APPEND write to the file opened before, whatever its name is now.
AppendWrite(p) ==
  LET fd == app[p].fd
      e == written + 1
  IN /\ app[p].pc = "write"
     /\ written' = e
     /\ \/ UNCHANGED unfit
        \/ e \in MayBeUnfit /\ unfit' = unfit \cup {e}
     /\ data' = [data EXCEPT ![fd] = Append(@, e)]
     /\ mates' = mates \cup {<<f, e>> : f \in EventsOf(fd)}
     /\ excused' = IF fd \in {name["live"], name["backup"]} THEN excused
                   ELSE excused \cup {e}
     /\ app' = [app EXCEPT ![p] = NotAppending]
     /\ UNCHANGED <<lockVars, name, dr, net, server, setAside, crashes, fails>>

AppendStep(p) == Rotate(p) \/ AppendReopen(p) \/ AppendWrite(p)

-----------------------------------------------------------------------------
(***************************************************************************)
(* drainOutboxToWebhook.  keepLock is "renew" in the lock's state: the     *)
(* drain goes on when the lock is "kept" and ends when it is "lost".       *)
(***************************************************************************)
Runs(p, pc) == dr[p].pc = pc /\ app[p].pc = "idle"

Keeping(p) == lk' = [lk EXCEPT ![p].pc = "renew"] /\ UNCHANGED <<lockFile, lapses>>
Kept(p) == lk[p].pc = "kept"
GoOn(p) == lk' = [lk EXCEPT ![p].pc = "held"] /\ UNCHANGED <<lockFile, lapses>>

FreeRecord(pc, stage) == [NotDraining EXCEPT !.pc = pc, !.stage = stage]

\* An error, or nothing left to do: the finally block releases the lock.
EndDrain(p) ==
  /\ dr' = [dr EXCEPT ![p] = NotDraining]
  /\ lk' = [lk EXCEPT ![p].pc = "release"]
  /\ UNCHANGED <<lockFile, lapses>>

\* The next bucket is claimed after a renewal of the lock.
NextStage(p, stage) ==
  /\ dr' = [dr EXCEPT ![p] = FreeRecord("claim", stage)]
  /\ Keeping(p)

\* A drain is scheduled by every log call; its own lock is taken first.
DrainStart(p) ==
  /\ Runs(p, "idle")
  /\ StartAcquire(p)
  /\ UNCHANGED drainVars

\* Faulty variant: what an earlier drain left is not looked at.
DrainHeldNoLeftover(p) ==
  /\ Runs(p, "idle") /\ lk[p].pc = "held"
  /\ NextStage(p, "backup")
  /\ UNCHANGED <<name, data, app, net, server, setAside, written, unfit, crashes,
                 fails, excused, mates>>

\* With the lock: is there a bucket that an earlier drain left?
DrainHeld(p) ==
  /\ Runs(p, "idle") /\ lk[p].pc = "held"
  /\ IF name["draining"] # 0
     THEN dr' = [dr EXCEPT ![p] = FreeRecord("read", "leftover")] /\ Keeping(p)
     ELSE NextStage(p, "backup")
  /\ UNCHANGED <<name, data, app, net, server, setAside, written, unfit, crashes,
                 fails, excused, mates>>

DrainLost(p) ==
  /\ lk[p].pc = "lost" /\ app[p].pc = "idle"
  /\ EndDrain(p)
  /\ UNCHANGED <<name, data, app, net, server, setAside, written, unfit, crashes,
                 fails, excused, mates>>

\* drainRenamedAside: the rename alone is the claim; an absent bucket is skipped.
ClaimBucket(p) ==
  LET stage == dr[p].stage
  IN /\ Runs(p, "claim") /\ Kept(p)
     /\ IF name[stage] # 0
        THEN /\ name' = [name EXCEPT ![stage] = 0, !["draining"] = name[stage]]
             /\ data' = Dropped(name["draining"])
             /\ dr' = [dr EXCEPT ![p].pc = "read"]
             /\ GoOn(p)
        ELSE /\ IF stage = "backup" THEN NextStage(p, "live") ELSE EndDrain(p)
             /\ UNCHANGED <<name, data>>
     /\ UNCHANGED <<app, net, server, setAside, written, unfit, crashes, fails,
                    excused, mates>>

\* drainQueueFile reads the bucket once; a missing file ends in a failed unlink.
ReadBucket(p) ==
  /\ Runs(p, "read") /\ lk[p].pc \in {"held", "kept"}
  /\ IF name["draining"] = 0 THEN EndDrain(p)
     ELSE /\ dr' = [dr EXCEPT ![p].pc = "next", ![p].buf = data[name["draining"]]]
          /\ GoOn(p)
  /\ UNCHANGED <<name, data, app, net, server, setAside, written, unfit, crashes,
                 fails, excused, mates>>

(***************************************************************************)
(* The loop over the lines: the fit lines at the head, as many as one POST *)
(* carries, are the next chunk; an unfit line at the head is set aside.    *)
(***************************************************************************)
FitPrefix(buf) == {n \in 0..Len(buf) : n <= ChunkMax /\ \A i \in 1..n : buf[i] \notin unfit}
ChunkOf(buf) == SubSeq(buf, 1, CHOOSE n \in FitPrefix(buf) : \A m \in FitPrefix(buf) : m <= n)

\* A chunk is posted under a renewed lock.
NextChunk(p) ==
  /\ Runs(p, "next") /\ dr[p].buf # <<>> /\ Head(dr[p].buf) \notin unfit
  /\ dr' = [dr EXCEPT ![p].pc = "post"]
  /\ Keeping(p)
  /\ UNCHANGED <<name, data, app, net, server, setAside, written, unfit, crashes,
                 fails, excused, mates>>

\* rejectLine; when the rejected file cannot be written the drain ends.
SetAside(p) ==
  /\ Runs(p, "next") /\ dr[p].buf # <<>> /\ Head(dr[p].buf) \in unfit
  /\ \/ /\ setAside' = setAside \cup {Head(dr[p].buf)}
        /\ dr' = [dr EXCEPT ![p].pc = "cut", ![p].count = 1]
        /\ UNCHANGED <<lockVars, fails>>
     \/ /\ fails < MaxFails /\ fails' = fails + 1
        /\ EndDrain(p)
        /\ UNCHANGED setAside
  /\ UNCHANGED <<name, data, app, net, server, written, unfit, crashes, excused, mates>>

BucketDone(p) ==
  /\ Runs(p, "next") /\ dr[p].buf = <<>>
  /\ dr' = [dr EXCEPT ![p].pc = "unlink"]
  /\ UNCHANGED <<lockVars, name, data, app, net, server, setAside, written, unfit,
                 crashes, fails, excused, mates>>

\* postChunk: the request leaves, and the thread is free until it is answered.
PostChunk(p) ==
  /\ Runs(p, "post") /\ Kept(p)
  /\ net' = net \cup {ChunkOf(dr[p].buf)}
  /\ dr' = [dr EXCEPT ![p].pc = "await"]
  /\ GoOn(p)
  /\ UNCHANGED <<name, data, app, server, setAside, written, unfit, crashes, fails,
                 excused, mates>>

\* The server takes a body; the answer may still be lost.
ServerStores ==
  \E body \in net :
    /\ net' = net \ {body}
    /\ server' = StoreBatch(server, body)
    /\ UNCHANGED <<lockVars, name, data, app, dr, setAside, written, unfit, crashes,
                   fails, excused, mates>>

PostAcknowledged(p) ==
  LET chunk == ChunkOf(dr[p].buf)
  IN /\ Runs(p, "await") /\ chunk \notin net /\ Range(chunk) \subseteq Range(server)
     /\ dr' = [dr EXCEPT ![p].pc = "cut", ![p].count = Len(chunk)]
     /\ UNCHANGED <<lockVars, name, data, app, net, server, setAside, written, unfit,
                    crashes, fails, excused, mates>>

\* Faulty variant: the drain goes on behind the chunk that failed.
PostFailsSkipping(p) ==
  /\ Runs(p, "await")
  /\ fails < MaxFails /\ fails' = fails + 1
  /\ net' = net \ {ChunkOf(dr[p].buf)}
  /\ dr' = [dr EXCEPT ![p].pc = "next",
                      ![p].buf = SubSeq(@, Len(ChunkOf(@)) + 1, Len(@))]
  /\ UNCHANGED <<lockVars, name, data, app, server, setAside, written, unfit, crashes,
                 excused, mates>>

\* A refusal, a timeout or a network error; the body is lost or arrives late.
PostFails(p) ==
  /\ Runs(p, "await")
  /\ fails < MaxFails /\ fails' = fails + 1
  /\ net' \in {net, net \ {ChunkOf(dr[p].buf)}}
  /\ EndDrain(p)
  /\ UNCHANGED <<name, data, app, server, setAside, written, unfit, crashes, excused,
                 mates>>

(***************************************************************************)
(* removeQueueHead reads the file and writes the rest back over it: the    *)
(* file is empty between the truncating open and the write.                *)
(***************************************************************************)
CutTruncate(p) ==
  LET ino == name["draining"]
      rest(s) == SubSeq(s, dr[p].count + 1, Len(s))
  IN /\ Runs(p, "cut")
     /\ IF ino = 0 THEN EndDrain(p) /\ UNCHANGED data
        ELSE /\ dr' = [dr EXCEPT ![p].pc = "rewrite", ![p].ino = ino,
                                 ![p].keep = rest(data[ino]), ![p].buf = rest(@),
                                 ![p].count = 0]
             /\ data' = [data EXCEPT ![ino] = <<>>]
             /\ UNCHANGED lockVars
     /\ UNCHANGED <<name, app, net, server, setAside, written, unfit, crashes, fails,
                    excused, mates>>

CutRewrite(p) ==
  /\ Runs(p, "rewrite")
  /\ data' = [data EXCEPT ![dr[p].ino] = dr[p].keep]
  /\ dr' = [dr EXCEPT ![p].pc = "next", ![p].ino = 0, ![p].keep = <<>>]
  /\ UNCHANGED <<lockVars, name, app, net, server, setAside, written, unfit, crashes,
                 fails, excused, mates>>

\* The delivered bucket is removed and the next one claimed.
UnlinkBucket(p) ==
  /\ Runs(p, "unlink")
  /\ name' = [name EXCEPT !["draining"] = 0]
  /\ data' = Dropped(name["draining"])
  /\ CASE name["draining"] = 0 \/ dr[p].stage = "live" -> EndDrain(p)
       [] dr[p].stage = "backup" -> NextStage(p, "live")
       [] OTHER -> NextStage(p, "backup")
  /\ UNCHANGED <<app, net, server, setAside, written, unfit, crashes, fails, excused,
                 mates>>

DrainStep(p) ==
  \/ DrainHeld(p) \/ DrainLost(p) \/ ClaimBucket(p) \/ ReadBucket(p)
  \/ NextChunk(p) \/ SetAside(p) \/ BucketDone(p) \/ PostChunk(p)
  \/ PostAcknowledged(p) \/ CutTruncate(p) \/ CutRewrite(p) \/ UnlinkBucket(p)

LockStep(p) ==
  /\ app[p].pc = "idle"
  /\ AcquireStep(p) \/ RenewStep(p) \/ ReleaseStep(p)
  /\ UNCHANGED drainVars

-----------------------------------------------------------------------------
\* The process dies, in a drain or in an append.
Crash(p) ==
  /\ crashes < MaxCrashes /\ crashes' = crashes + 1
  /\ LockCrash(p)
  /\ app' = [app EXCEPT ![p] = NotAppending]
  /\ dr' = [dr EXCEPT ![p] = NotDraining]
  /\ excused' = excused \cup Range(dr[p].keep)
  /\ UNCHANGED <<name, data, net, server, setAside, written, unfit, fails, mates>>

Ages == LockAges /\ UNCHANGED drainVars

Init ==
  /\ LockInit
  /\ name = [b \in Bucket |-> 0]
  /\ data = [i \in Inode |-> <<>>]
  /\ app = [p \in Proc |-> NotAppending]
  /\ dr = [p \in Proc |-> NotDraining]
  /\ net = {} /\ server = <<>> /\ setAside = {}
  /\ written = 0 /\ unfit = {} /\ crashes = 0 /\ fails = 0
  /\ excused = {} /\ mates = {}

Next ==
  \/ \E p \in Proc :
       \/ AppendOpen(p) \/ AppendStep(p)
       \/ DrainStart(p) \/ DrainStep(p) \/ LockStep(p)
       \/ PostFails(p) \/ Crash(p)
  \/ ServerStores
  \/ Ages

(***************************************************************************)
(* A begun append or drain goes on; the server answers what reaches it; an *)
(* abandoned lock ages; and log calls keep coming, each of which starts a  *)
(* drain (there is no retry timer).                                        *)
(***************************************************************************)
Fairness ==
  /\ \A p \in Proc :
       WF_vars(AppendStep(p)) /\ WF_vars(DrainStep(p)) /\ WF_vars(LockStep(p))
  /\ WF_vars(ServerStores) /\ WF_vars(Ages)
  /\ \A p \in Proc : SF_vars(DrainStart(p))

Spec == Init /\ [][Next]_vars /\ Fairness
-----------------------------------------------------------------------------
QueueTypeOK ==
  /\ name \in [Bucket -> Inode \cup {0}] /\ data \in [Inode -> Seq(Line)]
  /\ app \in [Proc -> AppendState] /\ dr \in [Proc -> DrainState]
  /\ net \subseteq Seq(Line) /\ server \in Seq(Line) /\ setAside \subseteq Line
  /\ written \in 0..MaxEvents /\ unfit \subseteq MayBeUnfit
  /\ crashes \in 0..MaxCrashes /\ fails \in 0..MaxFails
  /\ excused \subseteq Line /\ mates \subseteq Line \X Line

\* The lock, the files, every append and drain, and the server have their types.
LogTypeOK == DrainLockTypeOK /\ QueueTypeOK

\* Two drains never work on one queue at a time, whichever of them dies and
\* whoever takes a stale lock over (acquireDrainLock), while no live holder's
\* lock lapses.
OneDrainer == \A p, q \in Proc : Holds(p) /\ Holds(q) => p = q

InTransit ==
  (UNION {EventsOf(name[b]) : b \in Bucket})
    \cup (UNION {Range(dr[p].keep) : p \in Proc})

\* Every line written is on the server, set aside, or still in a file of the
\* queue, unless a rotation, a write behind a drain's back or a process killed
\* inside removeQueueHead gave it up: no failed POST, lost answer, crash or
\* takeover of a dead drain loses one, while no live holder's lock lapses.
\* Only a line the storage contract rejects is set aside, and none such is
\* stored.
EveryLineAccounted ==
  /\ \A e \in 1..written :
       e \in InTransit \cup Range(server) \cup setAside \cup excused
  /\ setAside \subseteq unfit
  /\ Range(server) \cap unfit = {}

\* Lines of one file reach the server in the order in which they were written
\* (drainQueueFile from the head, the same head again after a failure).
FileOrderKept ==
  \A m \in mates :
    LET e == m[1]  f == m[2]
    IN Contains(server, f) =>
         \/ e \in unfit \cup excused
         \/ \E i, j \in 1..Len(server) : i < j /\ server[i] = e /\ server[j] = f

-----------------------------------------------------------------------------
(***************************************************************************)
(* The inductive invariant behind the three properties above.              *)
(***************************************************************************)
\* A drain that is under way owns the lock, and has renewed it where it works on
\* its bucket.
SessionInv ==
  \A p \in Proc :
    /\ dr[p].pc # "idle" => lk[p].pc \in {"held", "renew", "touch", "kept", "lost"}
    /\ dr[p].pc \in {"next", "await", "cut", "rewrite", "unlink"} => lk[p].pc = "held"

\* Only lines that have been written are anywhere, and there is room for those of
\* the appends under way.
KnownInv ==
  LET known == 1..written
  IN /\ written + Cardinality({q \in Proc : app[q].pc # "idle"}) <= MaxEvents
     /\ \A i \in Inode : Range(data[i]) \subseteq known
     /\ \A p \in Proc : Range(dr[p].buf) \subseteq known /\ Range(dr[p].keep) \subseteq known
     /\ \A body \in net : Range(body) \subseteq known
     /\ Range(server) \subseteq known /\ mates \subseteq known \X known

\* A file has one name, and a writer has it open.
NamesInv ==
  /\ \A b, c \in Bucket : name[b] # 0 /\ name[b] = name[c] => b = c
  /\ \A p \in Proc : app[p].pc = "write" => app[p].fd # 0

\* buf is the head of s, and the rest of s was written behind the drain's back.
Mirrors(buf, s) ==
  /\ Len(buf) <= Len(s) /\ \A i \in 1..Len(buf) : s[i] = buf[i]
  /\ \A i \in (Len(buf) + 1)..Len(s) : s[i] \in excused

\* What a drain holds of its bucket mirrors the file under the draining name.
BucketOK(d) ==
  LET ino == name["draining"]
  IN /\ d.pc # "rewrite" => d.keep = <<>>
     /\ d.pc = "claim" => ino = 0 /\ d.stage # "leftover"
     /\ d.pc \in {"next", "post", "await", "cut", "rewrite"} => ino # 0
     /\ d.pc \in {"next", "post", "await", "cut"} => Mirrors(d.buf, data[ino])
     /\ d.pc = "cut" =>
          /\ d.count <= Len(d.buf)
          /\ \A i \in 1..d.count : d.buf[i] \in Range(server) \cup setAside
     /\ d.pc = "rewrite" => d.ino = ino /\ Mirrors(d.buf, d.keep)
     /\ d.pc \in {"rewrite", "unlink"} => EventsOf(ino) \subseteq excused

BucketInv == \A p \in Proc : BucketOK(dr[p])

\* A body on its way carries no line that the storage contract rejects.
FitInv == \A body \in net : Range(body) \cap unfit = {}

\* In a file, a rewrite or a body, a line comes behind the one it was written behind,
\* unless that one is stored, unfit or given up already.
InOrder(s) ==
  \A m \in mates : \A j \in 1..Len(s) :
    s[j] = m[2] =>
      m[1] \in Range(server) \cup unfit \cup excused \/ \E i \in 1..(j - 1) : s[i] = m[1]

OrderInv ==
  /\ \A i \in Inode : InOrder(data[i])
  /\ \A p \in Proc : InOrder(dr[p].keep)
  /\ \A body \in net : InOrder(body)

QueueInv ==
  /\ KnownInv /\ NamesInv /\ BucketInv /\ FitInv /\ OrderInv
  /\ EveryLineAccounted /\ FileOrderKept

LogDrainInv == DrainLockInv /\ SessionInv /\ QueueInv

-----------------------------------------------------------------------------
\* A contender has moved aside a lock that is not the one it judged stale; the
\* holder it belongs to gives up, and the file put back has to age again.
Disturbed ==
  \E p \in Proc : lk[p].pc = "compare" /\ lk[p].claimed.stamp # lk[p].seen

\* Every line that nothing gave up is delivered or set aside in the end, after
\* failed POSTs, crashed drains and abandoned locks, unless contenders disturb
\* each other's takeover of a stale lock for ever (acquireDrainLock).
EventuallyDelivered ==
  <>[](~Disturbed) =>
    \A e \in Line :
      (written >= e) ~> (e \in Range(server) \cup setAside \cup excused)
=============================================================================
