------------------------------ MODULE Ownership ------------------------------
(***************************************************************************)
(* Ownership epochs of one task in the local control store                 *)
(* (harness/kernel/connectors/checkpoint/control-store/local.ts).          *)
(*                                                                         *)
(* ownership/epoch-<n>.json is published with link(2) from a finished      *)
(* temporary file, so an epoch file is absent, complete or corrupt, never  *)
(* half written.  A caller of acquireOwnership lists the directory, links  *)
(* the next epoch, and, when the name is taken, parses what is there: a    *)
(* readable record means it lost, an unreadable one is unlinked and the    *)
(* attempt repeated.  Each of these system calls is one step, because      *)
(* other processes run between them.                                       *)
(***************************************************************************)
EXTENDS Naturals, FiniteSets

CONSTANTS
  Proc,         \* processes that may call acquireOwnership for the task
  MaxEpoch,     \* bound: epochs that may be claimed in one behaviour
  MaxAttempts,  \* MAX_ACQUIRE_ATTEMPTS
  MaxFaults,    \* bound: epochs under whose name a corrupt file may appear
  Absent,       \* no file under an epoch's name
  Corrupt       \* a file whose content does not parse

ASSUME OwnershipAssumption ==
  /\ MaxEpoch \in Nat
  /\ MaxAttempts \in Nat \ {0}
  /\ MaxFaults \in Nat
  /\ Absent \notin Proc
  /\ Corrupt \notin Proc
  /\ Absent # Corrupt

VARIABLES
  epochFile,    \* epochFile[e]: the owner recorded in epoch-<e>.json
  acq,          \* acq[p]: where p is in its acquireOwnership call
  faults        \* epochs under whose name a corrupt file has appeared

ownershipVars == <<epochFile, acq, faults>>

Epoch == 1..MaxEpoch

(***************************************************************************)
(* A call of acquireOwnership: "read" is about to list the directory,      *)
(* "link" about to publish epoch-<epoch>.json, "reparse" about to read the *)
(* file it collided with, "unlink" about to remove a corrupt one; "won",   *)
(* "lost" and "failed" are the three ways the call ends.                   *)
(***************************************************************************)
Running == {"read", "link", "reparse", "unlink"}

AcquireState ==
  [pc : Running \cup {"idle", "won", "lost", "failed"},
   epoch : 0..MaxEpoch,
   tries : 0..MaxAttempts]

NotAcquiring == [pc |-> "idle", epoch |-> 0, tries |-> 0]

-----------------------------------------------------------------------------
(***************************************************************************)
(* readCurrentOwnership: the highest epoch whose file parses, 0 when none  *)
(* does; corrupt files are skipped.                                        *)
(***************************************************************************)
ValidEpochs == {e \in Epoch : epochFile[e] \in Proc}

IsCurrent(e) ==
  /\ e \in ValidEpochs \cup {0}
  /\ \A f \in ValidEpochs : f <= e

\* assertCurrentEpoch: some record is readable and its epoch is e.
AssertCurrentEpoch(e) == e # 0 /\ IsCurrent(e)

-----------------------------------------------------------------------------
OwnershipInit ==
  /\ epochFile = [e \in Epoch |-> Absent]
  /\ acq = [p \in Proc |-> NotAcquiring]
  /\ faults = {}

\* A call of acquireOwnership begins.
RequestEpoch(p) ==
  /\ acq[p].pc = "idle"
  /\ acq' = [acq EXCEPT ![p] = [NotAcquiring EXCEPT !.pc = "read"]]
  /\ UNCHANGED <<epochFile, faults>>

\* One round of the loop starts: list the directory, aim at the next epoch.
ReadCurrent(p) ==
  /\ acq[p].pc = "read"
  /\ acq[p].tries < MaxAttempts
  /\ \E e \in 0..(MaxEpoch - 1) :
       /\ IsCurrent(e)
       /\ acq' = [acq EXCEPT ![p] = [pc |-> "link", epoch |-> e + 1,
                                     tries |-> acq[p].tries + 1]]
  /\ UNCHANGED <<epochFile, faults>>

\* Faulty variant: the bound on the rounds is off by one.
GiveUpTooLate(p) ==
  /\ acq[p].pc = "read"
  /\ acq[p].tries > MaxAttempts
  /\ acq' = [acq EXCEPT ![p].pc = "failed"]
  /\ UNCHANGED <<epochFile, faults>>

\* MAX_ACQUIRE_ATTEMPTS rounds are spent: the call throws.
GiveUp(p) ==
  /\ acq[p].pc = "read"
  /\ acq[p].tries = MaxAttempts
  /\ acq' = [acq EXCEPT ![p].pc = "failed"]
  /\ UNCHANGED <<epochFile, faults>>

\* Faulty variant: a rename, which replaces an existing file, instead of a link.
LinkEpochByRename(p) ==
  /\ acq[p].pc = "link"
  /\ epochFile' = [epochFile EXCEPT ![acq[p].epoch] = p]
  /\ acq' = [acq EXCEPT ![p].pc = "won"]
  /\ UNCHANGED faults

\* exclusiveCreateFile: linkSync publishes the record, or reports EEXIST.
LinkEpoch(p) ==
  LET e == acq[p].epoch IN
  /\ acq[p].pc = "link"
  /\ \/ /\ epochFile[e] = Absent
        /\ epochFile' = [epochFile EXCEPT ![e] = p]
        /\ acq' = [acq EXCEPT ![p].pc = "won"]
     \/ /\ epochFile[e] # Absent
        /\ acq' = [acq EXCEPT ![p].pc = "reparse"]
        /\ UNCHANGED epochFile
  /\ UNCHANGED faults

\* attemptEpochClaim after EEXIST: a readable record is the winner's.  A file
\* that another claimant has just removed is no more readable than a corrupt one.
Reparse(p) ==
  /\ acq[p].pc = "reparse"
  /\ acq' = [acq EXCEPT ![p].pc =
               IF epochFile[acq[p].epoch] \in Proc THEN "lost" ELSE "unlink"]
  /\ UNCHANGED <<epochFile, faults>>

\* The reclaim: unlinkSync of whatever the name holds now, ENOENT ignored.
UnlinkCorrupt(p) ==
  /\ acq[p].pc = "unlink"
  /\ epochFile' = [epochFile EXCEPT ![acq[p].epoch] = Absent]
  /\ acq' = [acq EXCEPT ![p].pc = "read"]
  /\ UNCHANGED faults

\* acquireOwnership, one system call at a time.
AcquireStep(p) ==
  \/ ReadCurrent(p)
  \/ GiveUp(p)
  \/ LinkEpoch(p)
  \/ Reparse(p)
  \/ UnlinkCorrupt(p)

\* The caller is done with its epoch, or dies: nothing on disk changes, since
\* the store has no release operation and an epoch ends when a later one exists.
Forget(p) ==
  /\ acq[p].pc # "idle"
  /\ acq' = [acq EXCEPT ![p] = NotAcquiring]
  /\ UNCHANGED <<epochFile, faults>>

\* The fault the reclaim path exists for: an unreadable file under the next
\* free epoch's name, the remains of a claim that never completed.
OrphanedClaim ==
  /\ Cardinality(faults) < MaxFaults
  /\ \E e \in Epoch :
       /\ IsCurrent(e - 1)
       /\ epochFile[e] = Absent
       /\ epochFile' = [epochFile EXCEPT ![e] = Corrupt]
       /\ faults' = faults \cup {e}
  /\ UNCHANGED acq

OwnershipNext ==
  \/ \E p \in Proc : RequestEpoch(p) \/ AcquireStep(p) \/ Forget(p)
  \/ OrphanedClaim

OwnershipFairness == \A p \in Proc : WF_ownershipVars(AcquireStep(p))

OwnershipSpec ==
  OwnershipInit /\ [][OwnershipNext]_ownershipVars /\ OwnershipFairness
-----------------------------------------------------------------------------
(***************************************************************************)
(* Properties                                                              *)
(***************************************************************************)
\* Every variable of the store's ownership directory and of the callers of
\* acquireOwnership has its declared type.
OwnershipTypeOK ==
  /\ epochFile \in [Epoch -> Proc \cup {Absent, Corrupt}]
  /\ acq \in [Proc -> AcquireState]
  /\ faults \in SUBSET Epoch

Holds(p, e) == acq[p].pc = "won" /\ acq[p].epoch = e

\* Two callers of acquireOwnership never both believe they hold the same epoch,
\* however their listings, links and re-parses interleave, and whatever is
\* reclaimed elsewhere: only the name of an epoch that once held a corrupt file
\* can be granted twice.
SingleWinner ==
  \A p, q \in Proc : \A e \in Epoch \ faults : Holds(p, e) /\ Holds(q, e) => p = q

\* A caller that was told it lost was beaten by another process, whose record is
\* readable under the contested epoch, unless that epoch was ever corrupt.
LoserSeesWinner ==
  \A p \in Proc :
    acq[p].pc = "lost" /\ acq[p].epoch \notin faults => epochFile[acq[p].epoch] \in Proc \ {p}

\* The readable epochs are 1..n, but for those that were ever corrupt: an epoch
\* is granted only on top of a complete history, so the highest readable epoch
\* is also the number of grants made.
EpochsContiguous ==
  \A e \in ValidEpochs : \A f \in 1..e : f \in ValidEpochs \cup faults

\* A readable ownership record is immutable: no step of any caller replaces or
\* removes it, unless a corrupt file once had its name.
OwnerImmutable ==
  [][\A e \in Epoch \ faults :
       epochFile[e] \in Proc => epochFile'[e] = epochFile[e]]_ownershipVars

\* The reclaim loop ends: a caller that keeps finding corrupt files, or files
\* other callers remove under it, wins, loses or gives up (or is interrupted),
\* unless the epochs of the model are used up.
AcquireReturns ==
  \A p \in Proc :
    acq[p].pc \in Running ~> acq[p].pc \notin Running \/ MaxEpoch \in ValidEpochs

\* The inductive invariant behind SingleWinner, for the epochs that were never
\* corrupt: a link aimed at e was prepared when 1..e-1 were granted and e was not,
\* a caller past the link holds the file it believes in, and nobody reclaims it.
OwnershipInv ==
  /\ EpochsContiguous
  /\ \A e \in Epoch \ faults : epochFile[e] # Corrupt
  /\ \A p \in Proc :
       /\ acq[p].pc \in {"link", "reparse", "unlink", "won", "lost"} => acq[p].epoch \in Epoch
       /\ acq[p].pc = "unlink" => acq[p].epoch \in faults
       /\ acq[p].pc = "link" =>
            \A f \in 1..(acq[p].epoch - 1) : f \in ValidEpochs \cup faults
       /\ acq[p].epoch \notin faults =>
            /\ acq[p].pc = "link" => epochFile[acq[p].epoch] # p
            /\ acq[p].pc \in {"reparse", "lost"} => epochFile[acq[p].epoch] \in Proc \ {p}
            /\ acq[p].pc = "won" => epochFile[acq[p].epoch] = p

\* Until the first corrupt file the readable epochs are exactly 1..e for some e:
\* what the refinement below needs beside OwnershipInv.
HistoryIsPrefix ==
  faults = {} => \E e \in 0..MaxEpoch : ValidEpochs = 1..e

-----------------------------------------------------------------------------
(***************************************************************************)
(* Refinement: until the first corrupt file, the directory of epoch files  *)
(* is the append-only ledger of EpochLedger.                               *)
(***************************************************************************)
TopEpoch == CHOOSE e \in 0..MaxEpoch : IsCurrent(e)

Ledger == INSTANCE EpochLedger WITH
  Claimant <- Proc,
  ledger <- [e \in 1..TopEpoch |-> epochFile[e]],
  held <- [p \in Proc |-> IF acq[p].pc = "won" THEN acq[p].epoch ELSE 0]

\* The epoch files written by racing callers of acquireOwnership implement the
\* append-only ledger as long as no file is corrupt: each grant is the next one
\* and goes to one caller.
ImplementsLedger ==
  Ledger!LedgerInit /\ [][faults # {} \/ Ledger!LedgerNext]_(Ledger!ledgerVars)
=============================================================================
