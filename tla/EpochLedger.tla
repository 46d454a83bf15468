----------------------------- MODULE EpochLedger -----------------------------
(***************************************************************************)
(* What acquireOwnership promises its callers, with the files left out: a  *)
(* task has one append-only ledger of grants, a grant goes to exactly one  *)
(* process and is numbered by its place in the ledger, and the process it  *)
(* went to is told that number.                                            *)
(***************************************************************************)
EXTENDS Naturals, Sequences

CONSTANT Claimant

VARIABLES
  ledger,   \* ledger[e]: who was granted epoch e
  held      \* held[p]: the epoch p was told it acquired, 0 for none

ledgerVars == <<ledger, held>>

LedgerInit ==
  /\ ledger = <<>>
  /\ held = [p \in Claimant |-> 0]

\* The next epoch is granted to p.
Grant(p) ==
  /\ ledger' = Append(ledger, p)
  /\ held' = [held EXCEPT ![p] = Len(ledger) + 1]

\* p stops using the epoch it holds; the ledger keeps the grant.
Drop(p) ==
  /\ held' = [held EXCEPT ![p] = 0]
  /\ UNCHANGED ledger

LedgerNext == \E p \in Claimant : Grant(p) \/ Drop(p)

LedgerSpec == LedgerInit /\ [][LedgerNext]_ledgerVars
=============================================================================
