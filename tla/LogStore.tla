------------------------------ MODULE LogStore ------------------------------
(***************************************************************************)
(* What the log server's repository store does with one request body       *)
(* (apps/log-server/src/repo-log.ts): every line is stored under its event *)
(* identity with INSERT OR IGNORE, so a line that is already there is      *)
(* skipped and the others are appended in the order of the body.           *)
(***************************************************************************)
EXTENDS Naturals, Sequences, SequencesExt

\* One line: a row is its event, its index is its seq.
StoreLine(rows, e) == IF e \in Range(rows) THEN rows ELSE Append(rows, e)

\* The rows after one body.
StoreBatch(rows, body) ==
  LET stored[n \in 0..Len(body)] ==
        IF n = 0 THEN rows ELSE StoreLine(stored[n - 1], body[n])
  IN stored[Len(body)]

\* The elements of seq that are in S, in their order.
Among(seq, S) ==
  LET kept[n \in 0..Len(seq)] ==
        IF n = 0 THEN <<>>
        ELSE IF seq[n] \in S THEN Append(kept[n - 1], seq[n]) ELSE kept[n - 1]
  IN kept[Len(seq)]
=============================================================================
