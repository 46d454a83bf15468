---------------------------- MODULE MCRoundLoop ----------------------------
(* Model-checking instances of RoundLoop: see README, "Runs". *)
EXTENDS RoundLoop

CONSTANTS k1, k2, i1

Answer(what, blocking, open, resolved, reproduced) ==
  [verdict |-> what, blocking |-> blocking, open |-> open,
   resolved |-> resolved, reproduced |-> reproduced]

\* An escalation, an approval, and requests over one finding or the other; the
\* first of them reports an earlier finding resolved, the last reproduces it.
MCVerdict ==
  { Answer("ESCALATE", {}, {}, {}, {}), Answer("clean", {}, {}, {}, {}),
    Answer("changes", {k1}, {}, {i1}, {}), Answer("changes", {k2}, {}, {}, {}),
    Answer("changes", {k2}, {}, {}, {i1}) }

\* An approval and two requests: enough for every way back to the Developer.
MCVerdictFew ==
  { Answer("clean", {}, {}, {}, {}),
    Answer("changes", {k1}, {}, {i1}, {}), Answer("changes", {k2}, {}, {}, {i1}) }

MCKey == {k1, k2}
MCId == {i1}
=============================================================================
