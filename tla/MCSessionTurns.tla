---------------------------- MODULE MCSessionTurns ----------------------------
(* Small instances of SessionTurns for TLC.                                *)
EXTENDS SessionTurns, TLC

CONSTANTS n1, n2, c1, c2

\* Two nudges of the person, the first of which may be an interrupt instead, and
\* two notifications of a gezel, one of them hidden.
KindOf == [m \in Msg |-> IF m \in {n1, n2} THEN "nudge" ELSE "coalescable"]
BucketOf == [m \in Msg |-> IF m \in {n1, n2} THEN "person" ELSE "gezel"]

=============================================================================
