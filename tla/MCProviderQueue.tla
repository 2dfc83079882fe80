--------------------------- MODULE MCProviderQueue ---------------------------
(* Small instances of ProviderQueue for TLC.                               *)
EXTENDS ProviderQueue, TLC

CONSTANTS p1, p2, p3, b1, a1

\* Two turns of one conversation, a turn of another, a task step, housekeeping.
LaneOfTurn == [t \in Turn |-> IF t \in {p1, p2, p3} THEN "interactive" ELSE "background"]
SessionOf == (p1 :> 1) @@ (p2 :> 2) @@ (p3 :> 1) @@ (b1 :> 3) @@ (a1 :> 4)
GezelOf == (p1 :> 1) @@ (p2 :> 2) @@ (p3 :> 1) @@ (b1 :> 1) @@ (a1 :> 2)

\* The engine relaunches with one slot fewer, or one slot.
Relaunches == {[l \in {"total", "interactive", "background"} |-> IF l = "total" THEN 2 ELSE 1]}
NoRelaunch == {}

=============================================================================
