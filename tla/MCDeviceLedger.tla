--------------------------- MODULE MCDeviceLedger ---------------------------
(* Small instances of DeviceLedger for TLC.                                *)
EXTENDS DeviceLedger, TLC

CONSTANTS h1, h2, e1, s1, s2, s3

Reading(free, limit) ==
  [bytes |-> free, ram |-> free, gpu |-> free, budget |-> limit, gpuBudget |-> limit]

\* Queue: two daemons, no crash. s1 is large and exclusive, s2 and s3 are small,
\* s3 asks in the background. The limit of h2 is lowered below s1 and raised again.
QOwner == [i \in Engine |-> IF i = s1 THEN h2 ELSE h1]
QBytes == (s1 :> 3) @@ (s2 :> 2) @@ (s3 :> 1)
QGpuBytes == (s1 :> 3) @@ (s2 :> 1) @@ (s3 :> 1)
QExclusive == [i \in Engine |-> i = s1]
QPriorities == [i \in Engine |-> IF i = s3 THEN {"background"} ELSE {"interactive"}]
QSamples == (h1 :> {Reading(1, 4), Reading(4, 4)}) @@ (h2 :> {Reading(4, 4), Reading(4, 2)})

\* Processes: the daemon h1 serves the commands of both daemons; one pid is left
\* for engines, so every respawn reuses it. One engine belongs to each daemon.
BExecutor == [i \in {s1, s2} |-> h1]
WOwner == (s1 :> h2) @@ (s2 :> h1)
PBytes == [i \in {s1, s2} |-> 1]
PExclusive == [i \in {s1, s2} |-> FALSE]
PPriorities == [i \in {s1, s2} |-> {"interactive"}]
PSamples == [h \in {h1, h2} |-> {Reading(2, 2)}]

\* Liveness: a card beside RAM. s1 is large and in the background, s2 is small and asks
\* again and again. The two fit beside each other under one limit, not under the next,
\* and s1 fits under no third; the card or the RAM beside it may be short.
LOwner == [i \in Engine |-> h1]
LBytes == (s1 :> 3) @@ (s2 :> 2)
LGpuBytes == (s1 :> 1) @@ (s2 :> 1)
LExclusive == [i \in Engine |-> FALSE]
LPriorities == (s1 :> {"background"}) @@ (s2 :> {"interactive"})
Beside(ram, card, limit) ==
  [bytes |-> ram + 4, ram |-> ram, gpu |-> card, budget |-> limit, gpuBudget |-> limit]
LSamples == (h1 :> {Beside(4, 4, 5), Beside(4, 4, 4), Beside(0, 4, 5), Beside(4, 0, 2)})

=============================================================================
