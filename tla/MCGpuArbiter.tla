----------------------------- MODULE MCGpuArbiter -----------------------------
EXTENDS GpuArbiter, TLC

CONSTANTS llm, image, m1, m2, sd, turn, turn2, draw

Engines == m1 :> llm @@ m2 :> llm @@ sd :> image

Users == turn :> m1 @@ turn2 :> m2 @@ draw :> sd

=============================================================================
