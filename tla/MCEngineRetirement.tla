--------------------------- MODULE MCEngineRetirement ---------------------------
(* Small instances of EngineRetirement for TLC.                                *)
EXTENDS EngineRetirement

CONSTANTS r1, r2

=============================================================================
