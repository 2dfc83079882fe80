----------------------------- MODULE MCTaskRunner -----------------------------
(* Small instances of TaskRunner for TLC: the names of their tasks.          *)
EXTENDS TaskRunner

CONSTANTS t1, t2

=============================================================================
