---------------------------- MODULE MCRuntimeLock ----------------------------
(* Small instances of RuntimeLock for TLC: daemons and namespaces.          *)
EXTENDS RuntimeLock

CONSTANTS d1, d2, d3, here, there

=============================================================================
