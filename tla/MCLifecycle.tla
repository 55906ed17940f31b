---------------------------- MODULE MCLifecycle ----------------------------
(* One process after the other on one file system.                          *)
EXTENDS Lifecycle
=============================================================================
