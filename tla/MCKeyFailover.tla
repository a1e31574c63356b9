--------------------------- MODULE MCKeyFailover ---------------------------
(* Small instances of KeyFailover for TLC. *)
EXTENDS KeyFailover

AllExcludes == SUBSET Keys
=============================================================================
