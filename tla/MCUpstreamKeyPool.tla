------------------------- MODULE MCUpstreamKeyPool -------------------------
(* Small instances of UpstreamKeyPool for TLC. *)
EXTENDS UpstreamKeyPool, TLC

Symmetry == Permutations(Callers)

AllExcludes == SUBSET Keys
=============================================================================
