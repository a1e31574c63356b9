---------------------------- MODULE Arrangements ----------------------------
(***************************************************************************)
(* Parts of a sequence and its reorderings, by the place of each element:  *)
(* as many elements come before it as it has predecessors.  Unlike the     *)
(* recursive SelectSeq and folds, such a definition can be proved about.   *)
(***************************************************************************)
EXTENDS Integers, FiniteSets

\* The elements of s at the positions in P, in the order of "before", a set of
\* pairs of positions.
Arranged(s, P, before) ==
    [n \in 1 .. Cardinality(P) |->
        s[CHOOSE i \in P : Cardinality({j \in P : <<j, i>> \in before}) = n - 1]]

\* The elements of s at the positions in P, in the order of s.
At(s, P) == Arranged(s, P, {p \in P \X P : p[1] < p[2]})
=============================================================================
