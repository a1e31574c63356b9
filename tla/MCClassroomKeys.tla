-------------------------- MODULE MCClassroomKeys --------------------------
(* Two servers, a Google user and a nickname, one class with one sitting. *)
EXTENDS ClassroomKeys
CONSTANTS v1, v2, g, n, c1, s1
MCNicknameClass == [u \in {n} |-> c1]
MCClassOf == [s \in Sessions |-> c1]
MCClassEnds == [c \in {c1} |-> Horizon + 1]
=============================================================================
