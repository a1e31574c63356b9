---------------------------- MODULE MCLobbyRoom ----------------------------
(* Constants and initial states of the TLC runs of LobbyRoom. *)
EXTENDS LobbyRoom, TLC

CONSTANTS c1, c2, c3, n1, n2

OwnTokens == c1 :> {1} @@ c2 :> {2} @@ c3 :> {1}
AllTokens == [c \in Conns |-> Members]

Symmetry == Permutations(Conns) \cup Permutations(Names) \cup Permutations(GapTasks) \cup Permutations(TurnTasks)

TaskSymmetry == Permutations(GapTasks) \cup Permutations(TurnTasks)

\* Two members have joined, each on a connection of its own.
TwoJoined ==
    /\ serial = 2 /\ online = {1, 2}
    /\ name = <<n1, n2>> /\ connOf = <<c1, c2>>
    /\ index = [c \in Conns |-> IF c = c1 THEN 1 ELSE 2]
    /\ agentOf = index
    /\ TurnsInit

\* Member 1 has joined on connection c1, under the other name: it tells the
\* behaviours that start here from those that start with TwoJoined.
OneJoined ==
    /\ serial = 1 /\ online = {1}
    /\ name = [m \in Members |-> IF m = 1 THEN n2 ELSE None]
    /\ connOf = [m \in Members |-> IF m = 1 THEN c1 ELSE None]
    /\ index = [c \in Conns |-> IF c = c1 THEN 1 ELSE None]
    /\ agentOf = index
    /\ TurnsInit

EitherStart == TwoJoined \/ OneJoined

\* Joining and deleting are explored with one timer of each kind at a time, the
\* turns with all of them but without a deletion.
TimersOf(tasks) == {t \in tasks : pc[t] # "free"}
StartBounds ==
    IF name[1] = n2
    THEN Cardinality(TimersOf(TurnTasks)) <= 1 /\ Cardinality(TimersOf(GapTasks)) <= 1
    ELSE \A d \in Deleters : pc[d] = "idle"
=============================================================================
