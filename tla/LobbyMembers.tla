---------------------------- MODULE LobbyMembers ----------------------------
(***************************************************************************)
(* The members of a lobby room: Room.handle_join and the membership part   *)
(* of Room.disconnect (infrastructure/lobby/room.py), with the loop of     *)
(* agent_websocket that calls them (presentation/.../lobby_router.py).     *)
(*                                                                         *)
(* A member is its serial number.  The room changes when a join is         *)
(* handled; the loop learns whom it speaks for only when the reply has     *)
(* been sent (LobbyRoom).  A connection that left may be used again as a   *)
(* new one: no variable keeps its id, which the code keeps in an offline   *)
(* member and never finds again.  Joins that are rejected change nothing   *)
(* and are left out.                                                       *)
(***************************************************************************)
EXTENDS Integers, FiniteSets

CONSTANTS
    Conns,          \* websocket connections
    Names,          \* normalized display names
    TokensOf,       \* the members whose rejoin token each connection's client has
    MaxMembers,     \* bounds the members that ever join
    None

Members == 1 .. MaxMembers

VARIABLES
    serial,         \* next_serial
    online,         \* the members with online True
    name,           \* display_name of each member
    connOf,         \* connection_id of each member
    index,          \* connection_index
    agentOf         \* agent_id of each websocket loop

memberVars == <<serial, online, name, connOf, index, agentOf>>

-----------------------------------------------------------------------------

Joined == 1 .. serial

IsDisplayNameTaken(n) == \E m \in online : name[m] = n

Enter(c, m) ==
    /\ index' = [d \in Conns |-> IF d = c THEN m
                                 ELSE IF d = connOf[m] THEN None ELSE index[d]]
    /\ connOf' = [connOf EXCEPT ![m] = c]
    /\ online' = online \cup {m}
    /\ UNCHANGED agentOf

Join(c, n) ==
    /\ serial < MaxMembers
    /\ ~IsDisplayNameTaken(n)
    /\ serial' = serial + 1
    /\ name' = [name EXCEPT ![serial + 1] = n]
    /\ Enter(c, serial + 1)

\* The token names its member; the display name is not looked at.
Rejoin(c, m) ==
    /\ m \in TokensOf[c] /\ m \in Joined
    /\ Enter(c, m)
    /\ UNCHANGED <<serial, name>>

\* The members that the closing of a connection takes offline: at most one.
LeavesWith(c) == {m \in Joined : index[c] = m /\ connOf[m] = c}

\* Mutant: whoever the loop joined as goes offline, taken over or not.
LeaveAsJoined(c) ==
    /\ agentOf[c] # None
    /\ online' = online \ {agentOf[c]}
    /\ index' = [index EXCEPT ![c] = None]
    /\ connOf' = [m \in Members |-> IF connOf[m] = c THEN None ELSE connOf[m]]
    /\ agentOf' = [agentOf EXCEPT ![c] = None]
    /\ UNCHANGED <<serial, name>>

Leave(c) ==
    /\ agentOf[c] # None
    /\ online' = online \ LeavesWith(c)
    /\ index' = [index EXCEPT ![c] = None]
    /\ connOf' = [m \in Members |-> IF connOf[m] = c THEN None ELSE connOf[m]]
    /\ agentOf' = [agentOf EXCEPT ![c] = None]
    /\ UNCHANGED <<serial, name>>

MembersInit ==
    /\ serial = 0 /\ online = {}
    /\ name = [m \in Members |-> None]
    /\ connOf = [m \in Members |-> None]
    /\ index = [c \in Conns |-> None]
    /\ agentOf = [c \in Conns |-> None]

-----------------------------------------------------------------------------
(* Properties                                                              *)

MembersTypeOK ==
    /\ serial \in 0 .. MaxMembers /\ online \subseteq Joined
    /\ name \in [Members -> Names \cup {None}]
    /\ connOf \in [Members -> Conns \cup {None}]
    /\ index \in [Conns -> Members \cup {None}]
    /\ agentOf \in [Conns -> Members \cup {None}]

\* "The display name is already in the room": members online at the same time
\* have different display names.
UniqueOnlineNames ==
    \A m, n \in online : name[m] = name[n] => m = n
=============================================================================
