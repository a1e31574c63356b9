--------------------------- MODULE ClassroomKeys ---------------------------
(***************************************************************************)
(* Class Sessions ("sittings"), invites, seats, members and Classroom API  *)
(* Keys: the tables of router_repository_base.py and the operations on     *)
(* them.  A server runs one operation at a time, because the repository is *)
(* synchronous and called from the event loop; with several servers on one *)
(* Postgres the statements of a redeem interleave with the transactions of *)
(* the others.  `fleet` is the set of servers deployed.  A redeem is two   *)
(* transactions: the seat, under a lock on the sitting's row, and the key. *)
(***************************************************************************)
EXTENDS Integers, FiniteSets

CONSTANTS
  Servers,        \* processes that may be deployed
  Users,          \* identities: Google users and nicknames
  Nicknames,      \* those made by a Nickname Redeem
  NicknameClass,  \* the class of each nickname
  Classes, Sessions,
  ClassOf,        \* the class of each session
  ClassEnds,      \* ends_at of each class
  SeatLimits,     \* the seat limits a teacher chooses
  DefaultSeats,   \* the column's default
  Ttls,           \* key lifetimes a teacher chooses
  Horizon         \* bound: the last instant of the clock

Times == 0 .. Horizon + 1

ASSUME RosterAssumption ==
  /\ IsFiniteSet(Users)
  /\ Nicknames \subseteq Users
  /\ NicknameClass \in [Nicknames -> Classes]
  /\ ClassOf \in [Sessions -> Classes]
ASSUME CalendarAssumption ==
  /\ Horizon \in Nat
  /\ ClassEnds \in [Classes -> Nat]
  /\ Ttls \subseteq Nat
  /\ SeatLimits \subseteq Nat \ {0}
  /\ DefaultSeats \in SeatLimits

VARIABLES
  fleet,      \* servers deployed
  now,        \* the clock
  status,     \* users.status, "absent" before the row is inserted
  open,       \* classes whose status is active
  sitting,    \* class_sessions
  redeemed,   \* session_redemptions
  members,    \* class_members
  keys,       \* api_keys of a session, at most one per user and session
  req         \* the redeem each server is in the middle of

vars == <<fleet, now, status, open, sitting, redeemed, members, keys, req>>
roster == <<status, redeemed, members>>

NoSitting == [status |-> "none"]
NoKey == [enabled |-> FALSE]
Unchanged == -1
Idle == [at |-> "idle"]

SittingRows ==
  [status : {"active", "ended"}, starts : Nat, expires : Nat, seats : SeatLimits]
KeyRows == [enabled : BOOLEAN, expires : Nat]
Redeems ==
  [at : {"invited", "seated", "issuing"}, user : Users, sitting : Sessions]
    \cup [at : {"writing"}, user : Users, sitting : Sessions,
          expires : Nat, had : BOOLEAN]

TypeOK ==
  /\ fleet \subseteq Servers /\ fleet # {}
  /\ now \in 0 .. Horizon
  /\ status \in [Users -> {"absent", "active", "inactive"}]
  /\ open \subseteq Classes
  /\ sitting \in [Sessions -> SittingRows \cup {NoSitting}]
  /\ redeemed \subseteq Sessions \X Users
  /\ members \subseteq Classes \X Users
  /\ keys \in [Users \X Sessions -> KeyRows \cup {NoKey}]
  /\ req \in [Servers -> Redeems \cup {Idle}]

(* Google users have signed in; nicknames are created by a redeem. *)
Init ==
  /\ fleet \in (SUBSET Servers) \ {{}}
  /\ now = 0
  /\ status = [u \in Users |-> IF u \in Nicknames THEN "absent" ELSE "active"]
  /\ open = Classes
  /\ sitting = [s \in Sessions |-> NoSitting]
  /\ redeemed = {} /\ members = {}
  /\ keys = [k \in Users \X Sessions |-> NoKey]
  /\ req = [v \in Servers |-> Idle]

-----------------------------------------------------------------------------
Free(v) == v \in fleet /\ req[v] = Idle
Created(s) == sitting[s] # NoSitting
HasKey(u, s) == keys[<<u, s>>] # NoKey

(* Mutant: the seats are counted without taking the lock. *)
RowUnlocked(s) == FALSE

(* SELECT ... FOR UPDATE, or an UPDATE, of the sitting's row waits for this. *)
RowLocked(s) == \E v \in fleet : req[v].at = "seated" /\ req[v].sitting = s

(* _live_session_by_invite *)
InviteLive(s) ==
  /\ Created(s)
  /\ ClassOf[s] \in open
  /\ now < sitting[s].expires
  /\ sitting[s].starts <= now

(* Mutant: the key's own copy of the expiry is taken for the sitting's. *)
VerifiesByCopy(u, s) ==
  /\ HasKey(u, s) /\ keys[<<u, s>>].enabled
  /\ status[u] = "active"
  /\ now < keys[<<u, s>>].expires
  /\ sitting[s].starts <= now
  /\ ClassOf[s] \in open
  /\ now < ClassEnds[ClassOf[s]]

(* verify_api_key_with_reason answers no failure. *)
Verifies(u, s) ==
  /\ HasKey(u, s) /\ keys[<<u, s>>].enabled
  /\ status[u] = "active"
  /\ now < keys[<<u, s>>].expires
  /\ now < sitting[s].expires
  /\ sitting[s].starts <= now
  /\ ClassOf[s] \in open
  /\ now < ClassEnds[ClassOf[s]]

Occupants(s) == {u \in Users : <<s, u>> \in redeemed}
SeatsFull(s) == Cardinality(Occupants(s)) >= sitting[s].seats

-----------------------------------------------------------------------------
(* create_class_session: status and seat_limit take the columns' defaults. *)
CreateClassSession(v, s) ==
  /\ Free(v) /\ ~Created(s) /\ ClassOf[s] \in open
  /\ \E start \in 0 .. Horizon, ttl \in Ttls :
       sitting' = [sitting EXCEPT ![s] =
         [status |-> "active", starts |-> start, expires |-> start + ttl,
          seats |-> DefaultSeats]]
  /\ UNCHANGED <<fleet, now, roster, open, keys, req>>

(* _apply_session_expires: the sitting, its derived status and its keys. *)
StatusWord(e) == IF e > now THEN "active" ELSE "expired"  \* mutant: another word
StatusFor(e) == IF e > now THEN "active" ELSE "ended"

(* Mutant: moving the expiry leaves an ended sitting's status as it is. *)
ExpiresOnly(s, e) == [sitting[s] EXCEPT !.expires = e,
  !.status = IF @ = "ended" THEN "ended" ELSE StatusFor(e)]
ExpiresAt(s, e) == [sitting[s] EXCEPT !.expires = e, !.status = StatusFor(e)]

(* Mutant: disabled keys keep their expiry. *)
SetEnabledKeyExpiry(ends, e) ==
  [k \in Users \X Sessions |->
     IF k[2] \in ends /\ keys[k].enabled THEN [keys[k] EXCEPT !.expires = e]
                                        ELSE keys[k]]
SetKeyExpiry(ends, e) ==
  [k \in Users \X Sessions |->
     IF k[2] \in ends /\ keys[k] # NoKey THEN [keys[k] EXCEPT !.expires = e]
                                         ELSE keys[k]]

(* update_class_session: status = ended is an expiry of now; active alone is
   refused.  The UPDATE waits for a redeem that holds the row. *)
UpdateClassSession(v, s) ==
  /\ Free(v) /\ Created(s) /\ ~RowLocked(s)
  /\ \E e \in Times \cup {Unchanged}, n \in SeatLimits \cup {Unchanged} :
       LET moved == IF e = Unchanged THEN sitting[s] ELSE ExpiresAt(s, e)
       IN /\ sitting' = [sitting EXCEPT ![s] =
               IF n = Unchanged THEN moved ELSE [moved EXCEPT !.seats = n]]
          /\ keys' = IF e = Unchanged THEN keys ELSE SetKeyExpiry({s}, e)
  /\ UNCHANGED <<fleet, now, roster, open, req>>

(* set_class_status: the owner ends a class, an admin may reopen it. *)
SetClassStatus(v, c) ==
  /\ Free(v)
  /\ open' = IF c \in open THEN open \ {c} ELSE open \cup {c}
  /\ UNCHANGED <<fleet, now, roster, sitting, keys, req>>

(* Mutant: a suspension only writes the user's status. *)
LeaveKeysOf(u) == keys

DisableKeysOf(u) ==
  [k \in Users \X Sessions |->
     IF k[1] = u /\ keys[k] # NoKey THEN [keys[k] EXCEPT !.enabled = FALSE]
                                    ELSE keys[k]]

(* update_user(status="inactive"), by an admin or for a member of a class. *)
SuspendUser(v, u) ==
  /\ Free(v) /\ status[u] # "absent"
  /\ status' = [status EXCEPT ![u] = "inactive"]
  /\ keys' = DisableKeysOf(u)
  /\ UNCHANGED <<fleet, now, redeemed, members, open, sitting, req>>

(* update_user(status="active"): the keys stay as they are.  (For an active
   user it changes nothing.) *)
ReactivateUser(v, u) ==
  /\ Free(v) /\ status[u] = "inactive"
  /\ status' = [status EXCEPT ![u] = "active"]
  /\ UNCHANGED <<fleet, now, redeemed, members, open, sitting, keys, req>>

-----------------------------------------------------------------------------
(* redeem_invite and redeem_invite_with_nickname, statement by statement. *)
MayUse(u, s) == IF u \in Nicknames THEN NicknameClass[u] = ClassOf[s]
                                   ELSE status[u] # "absent"

BeginRedeem(v, u, s) ==
  /\ Free(v) /\ MayUse(u, s) /\ InviteLive(s)
  /\ req' = [req EXCEPT ![v] = [at |-> "invited", user |-> u, sitting |-> s]]
  /\ UNCHANGED <<fleet, now, roster, open, sitting, keys>>

(* _reject_if_user_inactive, then _reject_if_session_seats_full. *)
Refused(u, s) ==
  \/ status[u] = "inactive"
  \/ u \notin Occupants(s) /\ SeatsFull(s)

(* _lock_class_session waits; the checks follow under the lock. *)
LockSitting(v) ==
  LET u == req[v].user
      s == req[v].sitting
  IN /\ v \in fleet /\ req[v].at = "invited"
     /\ ~RowLocked(s)
     /\ req' = [req EXCEPT ![v] =
                  IF Refused(u, s) THEN Idle ELSE [req[v] EXCEPT !.at = "seated"]]
     /\ UNCHANGED <<fleet, now, roster, open, sitting, keys>>

(* Mutant: only a nickname that is created becomes a member. *)
CommitSeatOnly(v) ==
  LET u == req[v].user
      s == req[v].sitting
  IN /\ v \in fleet /\ req[v].at = "seated"
     /\ status' = IF status[u] = "absent" THEN [status EXCEPT ![u] = "active"]
                                          ELSE status
     /\ redeemed' = redeemed \cup {<<s, u>>}
     /\ members' = IF status[u] = "absent" THEN members \cup {<<ClassOf[s], u>>}
                                           ELSE members
     /\ req' = [req EXCEPT ![v].at = "issuing"]
     /\ UNCHANGED <<fleet, now, open, sitting, keys>>

(* The inserts ignore what exists: a nickname created by another transaction in
   the meantime is found again after the savepoint, as are a second redemption
   and membership.  The commit ends the lock. *)
CommitSeat(v) ==
  LET u == req[v].user
      s == req[v].sitting
  IN /\ v \in fleet /\ req[v].at = "seated"
     /\ status' = IF status[u] = "absent" THEN [status EXCEPT ![u] = "active"]
                                          ELSE status
     /\ redeemed' = redeemed \cup {<<s, u>>}
     /\ members' = members \cup {<<ClassOf[s], u>>}
     /\ req' = [req EXCEPT ![v].at = "issuing"]
     /\ UNCHANGED <<fleet, now, open, sitting, keys>>

(* issue_session_key, a transaction of its own: what its SELECTs see ... *)
ReadForKey(v) ==
  LET u == req[v].user
      s == req[v].sitting
  IN /\ v \in fleet /\ req[v].at = "issuing"
     /\ req' = [req EXCEPT ![v] =
          [at |-> "writing", user |-> u, sitting |-> s,
           expires |-> sitting[s].expires, had |-> HasKey(u, s)]]
     /\ UNCHANGED <<fleet, now, roster, open, sitting, keys>>

(* Mutant: a violated UNIQUE is retried with the same INSERT. *)
WriteKeyRetried(v) ==
  LET k == <<req[v].user, req[v].sitting>>
  IN /\ v \in fleet /\ req[v].at = "writing"
     /\ req[v].had \/ keys[k] = NoKey
     /\ keys' = [keys EXCEPT ![k] = [enabled |-> TRUE, expires |-> req[v].expires]]
     /\ req' = [req EXCEPT ![v] = Idle]
     /\ UNCHANGED <<fleet, now, roster, open, sitting>>

(* ... and its UPDATE or INSERT.  An INSERT of a key that another server has
   inserted meanwhile violates UNIQUE(key_hash) and the request fails. *)
WriteKey(v) ==
  LET k == <<req[v].user, req[v].sitting>>
  IN /\ v \in fleet /\ req[v].at = "writing"
     /\ keys' = IF req[v].had \/ keys[k] = NoKey
                  THEN [keys EXCEPT ![k] = [enabled |-> TRUE, expires |-> req[v].expires]]
                  ELSE keys
     /\ req' = [req EXCEPT ![v] = Idle]
     /\ UNCHANGED <<fleet, now, roster, open, sitting>>

(* A crash rolls the open transaction back; the start that follows runs
   _backfill_ended_session_expires. *)
Backfilled == {s \in Sessions : sitting[s].status = "ended" /\ sitting[s].expires > now}
Restart(v) ==
  /\ v \in fleet
  /\ \A s \in Backfilled : \A w \in fleet \ {v} :
       ~(req[w].at = "seated" /\ req[w].sitting = s)
  /\ req' = [req EXCEPT ![v] = Idle]
  /\ sitting' = [s \in Sessions |->
                   IF s \in Backfilled THEN [sitting[s] EXCEPT !.expires = now] ELSE sitting[s]]
  /\ keys' = SetKeyExpiry(Backfilled, now)
  /\ UNCHANGED <<fleet, now, roster, open>>

Tick == now < Horizon /\ now' = now + 1
        /\ UNCHANGED <<fleet, roster, open, sitting, keys, req>>

RedeemStep(v) == LockSitting(v) \/ CommitSeat(v) \/ ReadForKey(v) \/ WriteKey(v)

Next ==
  \/ \E v \in Servers, s \in Sessions : CreateClassSession(v, s) \/ UpdateClassSession(v, s)
  \/ \E v \in Servers, c \in Classes : SetClassStatus(v, c)
  \/ \E v \in Servers, u \in Users : SuspendUser(v, u) \/ ReactivateUser(v, u)
  \/ \E v \in Servers, u \in Users, s \in Sessions : BeginRedeem(v, u, s)
  \/ \E v \in Servers : RedeemStep(v) \/ Restart(v)
  \/ Tick

Spec == Init /\ [][Next]_vars

(* A process runs on; Postgres grants a row lock in the order of arrival, so
   nobody is overtaken for ever. *)
FairSpec ==
  /\ Spec
  /\ \A v \in Servers :
       /\ SF_vars(LockSitting(v))
       /\ WF_vars(CommitSeat(v) \/ ReadForKey(v) \/ WriteKey(v))

-----------------------------------------------------------------------------
OneServer == \A v, w \in fleet : v = w
Issuing(v, u, s) ==
  /\ req[v].at \in {"issuing", "writing"}
  /\ req[v].user = u /\ req[v].sitting = s

(* Whoever holds a key of a sitting, or is about to be given one, has a seat in
   it, belongs to its class and has a row: across both transactions of a
   redeem, crashes between them and other servers
   (router_repository_base.py:1571-1582, 1633-1647). *)
KeyHolderIsSeated ==
  \A u \in Users, s \in Sessions :
    HasKey(u, s) \/ (\E v \in fleet : Issuing(v, u, s)) =>
      /\ <<s, u>> \in redeemed
      /\ <<ClassOf[s], u>> \in members
      /\ status[u] # "absent"

(* A seat is only taken while the sitting, with it, stays within the limit that
   holds at that moment, whoever redeems at the same time and whatever the
   teacher changed since the invite was read (ADR 0013; lowering the limit
   evicts nobody). *)
SeatsNotOversold ==
  [][\A s \in Sessions :
       Occupants(s)' # Occupants(s) =>
         Cardinality(Occupants(s)') <= sitting[s].seats]_vars

(* No key verifies for a sitting that the Portal shows as ended: verification
   looks at expires_at, the Portal at the status that was derived from it when
   it was last written (router_repository_base.py:851, 1106-1128). *)
ServedSittingIsActive ==
  \A u \in Users, s \in Sessions : Verifies(u, s) => sitting[s].status = "active"

(* The clean-up of old rows at every start never cuts a sitting or a key short
   (router_repository_base.py:512-535). *)
RestartMovesNoExpiry ==
  [][(\E v \in Servers : Restart(v)) => sitting' = sitting /\ keys' = keys]_vars

(* With one server, a key of a sitting ends when the sitting does, however the
   sitting was moved while redeems went on or failed half way
   (test_update_session_expires_at_syncs_api_keys). *)
KeyFollowsSitting ==
  OneServer => \A u \in Users, s \in Sessions :
                 HasKey(u, s) => keys[<<u, s>>].expires = sitting[s].expires

(* With one server, making a user active again does not by itself bring a key
   back (ADR 0061: "the student has to redeem"). *)
ReactivationRevivesNoKey ==
  [][OneServer => \A u \in Users, s \in Sessions :
       status[u] = "inactive" /\ status'[u] = "active" => ~Verifies(u, s)']_vars

(* Every redeem comes to an end: the row lock is always given back, by a commit,
   a refusal or a crash. *)
EveryRedeemEnds == \A v \in Servers : req[v].at # "idle" ~> req[v].at = "idle"

(* docs/adr/0005:17: suspension "permanently disables the affected user's
   existing API Keys; reactivation requires new keys".  A session key is a
   function of the session and the user, so it is the same key that
   issue_session_key enables again. *)
DisabledStaysDisabled ==
  [][\A u \in Users, s \in Sessions :
       HasKey(u, s) /\ ~keys[<<u, s>>].enabled => ~keys'[<<u, s>>].enabled]_vars
=============================================================================
