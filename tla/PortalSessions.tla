--------------------------- MODULE PortalSessions ---------------------------
(***************************************************************************)
(* The Portal Sessions of one user and the handoff tokens of the classroom *)
(* extension (router_repository_base.py, portal_use_case.py,               *)
(* extension_handoff.py): logging in, being admitted, refreshed, listed,   *)
(* revoked and deleted, while an administrator suspends the user or        *)
(* changes its roles, and restarts change the list of configured admins.   *)
(*                                                                         *)
(* Instants are ages: SessionsTick makes everything one unit older, up to  *)
(* an age beyond every limit.  A handler reads the session before its      *)
(* first await and every repository call is one transaction, so each is a  *)
(* step; the nightly job runs in a thread, between any two of them.  What  *)
(* nothing reads of a revoked record is left out of it.                    *)
(***************************************************************************)
EXTENDS Integers, FiniteSets

CONSTANTS
    Rows,          \* the rows of portal_sessions, used again once deleted
    SessionCap,    \* 10: sessions a user may hold
    Throttle,      \* 5 minutes: last_seen_at moves at most this often
    IdleLimit,     \* 12 hours
    AbsoluteLimit, \* 7 days
    Retention,     \* 30 days
    Handoffs,      \* handoff tokens
    HandoffLimit,  \* 600 seconds
    NotYet         \* a token that was not issued

ASSUME SessionsAssumption ==
    /\ IsFiniteSet(Rows)
    /\ SessionCap \in Nat \ {0} /\ Throttle \in Nat \ {0} /\ IdleLimit \in Nat \ {0}
    /\ AbsoluteLimit \in Nat \ {0} /\ Retention \in Nat /\ HandoffLimit \in Nat
    /\ Throttle <= IdleLimit /\ IdleLimit <= AbsoluteLimit
    /\ NotYet \notin Nat

\* The ages beyond which a record, a use and a token are no different
LifeCap == AbsoluteLimit + Retention + 1
SeenCap == IdleLimit + Retention + 1
DeadCap == Retention + 1
OneOlder(age, cap) == IF age < cap THEN age + 1 ELSE age

NoRow == [kind |-> "none"]

VARIABLES
    user,     \* its status, its roles, and whether it is a configured admin
    row,      \* seen: since last_seen_at; life: since created_at; dead: since revoked_at
              \* history: used: since it was last admitted; roles: those of its login
    handoff   \* the age of a token, and whether its nonce is stored; history: redeems

sessionVars == <<user, row, handoff>>

LiveAt(seen, life, used, roles) ==
    [kind |-> "live", seen |-> seen, life |-> life, used |-> used, roles |-> roles]
NewRow(roles) == LiveAt(0, 0, 0, roles)

Alive   == {r \in Rows : row[r].kind = "live"}
RevokedRows   == {r \in Rows : row[r].kind = "revoked"}
Current(r) == row[r].seen < IdleLimit /\ row[r].life < AbsoluteLimit

\* list_portal_sessions, and the sessions create_portal_session counts
Listed == {r \in Alive : Current(r)}

Revoked(why) == [kind |-> "revoked", dead |-> 0, why |-> why]
RevokesAll(rs, why) == row' = [r \in Rows |-> IF r \in rs THEN Revoked(why) ELSE row[r]]

-----------------------------------------------------------------------------
(* Logging in                                                              *)

\* ORDER BY last_seen_at ASC, created_at ASC
Before(r, s) ==
    row[r].seen > row[s].seen \/ (row[r].seen = row[s].seen /\ row[r].life >= row[s].life)

\* active_rows[: max(0, len(active_rows) - 9)]
Evictable(rs) ==
    /\ rs \subseteq Listed
    /\ Cardinality(rs) = (IF Cardinality(Listed) >= SessionCap THEN Cardinality(Listed) - SessionCap + 1 ELSE 0)
    /\ \A r \in rs, s \in Listed \ rs : Before(r, s)

\* upsert_google_user: a configured admin gets its roles again.
RolesAtLogin == IF user.configured THEN "admin" ELSE user.roles

\* google_login, then the session is created, whatever the user's status, and
\* the ones seen longest ago make room.
Login(r) ==
    /\ row[r] = NoRow
    /\ user' = [user EXCEPT !.roles = RolesAtLogin]
    /\ \E out \in SUBSET Listed :
        /\ Evictable(out)
        /\ row' = [s \in Rows |-> CASE s = r -> NewRow(RolesAtLogin)
                                    [] s \in out -> Revoked("session_limit")
                                    [] OTHER -> row[s]]
    /\ UNCHANGED handoff

\* The callback of a login for the extension also issues a token.
IssueHandoff(h) ==
    /\ handoff[h].age = NotYet
    /\ handoff' = [handoff EXCEPT ![h] = [age |-> 0, marked |-> FALSE, redeems |-> 0]]
    /\ UNCHANGED <<user, row>>

\* consume_token: signed and young enough, and its nonce not stored yet
Consumable(h) == handoff[h].age # NotYet /\ handoff[h].age <= HandoffLimit /\ ~handoff[h].marked

\* The nonce stays stored when the redemption it was consumed for fails.
ConsumeHandoff(h) ==
    /\ Consumable(h)
    /\ \E redeemed \in {0, 1} :
        handoff' = [handoff EXCEPT ![h] = [age |-> @.age, marked |-> TRUE, redeems |-> @.redeems + redeemed]]
    /\ UNCHANGED <<user, row>>

-----------------------------------------------------------------------------
(* Being admitted: authenticate_portal_session                             *)

Known(r) == r \in Alive /\ user.active

\* Mutant: any use moves last_seen_at, but only after the throttle of its login.
RefreshedOnce(r) == IF row[r].life >= Throttle THEN row[r].seen ELSE 0

Refreshed(r) == IF row[r].seen >= Throttle THEN 0 ELSE row[r].seen

Touched(r) == LiveAt(Refreshed(r), row[r].life, 0, row[r].roles)

\* A request; Peek is the lobby websocket's check, refresh_activity=False.
Admit(r) ==
    /\ Known(r) /\ Current(r)
    /\ row' = [row EXCEPT ![r] = Touched(r)]
    /\ UNCHANGED <<user, handoff>>

Peek(r) ==
    /\ Known(r) /\ Current(r)
    /\ UNCHANGED sessionVars

\* A request or a peek finds the session idle or too old.
Expire(r) ==
    /\ Known(r) /\ ~Current(r)
    /\ row' = [row EXCEPT ![r] = Revoked("expired")]
    /\ UNCHANGED <<user, handoff>>

-----------------------------------------------------------------------------
(* Revoking                                                                *)

\* Logout, and a device removed from the list, are requests of a session; so
\* is the removal of every other one.
RevokeOne(r, target) ==
    /\ Known(r) /\ Current(r) /\ target \in Alive
    /\ row' = [row EXCEPT ![r] = Touched(r), ![target] = Revoked("user")]
    /\ UNCHANGED <<user, handoff>>

RevokeOthers(r) ==
    /\ Known(r) /\ Current(r)
    /\ row' = [s \in Rows |-> IF s = r THEN Touched(r) ELSE IF s \in Alive THEN Revoked("user") ELSE row[s]]
    /\ UNCHANGED <<user, handoff>>

\* update_user, by an administrator or for a member of a teacher's class
Suspend ==
    /\ user' = [user EXCEPT !.active = FALSE]
    /\ RevokesAll(Alive, "user")
    /\ UNCHANGED handoff

Reactivate ==
    /\ ~user.active /\ user' = [user EXCEPT !.active = TRUE]
    /\ UNCHANGED <<row, handoff>>

SetRoles(roles) ==
    /\ user' = [user EXCEPT !.roles = roles]
    /\ RevokesAll(Alive, "user")
    /\ UNCHANGED handoff

\* The server restarts with another list of admins; the sessions are stored.
Reconfigure ==
    /\ user' = [user EXCEPT !.configured = ~@]
    /\ UNCHANGED <<row, handoff>>

-----------------------------------------------------------------------------
(* The nightly job and time                                                *)

\* Mutant: the idle limit is left out of the cut-off.
PurgeableEarly(r) ==
    IF r \in RevokedRows THEN row[r].dead > Retention
    ELSE row[r].life - AbsoluteLimit > Retention \/ row[r].seen > Retention

Purgeable(r) ==
    IF r \in RevokedRows THEN row[r].dead > Retention
    ELSE row[r].life - AbsoluteLimit > Retention \/ row[r].seen > Retention + IdleLimit

Purge ==
    /\ \E r \in Alive \cup RevokedRows : Purgeable(r)
    /\ row' = [r \in Rows |-> IF r \in Alive \cup RevokedRows /\ Purgeable(r) THEN NoRow ELSE row[r]]
    /\ UNCHANGED <<user, handoff>>

AgedRow(r) ==
    CASE r \in Alive -> LiveAt(OneOlder(row[r].seen, SeenCap), OneOlder(row[r].life, LifeCap),
                               OneOlder(row[r].used, SeenCap), row[r].roles)
      [] r \in RevokedRows -> [row[r] EXCEPT !.dead = OneOlder(@, DeadCap)]
      [] OTHER       -> row[r]

SessionsTick ==
    /\ row' = [r \in Rows |-> AgedRow(r)]
    /\ handoff' = [h \in Handoffs |-> IF handoff[h].age = NotYet THEN handoff[h]
                      ELSE [handoff[h] EXCEPT !.age = OneOlder(@, HandoffLimit + 1)]]
    /\ UNCHANGED user

SessionsInit ==
    /\ user \in [active : {TRUE}, roles : {"teacher"}, configured : BOOLEAN]
    /\ row = [r \in Rows |-> NoRow]
    /\ handoff = [h \in Handoffs |-> [age |-> NotYet, marked |-> FALSE, redeems |-> 0]]

SessionsNext ==
    \/ \E r \in Rows : Login(r) \/ Admit(r) \/ Peek(r) \/ Expire(r) \/ RevokeOthers(r)
    \/ \E r, s \in Rows : RevokeOne(r, s)
    \/ \E h \in Handoffs : IssueHandoff(h) \/ ConsumeHandoff(h)
    \/ Suspend \/ Reactivate \/ Reconfigure
    \/ \E roles \in {"teacher", "admin"} : SetRoles(roles)
    \/ Purge
    \/ SessionsTick

SessionsSpec == SessionsInit /\ [][SessionsNext]_sessionVars

-----------------------------------------------------------------------------
(* Properties                                                              *)

LiveRow ==
    [kind : {"live"}, seen : 0..SeenCap, life : 0..LifeCap, used : 0..SeenCap, roles : {"teacher", "admin"}]
EndedRow == [kind : {"revoked"}, dead : 0..DeadCap, why : {"session_limit", "expired", "user"}]
HandoffType == [age : 0..(HandoffLimit + 1) \cup {NotYet}, marked : BOOLEAN, redeems : {0, 1}]

SessionsTypeOK ==
    /\ user \in [active : BOOLEAN, roles : {"teacher", "admin"}, configured : BOOLEAN]
    /\ row \in [Rows -> LiveRow \cup EndedRow \cup {NoRow}]
    /\ handoff \in [Handoffs -> HandoffType]

\* A user holds at most SessionCap sessions that would be admitted, none of them
\* survives the loss of a role it had at its login (a login may only add to the
\* roles of those before it, when the list of admins has changed), and
\* last_seen_at is never more than the throttle behind the session's last use:
\* no session is idle that was used less than IdleLimit - Throttle ago.
LiveSessionsSound ==
    /\ Cardinality(Listed) <= SessionCap
    /\ \A r \in Listed : row[r].roles \in {user.roles, "teacher"}
    /\ \A r \in Alive : row[r].seen - row[r].used < Throttle

\* A session ends for a reason it was promised: the cap takes the least recently
\* seen one, expiry one that was not used for IdleLimit - Throttle or is of age,
\* and a record is deleted only after it could not be used for Retention.
\* What ended is never admitted again, and a handoff token redeems at most once.
LoginsEndAsPromised ==
    [][/\ \A r \in Alive : row'[r].kind = "revoked" =>
            CASE row'[r].why = "session_limit" ->
                    /\ Cardinality(Listed) >= SessionCap
                    /\ \A s \in Listed : row'[s].kind = "live" => row[s].seen <= row[r].seen
              [] row'[r].why = "expired" -> row[r].used > IdleLimit - Throttle \/ row[r].life >= AbsoluteLimit
              [] OTHER -> TRUE
       /\ \A r \in RevokedRows : row'[r].kind # "live"
       /\ \A r \in Alive \cup RevokedRows : row'[r] = NoRow =>
            CASE r \in RevokedRows -> row[r].dead > Retention
              [] OTHER -> \/ row[r].life > AbsoluteLimit + Retention
                          \/ row[r].used > IdleLimit + Retention - Throttle
       /\ \A h \in Handoffs : handoff'[h].redeems > handoff[h].redeems =>
            handoff[h].redeems = 0 /\ handoff[h].age <= HandoffLimit]_sessionVars

=============================================================================
