------------------------ MODULE ClassroomKeysProofs ------------------------
(* Theorems about Class Sessions and their keys, for any number of servers,
   users, classes and sittings.  Types, seated holders, the lock with the
   seats it protects, the two records of a sitting's end, and what one server
   adds are five invariants, in that order.                                *)
EXTENDS ClassroomKeys, FiniteSetTheorems, TLAPS

-----------------------------------------------------------------------------
(* A redeem under way is of a sitting that exists. *)
RedeemsCreated == \A v \in Servers : req[v] # Idle => Created(req[v].sitting)

LEMMA RedeemType ==
  ASSUME TypeOK, NEW v \in Servers, req[v] # Idle
  PROVE  /\ req[v] \in Redeems
         /\ req[v].user \in Users /\ req[v].sitting \in Sessions
         /\ req[v].at # "idle"
<1>1. req[v] \in Redeems
  BY DEF TypeOK
<1>. QED  BY <1>1 DEF Redeems

LEMMA WritingType ==
  ASSUME TypeOK, NEW v \in Servers, req[v].at = "writing"
  PROVE  req[v].expires \in Nat /\ req[v].had \in BOOLEAN
<1>1. req[v] # Idle
  BY DEF Idle
<1>. QED  BY <1>1, RedeemType DEF Redeems

LEMMA SetKeyExpiryType ==
  ASSUME TypeOK, NEW ends, NEW e \in Nat
  PROVE  SetKeyExpiry(ends, e) \in [Users \X Sessions -> KeyRows \cup {NoKey}]
BY DEF TypeOK, SetKeyExpiry, KeyRows

LEMMA TypeStep == TypeOK /\ RedeemsCreated /\ [Next]_vars => TypeOK'
<1>. USE CalendarAssumption, RosterAssumption
<1>. SUFFICES ASSUME TypeOK, RedeemsCreated, [Next]_vars PROVE TypeOK'
  OBVIOUS
<1>1. ASSUME NEW v \in Servers, NEW s \in Sessions, CreateClassSession(v, s)
      PROVE TypeOK'
  <2>1. PICK start \in 0 .. Horizon, ttl \in Ttls :
          sitting' = [sitting EXCEPT ![s] =
            [status |-> "active", starts |-> start, expires |-> start + ttl,
             seats |-> DefaultSeats]]
    BY <1>1 DEF CreateClassSession
  <2>2. [status |-> "active", starts |-> start, expires |-> start + ttl,
         seats |-> DefaultSeats] \in SittingRows
    BY DEF SittingRows
  <2>. QED  BY <1>1, <2>1, <2>2 DEF CreateClassSession, TypeOK, roster
<1>2. ASSUME NEW v \in Servers, NEW s \in Sessions, UpdateClassSession(v, s)
      PROVE TypeOK'
  <2>1. PICK e \in Times \cup {Unchanged}, n \in SeatLimits \cup {Unchanged} :
          /\ sitting' = [sitting EXCEPT ![s] =
               IF n = Unchanged
                 THEN IF e = Unchanged THEN sitting[s] ELSE ExpiresAt(s, e)
                 ELSE [(IF e = Unchanged THEN sitting[s] ELSE ExpiresAt(s, e))
                         EXCEPT !.seats = n]]
          /\ keys' = IF e = Unchanged THEN keys ELSE SetKeyExpiry({s}, e)
    BY <1>2 DEF UpdateClassSession
  <2>2. sitting[s] \in SittingRows
    BY <1>2 DEF UpdateClassSession, Created, TypeOK
  <2>3. ASSUME e # Unchanged PROVE e \in Nat /\ ExpiresAt(s, e) \in SittingRows
    <3>1. e \in Nat
      BY <2>3 DEF Times
    <3>2. StatusFor(e) \in {"active", "ended"}
      BY DEF StatusFor
    <3>. QED  BY <2>2, <3>1, <3>2 DEF ExpiresAt, SittingRows
  <2>4. sitting' \in [Sessions -> SittingRows \cup {NoSitting}]
    BY <2>1, <2>2, <2>3 DEF TypeOK, SittingRows
  <2>5. keys' \in [Users \X Sessions -> KeyRows \cup {NoKey}]
    <3>1. CASE e = Unchanged
      BY <2>1, <3>1 DEF TypeOK
    <3>2. CASE e # Unchanged
      BY <2>1, <2>3, <3>2, SetKeyExpiryType
    <3>. QED  BY <3>1, <3>2
  <2>. QED  BY <1>2, <2>4, <2>5 DEF UpdateClassSession, TypeOK, roster
<1>3. ASSUME NEW v \in Servers, NEW c \in Classes, SetClassStatus(v, c)
      PROVE TypeOK'
  BY <1>3 DEF SetClassStatus, TypeOK, roster
<1>4. ASSUME NEW v \in Servers, NEW u \in Users, SuspendUser(v, u)
      PROVE TypeOK'
  <2>1. keys' \in [Users \X Sessions -> KeyRows \cup {NoKey}]
    BY <1>4 DEF SuspendUser, DisableKeysOf, TypeOK, KeyRows
  <2>. QED  BY <1>4, <2>1 DEF SuspendUser, TypeOK
<1>5. ASSUME NEW v \in Servers, NEW u \in Users, ReactivateUser(v, u)
      PROVE TypeOK'
  BY <1>5 DEF ReactivateUser, TypeOK
<1>6. ASSUME NEW v \in Servers, NEW u \in Users, NEW s \in Sessions, BeginRedeem(v, u, s)
      PROVE TypeOK'
  <2>1. [at |-> "invited", user |-> u, sitting |-> s] \in Redeems
    BY DEF Redeems
  <2>. QED  BY <1>6, <2>1 DEF BeginRedeem, TypeOK, roster
<1>7. ASSUME NEW v \in Servers, LockSitting(v)
      PROVE TypeOK'
  <2>1. req[v] \in Redeems /\ [req[v] EXCEPT !.at = "seated"] \in Redeems
    <3>1. req[v] # Idle /\ req[v].at = "invited"
      BY <1>7 DEF LockSitting, Idle
    <3>. QED  BY <3>1, RedeemType DEF Redeems
  <2>. QED  BY <1>7, <2>1 DEF LockSitting, TypeOK, roster
<1>8. ASSUME NEW v \in Servers, CommitSeat(v)
      PROVE TypeOK'
  <2>1. /\ req[v] \in Redeems /\ [req[v] EXCEPT !.at = "issuing"] \in Redeems
        /\ req[v].user \in Users /\ req[v].sitting \in Sessions
    <3>1. req[v] # Idle /\ req[v].at = "seated"
      BY <1>8 DEF CommitSeat, Idle
    <3>. QED  BY <3>1, RedeemType DEF Redeems
  <2>. QED  BY <1>8, <2>1 DEF CommitSeat, TypeOK
<1>9. ASSUME NEW v \in Servers, ReadForKey(v)
      PROVE TypeOK'
  <2>1. req[v].user \in Users /\ req[v].sitting \in Sessions /\ req[v].at = "issuing"
    BY <1>9, RedeemType DEF ReadForKey, Idle
  <2>2. sitting[req[v].sitting].expires \in Nat
    BY <2>1, <1>9 DEF ReadForKey, RedeemsCreated, Created, Idle, TypeOK, SittingRows
  <2>3. [at |-> "writing", user |-> req[v].user, sitting |-> req[v].sitting,
         expires |-> sitting[req[v].sitting].expires,
         had |-> HasKey(req[v].user, req[v].sitting)] \in Redeems
    BY <2>1, <2>2 DEF Redeems, HasKey
  <2>. QED  BY <1>9, <2>3 DEF ReadForKey, TypeOK, roster
<1>10. ASSUME NEW v \in Servers, WriteKey(v)
      PROVE TypeOK'
  <2>1. /\ <<req[v].user, req[v].sitting>> \in Users \X Sessions
        /\ req[v].expires \in Nat
    BY <1>10, RedeemType, WritingType DEF WriteKey, Idle
  <2>2. [enabled |-> TRUE, expires |-> req[v].expires] \in KeyRows
    BY <2>1 DEF KeyRows
  <2>. QED  BY <1>10, <2>1, <2>2 DEF WriteKey, TypeOK, roster
<1>11. ASSUME NEW v \in Servers, Restart(v)
      PROVE TypeOK'
  <2>1. now \in Nat
    BY DEF TypeOK
  <2>2. sitting' \in [Sessions -> SittingRows \cup {NoSitting}]
    BY <1>11, <2>1 DEF Restart, Backfilled, NoSitting, TypeOK, SittingRows
  <2>3. keys' \in [Users \X Sessions -> KeyRows \cup {NoKey}]
    BY <1>11, <2>1, SetKeyExpiryType DEF Restart
  <2>. QED  BY <1>11, <2>2, <2>3 DEF Restart, TypeOK, roster
<1>12. CASE Tick
  BY <1>12 DEF Tick, TypeOK, roster
<1>13. CASE UNCHANGED vars
  BY <1>13 DEF vars, TypeOK
<1>. QED
  BY <1>1, <1>2, <1>3, <1>4, <1>5, <1>6, <1>7, <1>8, <1>9, <1>10, <1>11, <1>12, <1>13
     DEF Next, RedeemStep

(* A sitting is never deleted, and whatever moves its expiry or its seats
   leaves the rest of the row alone. *)
LEMMA CreatedStays ==
  ASSUME TypeOK, TypeOK', [Next]_vars, NEW s \in Sessions, Created(s)
  PROVE  Created(s)'
<1>. USE DEF Created, NoSitting
<1>1. sitting[s] \in SittingRows /\ sitting[s].status # "none"
  BY DEF TypeOK, SittingRows
<1>2. ASSUME NEW v \in Servers, NEW r \in Sessions, CreateClassSession(v, r)
      PROVE  Created(s)'
  BY <1>2, <1>1 DEF CreateClassSession, TypeOK
<1>3. ASSUME NEW v \in Servers, NEW r \in Sessions, UpdateClassSession(v, r)
      PROVE  Created(s)'
  <2>1. CASE r # s
    BY <1>3, <2>1, <1>1 DEF UpdateClassSession, TypeOK
  <2>2. CASE r = s
    <3>1. PICK e \in Times \cup {Unchanged}, n \in SeatLimits \cup {Unchanged} :
            sitting'[s] =
              IF n = Unchanged
                THEN IF e = Unchanged THEN sitting[s] ELSE ExpiresAt(s, e)
                ELSE [(IF e = Unchanged THEN sitting[s] ELSE ExpiresAt(s, e))
                        EXCEPT !.seats = n]
      BY <1>3, <2>2 DEF UpdateClassSession, TypeOK
    <3>2. ExpiresAt(s, e).status \in {"active", "ended"}
      BY <1>1 DEF ExpiresAt, StatusFor, SittingRows
    <3>3. sitting'[s].status # "none"
      BY <3>1, <3>2, <1>1 DEF ExpiresAt, SittingRows
    <3>. QED  BY <3>3
  <2>. QED  BY <2>1, <2>2
<1>4. ASSUME NEW v \in Servers, Restart(v) PROVE Created(s)'
  BY <1>4, <1>1 DEF Restart, Backfilled, SittingRows
<1>5. sitting' = sitting => Created(s)'
  OBVIOUS
<1>. QED
  BY <1>2, <1>3, <1>4, <1>5
     DEF Next, vars, RedeemStep, SetClassStatus, SuspendUser, ReactivateUser, BeginRedeem,
         LockSitting, CommitSeat, ReadForKey, WriteKey, Tick

LEMMA CreatedStep == TypeOK /\ RedeemsCreated /\ [Next]_vars => RedeemsCreated'
<1>. SUFFICES ASSUME TypeOK, RedeemsCreated, [Next]_vars PROVE RedeemsCreated'
  OBVIOUS
<1>1. ASSUME NEW s \in Sessions, Created(s) PROVE Created(s)'
  BY <1>1, TypeStep, CreatedStays
<1>2. ASSUME NEW v \in Servers, req'[v] # Idle, req[v] # Idle
      PROVE  req'[v].sitting = req[v].sitting
  <2>1. ASSUME NEW w \in Servers, RedeemStep(w) PROVE req'[v].sitting = req[v].sitting
    BY <2>1, <1>2, RedeemType
       DEF RedeemStep, LockSitting, CommitSeat, ReadForKey, WriteKey, TypeOK, Redeems
  <2>2. ASSUME NEW w \in Servers, Restart(w) PROVE req'[v].sitting = req[v].sitting
    BY <2>2, <1>2 DEF Restart, TypeOK
  <2>3. ASSUME NEW w \in Servers, NEW u \in Users, NEW s \in Sessions, BeginRedeem(w, u, s)
        PROVE  req'[v].sitting = req[v].sitting
    BY <2>3, <1>2 DEF BeginRedeem, Free, TypeOK
  <2>. QED
    BY <2>1, <2>2, <2>3
       DEF Next, vars, CreateClassSession, UpdateClassSession, SetClassStatus, SuspendUser,
           ReactivateUser, Tick
<1>3. ASSUME NEW v \in Servers, req'[v] # Idle, req[v] = Idle
      PROVE  Created(req'[v].sitting) /\ req'[v].sitting \in Sessions
  <2>1. PICK w \in Servers, u \in Users, s \in Sessions : BeginRedeem(w, u, s)
    <3>1. ASSUME NEW w \in Servers, RedeemStep(w) PROVE FALSE
      <4>1. req[w].at # "idle"
        BY <3>1 DEF RedeemStep, LockSitting, CommitSeat, ReadForKey, WriteKey
      <4>2. w # v
        BY <4>1, <1>3 DEF Idle
      <4>3. req'[v] = req[v]
        BY <3>1, <4>2 DEF RedeemStep, LockSitting, CommitSeat, ReadForKey, WriteKey, TypeOK
      <4>. QED  BY <4>3, <1>3
    <3>2. ASSUME NEW w \in Servers, Restart(w) PROVE FALSE
      BY <3>2, <1>3 DEF Restart, TypeOK
    <3>3. req' # req
      BY <1>3
    <3>. QED
      BY <3>1, <3>2, <3>3
         DEF Next, vars, CreateClassSession, UpdateClassSession, SetClassStatus, SuspendUser,
             ReactivateUser, Tick
  <2>. QED  BY <2>1, <1>3 DEF BeginRedeem, InviteLive, TypeOK
<1>. QED  BY <1>1, <1>2, <1>3, RedeemType DEF RedeemsCreated

ClassroomTypes == TypeOK /\ RedeemsCreated

LEMMA ClassroomTypesInvariant == Spec => []ClassroomTypes
<1>1. Init => ClassroomTypes
  BY CalendarAssumption, RosterAssumption DEF Init, ClassroomTypes, TypeOK, RedeemsCreated
<1>2. ClassroomTypes /\ [Next]_vars => ClassroomTypes'
  BY TypeStep, CreatedStep DEF ClassroomTypes
<1>. QED  BY <1>1, <1>2, PTL DEF Spec

(* Every variable keeps the shape of its table (router_repository_base.py). *)
THEOREM ClassroomTypeCorrect == Spec => []TypeOK
<1>1. ClassroomTypes => TypeOK
  BY DEF ClassroomTypes
<1>. QED  BY <1>1, ClassroomTypesInvariant, PTL

-----------------------------------------------------------------------------
Seated(u, s) ==
  /\ <<s, u>> \in redeemed /\ <<ClassOf[s], u>> \in members /\ status[u] # "absent"
HoldsOrIssues(u, s) == HasKey(u, s) \/ (\E v \in fleet : Issuing(v, u, s))

(* Nobody loses a seat, a membership or a row. *)
LEMMA SeatedStays ==
  ASSUME TypeOK, [Next]_vars, NEW u \in Users, NEW s \in Sessions, Seated(u, s)
  PROVE  Seated(u, s)'
BY DEF Next, vars, RedeemStep, CreateClassSession, UpdateClassSession, SetClassStatus, Tick,
       SuspendUser, ReactivateUser, BeginRedeem, LockSitting, CommitSeat, ReadForKey,
       WriteKey, Restart, roster, Seated, TypeOK

(* Only the commit of the seat leads to a key. *)
LEMMA KeyNeedsSeat ==
  ASSUME TypeOK, [Next]_vars, NEW u \in Users, NEW s \in Sessions,
         ~HoldsOrIssues(u, s), HoldsOrIssues(u, s)'
  PROVE  Seated(u, s)'
<1>. USE DEF HoldsOrIssues, HasKey, Issuing
<1>1. ASSUME NEW v \in Servers, CommitSeat(v) PROVE Seated(u, s)'
  <2>1. fleet' = fleet /\ keys' = keys /\ req' = [req EXCEPT ![v].at = "issuing"]
    BY <1>1 DEF CommitSeat
  <2>2. PICK w \in fleet : Issuing(w, u, s)'
    BY <2>1
  <2>3. w = v
    BY <2>1, <2>2 DEF TypeOK
  <2>4. req[v].user = u /\ req[v].sitting = s
    BY <2>1, <2>2, <2>3 DEF TypeOK
  <2>5. status'[u] # "absent"
    BY <1>1, <2>4 DEF CommitSeat, TypeOK
  <2>. QED  BY <1>1, <2>4, <2>5 DEF CommitSeat, Seated
<1>2. ASSUME NEW v \in Servers, WriteKey(v) PROVE FALSE
  BY <1>2 DEF WriteKey, TypeOK, Idle
<1>3. ASSUME NEW v \in Servers, LockSitting(v) \/ ReadForKey(v) PROVE FALSE
  <2>1. \A w \in fleet : Issuing(w, u, s)' => Issuing(w, u, s)
    <3>1. ASSUME LockSitting(v), NEW w \in fleet, Issuing(w, u, s)' PROVE Issuing(w, u, s)
      BY <3>1 DEF LockSitting, TypeOK, Idle
    <3>2. ASSUME ReadForKey(v), NEW w \in fleet, Issuing(w, u, s)' PROVE Issuing(w, u, s)
      BY <3>2 DEF ReadForKey, TypeOK
    <3>. QED  BY <1>3, <3>1, <3>2
  <2>2. fleet' = fleet /\ keys' = keys
    BY <1>3 DEF LockSitting, ReadForKey
  <2>. QED  BY <2>1, <2>2
<1>4. ASSUME NEW v \in Servers, Restart(v) PROVE FALSE
  <2>1. \A w \in fleet : Issuing(w, u, s)' => Issuing(w, u, s)
    BY <1>4 DEF Restart, TypeOK, Idle
  <2>2. HasKey(u, s)' => HasKey(u, s)
    BY <1>4 DEF Restart, SetKeyExpiry
  <2>3. fleet' = fleet
    BY <1>4 DEF Restart
  <2>. QED  BY <2>1, <2>2, <2>3
<1>5. ASSUME NEW v \in Servers, NEW r \in Users, NEW t \in Sessions, BeginRedeem(v, r, t)
      PROVE  FALSE
  BY <1>5 DEF BeginRedeem, TypeOK
<1>6. ASSUME NEW v \in Servers, NEW r \in Users, SuspendUser(v, r) PROVE FALSE
  BY <1>6 DEF SuspendUser, DisableKeysOf, TypeOK
<1>7. ASSUME NEW v \in Servers, NEW t \in Sessions, UpdateClassSession(v, t) PROVE FALSE
  BY <1>7 DEF UpdateClassSession, SetKeyExpiry, TypeOK
<1>. QED
  BY <1>1, <1>2, <1>3, <1>4, <1>5, <1>6, <1>7
     DEF Next, vars, RedeemStep, CreateClassSession, SetClassStatus, ReactivateUser, Tick

(* A key is only ever in the hands of somebody with a seat, a membership and a
   row, between the two transactions of a redeem and after a crash there
   (router_repository_base.py:1571-1582, 1633-1647). *)
THEOREM KeyHoldersAreSeated == Spec => []KeyHolderIsSeated
<1>1. Init => KeyHolderIsSeated
  BY DEF Init, KeyHolderIsSeated, HasKey, Issuing, Idle
<1>2. ClassroomTypes /\ KeyHolderIsSeated /\ [Next]_vars => KeyHolderIsSeated'
  <2>1. KeyHolderIsSeated <=> \A u \in Users, s \in Sessions : HoldsOrIssues(u, s) => Seated(u, s)
    BY DEF KeyHolderIsSeated, HoldsOrIssues, Seated
  <2>2. KeyHolderIsSeated' <=>
          \A u \in Users, s \in Sessions : HoldsOrIssues(u, s)' => Seated(u, s)'
    BY DEF KeyHolderIsSeated, HoldsOrIssues, Seated
  <2>. QED  BY <2>1, <2>2, SeatedStays, KeyNeedsSeat DEF ClassroomTypes
<1>. QED  BY <1>1, <1>2, ClassroomTypesInvariant, PTL DEF Spec

-----------------------------------------------------------------------------
(* What the row lock gives: one holder a sitting, and a verdict on the seats that
   stays true until the commit. *)
OneHolder ==
  \A v, w \in fleet :
    req[v].at = "seated" /\ req[w].at = "seated" /\ req[v].sitting = req[w].sitting => v = w
SeatPromised(v) ==
  req[v].at = "seated" =>
    req[v].user \in Occupants(req[v].sitting) \/ ~SeatsFull(req[v].sitting)
LockInv == OneHolder /\ \A v \in fleet : SeatPromised(v)

LEMMA SeatedRowStays ==
  ASSUME ClassroomTypes, OneHolder, [Next]_vars,
         NEW v \in fleet, req[v].at = "seated", req'[v].at = "seated",
         NEW s, s = req[v].sitting
  PROVE  /\ req'[v] = req[v]
         /\ sitting'[s].seats = sitting[s].seats
         /\ Occupants(s)' = Occupants(s)
<1>. USE DEF ClassroomTypes, Occupants
<1>. v \in Servers /\ s \in Sessions /\ Created(s) /\ RowLocked(s)
  BY RedeemType DEF TypeOK, RedeemsCreated, Idle, RowLocked
<1>. DEFINE Goal == /\ req'[v] = req[v]
                    /\ sitting'[s].seats = sitting[s].seats
                    /\ Occupants(s)' = Occupants(s)
<1>1. ASSUME NEW w \in Servers, NEW r \in Sessions, CreateClassSession(w, r) PROVE Goal
  BY <1>1 DEF CreateClassSession, TypeOK, roster
<1>2. ASSUME NEW w \in Servers, NEW r \in Sessions, UpdateClassSession(w, r) PROVE Goal
  BY <1>2 DEF UpdateClassSession, TypeOK, roster
<1>3. ASSUME NEW w \in Servers, NEW u \in Users, NEW r \in Sessions, BeginRedeem(w, u, r)
      PROVE  Goal
  BY <1>3 DEF BeginRedeem, Free, Idle, TypeOK, roster
<1>4. ASSUME NEW w \in Servers, LockSitting(w) PROVE Goal
  BY <1>4 DEF LockSitting, TypeOK, roster
<1>5. ASSUME NEW w \in Servers, CommitSeat(w) PROVE Goal
  <2>1. w # v
    BY <1>5 DEF CommitSeat, TypeOK
  <2>2. w \in fleet /\ req[w].sitting # s
    BY <1>5, <2>1 DEF CommitSeat, OneHolder
  <2>. QED  BY <1>5, <2>1, <2>2 DEF CommitSeat, TypeOK
<1>6. ASSUME NEW w \in Servers, ReadForKey(w) \/ WriteKey(w) PROVE Goal
  BY <1>6 DEF ReadForKey, WriteKey, TypeOK, roster
<1>7. ASSUME NEW w \in Servers, Restart(w) PROVE Goal
  <2>1. sitting[s] \in SittingRows
    BY DEF Created, TypeOK
  <2>2. w # v
    BY <1>7 DEF Restart, TypeOK, Idle
  <2>3. sitting'[s].seats = sitting[s].seats
    BY <1>7, <2>1 DEF Restart, SittingRows
  <2>. QED  BY <1>7, <2>2, <2>3 DEF Restart, TypeOK, roster
<1>8. ASSUME req' = req, sitting' = sitting, redeemed' = redeemed PROVE Goal
  BY <1>8
<1>. QED
  BY <1>1, <1>2, <1>3, <1>4, <1>5, <1>6, <1>7, <1>8
     DEF Next, vars, roster, RedeemStep, SetClassStatus, SuspendUser, ReactivateUser, Tick

(* A server is only seated by taking the lock, which finds it free. *)
LEMMA SeatedByLocking ==
  ASSUME TypeOK, [Next]_vars, NEW v \in fleet, req[v].at # "seated", req'[v].at = "seated"
  PROVE  LockSitting(v)
<1>. v \in Servers
  BY DEF TypeOK
<1>1. ASSUME NEW w \in Servers, LockSitting(w) PROVE w = v
  BY <1>1 DEF LockSitting, TypeOK
<1>2. ASSUME NEW w \in Servers, CommitSeat(w) \/ ReadForKey(w) \/ WriteKey(w) PROVE FALSE
  BY <1>2 DEF CommitSeat, ReadForKey, WriteKey, TypeOK, Idle
<1>3. ASSUME NEW w \in Servers, Restart(w) PROVE FALSE
  BY <1>3 DEF Restart, TypeOK, Idle
<1>4. ASSUME NEW w \in Servers, NEW u \in Users, NEW s \in Sessions, BeginRedeem(w, u, s)
      PROVE  FALSE
  BY <1>4 DEF BeginRedeem, TypeOK
<1>. QED
  BY <1>1, <1>2, <1>3, <1>4
     DEF Next, vars, RedeemStep, CreateClassSession, UpdateClassSession, SetClassStatus,
         SuspendUser, ReactivateUser, Tick

LEMMA LockTaken ==
  ASSUME TypeOK, NEW v \in fleet, LockSitting(v), req'[v].at = "seated"
  PROVE  /\ req'[v].user = req[v].user /\ req'[v].sitting = req[v].sitting
         /\ ~RowLocked(req[v].sitting) /\ SeatPromised(v)'
         /\ \A w \in fleet \ {v} : req'[w] = req[w]
<1>. v \in Servers
  BY DEF TypeOK
<1>1. ~Refused(req[v].user, req[v].sitting)
  BY DEF LockSitting, TypeOK, Idle
<1>2. /\ req'[v] = [req[v] EXCEPT !.at = "seated"]
      /\ \A w \in fleet \ {v} : req'[w] = req[w]
      /\ sitting' = sitting /\ redeemed' = redeemed
  BY <1>1 DEF LockSitting, TypeOK, roster
<1>3. req[v] \in Redeems
  BY RedeemType DEF LockSitting, Idle
<1>4. req'[v].user = req[v].user /\ req'[v].sitting = req[v].sitting
  BY <1>2, <1>3 DEF Redeems
<1>5. ~RowLocked(req[v].sitting)
  BY DEF LockSitting
<1>. QED  BY <1>1, <1>2, <1>4, <1>5 DEF Refused, SeatPromised, Occupants, SeatsFull

LEMMA LockInvariant == Spec => []LockInv
<1>1. Init => LockInv
  BY DEF Init, LockInv, OneHolder, SeatPromised, Idle
<1>2. ClassroomTypes /\ LockInv /\ [Next]_vars => LockInv'
  <2>. SUFFICES ASSUME ClassroomTypes, LockInv, [Next]_vars PROVE LockInv'
    OBVIOUS
  <2>. TypeOK /\ OneHolder
    BY DEF ClassroomTypes, LockInv
  <2>1. fleet' = fleet
    BY DEF Next, vars, RedeemStep, CreateClassSession, UpdateClassSession, SetClassStatus, Tick,
           SuspendUser, ReactivateUser, BeginRedeem, LockSitting, CommitSeat, ReadForKey,
           WriteKey, Restart
  <2>2. ASSUME NEW v \in fleet PROVE SeatPromised(v)'
    <3>1. CASE req'[v].at = "seated" /\ req[v].at = "seated"
      BY <3>1, SeatedRowStays DEF LockInv, SeatPromised, SeatsFull
    <3>2. CASE req'[v].at = "seated" /\ req[v].at # "seated"
      BY <3>2, SeatedByLocking, LockTaken
    <3>. QED  BY <3>1, <3>2 DEF SeatPromised
  <2>3. ASSUME NEW v \in fleet, NEW w \in fleet, v # w,
               req'[v].at = "seated", req'[w].at = "seated", req'[v].sitting = req'[w].sitting
        PROVE  FALSE
    <3>1. ASSUME NEW x \in fleet, NEW y \in fleet, x # y, req[x].at # "seated",
                 req'[x].at = "seated", req'[y].at = "seated", req'[x].sitting = req'[y].sitting
          PROVE  FALSE
      BY <3>1, SeatedByLocking, LockTaken DEF RowLocked
    <3>2. CASE req[v].at = "seated" /\ req[w].at = "seated"
      BY <2>3, <3>2, SeatedRowStays DEF OneHolder
    <3>. QED  BY <2>3, <3>1, <3>2
  <2>. QED  BY <2>1, <2>2, <2>3 DEF LockInv, OneHolder
<1>. QED  BY <1>1, <1>2, ClassroomTypesInvariant, PTL DEF Spec

(* No sitting is oversold by redeems on any number of servers, because the row
   lock keeps the count and the limit as they were checked until the seat is
   committed (router_repository_base.py:1571-1631). *)
THEOREM NoSittingOversold == Spec => SeatsNotOversold
<1>1. ClassroomTypes /\ LockInv /\ [Next]_vars =>
        \A s \in Sessions : Occupants(s)' # Occupants(s) =>
          Cardinality(Occupants(s)') <= sitting[s].seats
  <2>. SUFFICES ASSUME ClassroomTypes, LockInv, [Next]_vars, NEW s \in Sessions,
                       Occupants(s)' # Occupants(s)
                PROVE  Cardinality(Occupants(s)') <= sitting[s].seats
    OBVIOUS
  <2>. TypeOK
    BY DEF ClassroomTypes
  <2>1. PICK v \in Servers : CommitSeat(v)
    BY DEF Next, vars, roster, RedeemStep, CreateClassSession, UpdateClassSession, SetClassStatus,
           Tick, SuspendUser, ReactivateUser, BeginRedeem, LockSitting, ReadForKey,
           WriteKey, Restart, Occupants
  <2>2. v \in fleet /\ req[v].at = "seated" /\ req[v].user \in Users
    BY <2>1, RedeemType DEF CommitSeat, Idle
  <2>3. /\ req[v].sitting = s /\ req[v].user \notin Occupants(s)
        /\ Occupants(s)' = Occupants(s) \cup {req[v].user}
    BY <2>1, <2>2 DEF CommitSeat, Occupants
  <2>4. ~SeatsFull(s)
    BY <2>2, <2>3 DEF LockInv, SeatPromised
  <2>5. sitting[s].seats \in Nat
    <3>1. req[v] # Idle
      BY <2>2 DEF Idle
    <3>2. sitting[s] \in SittingRows
      BY <2>3, <3>1, RedeemType DEF ClassroomTypes, RedeemsCreated, Created, TypeOK
    <3>. QED  BY <3>2, CalendarAssumption DEF SittingRows
  <2>6. IsFiniteSet(Occupants(s))
    BY RosterAssumption, FS_Subset DEF Occupants
  <2>7. /\ Cardinality(Occupants(s)) \in Nat
        /\ Cardinality(Occupants(s)') = Cardinality(Occupants(s)) + 1
    BY <2>3, <2>6, FS_CardinalityType, FS_AddElement
  <2>. QED  BY <2>4, <2>5, <2>7 DEF SeatsFull
<1>. QED  BY <1>1, ClassroomTypesInvariant, LockInvariant, PTL DEF Spec, SeatsNotOversold

-----------------------------------------------------------------------------
(* The two records of a sitting's end agree: an ended status was derived from an
   expiry that had passed, and the clock only goes on. *)
EndedIsExpired ==
  \A s \in Sessions : sitting[s].status = "ended" => sitting[s].expires <= now
KeysCreated == \A u \in Users, s \in Sessions : HasKey(u, s) => Created(s)
EndInv == EndedIsExpired /\ KeysCreated

LEMMA NothingBackfilled ==
  ASSUME TypeOK, EndedIsExpired
  PROVE  Backfilled = {}
<1>1. ASSUME NEW s \in Sessions, sitting[s].status = "ended" PROVE ~(sitting[s].expires > now)
  <2>1. sitting[s] \in SittingRows /\ now \in Nat
    BY <1>1, CalendarAssumption DEF TypeOK, NoSitting
  <2>2. sitting[s].expires \in Nat /\ sitting[s].expires <= now
    BY <1>1, <2>1 DEF SittingRows, EndedIsExpired
  <2>. QED  BY <2>1, <2>2
<1>. QED  BY <1>1 DEF Backfilled

LEMMA RestartChangesNoRow ==
  ASSUME TypeOK, EndedIsExpired, NEW v \in Servers, Restart(v)
  PROVE  sitting' = sitting /\ keys' = keys
BY NothingBackfilled DEF Restart, SetKeyExpiry, TypeOK

LEMMA EndedStaysExpired ==
  ASSUME TypeOK, TypeOK', EndedIsExpired, [Next]_vars
  PROVE  EndedIsExpired'
<1>. USE DEF EndedIsExpired
<1>. now \in Nat
  BY CalendarAssumption DEF TypeOK
<1>1. ASSUME NEW v \in Servers, NEW r \in Sessions, CreateClassSession(v, r)
      PROVE  EndedIsExpired'
  BY <1>1 DEF CreateClassSession, TypeOK
<1>2. ASSUME NEW v \in Servers, NEW r \in Sessions, UpdateClassSession(v, r)
      PROVE  EndedIsExpired'
  <2>1. PICK e \in Times \cup {Unchanged}, n \in SeatLimits \cup {Unchanged} :
          sitting' = [sitting EXCEPT ![r] =
            IF n = Unchanged
              THEN IF e = Unchanged THEN sitting[r] ELSE ExpiresAt(r, e)
              ELSE [(IF e = Unchanged THEN sitting[r] ELSE ExpiresAt(r, e)) EXCEPT !.seats = n]]
    BY <1>2 DEF UpdateClassSession
  <2>2. sitting[r] \in SittingRows
    BY <1>2 DEF UpdateClassSession, Created, TypeOK
  <2>3. CASE e = Unchanged
    <3>1. sitting'[r].status = sitting[r].status /\ sitting'[r].expires = sitting[r].expires
      BY <2>1, <2>2, <2>3 DEF SittingRows, TypeOK
    <3>. QED  BY <1>2, <2>1, <3>1 DEF UpdateClassSession, TypeOK
  <2>4. CASE e # Unchanged
    <3>1. sitting'[r].status = StatusFor(e) /\ sitting'[r].expires = e
      BY <2>1, <2>2, <2>4 DEF ExpiresAt, SittingRows, TypeOK
    <3>2. e \in Nat
      BY <2>4, CalendarAssumption DEF Times
    <3>3. sitting'[r].status = "ended" => sitting'[r].expires <= now
      BY <3>1, <3>2 DEF StatusFor
    <3>. QED  BY <1>2, <2>1, <3>3 DEF UpdateClassSession, TypeOK
  <2>. QED  BY <2>3, <2>4
<1>3. ASSUME NEW v \in Servers, Restart(v) PROVE EndedIsExpired'
  BY <1>3, RestartChangesNoRow DEF Restart
<1>4. CASE Tick
  <2>1. ASSUME NEW s \in Sessions, sitting[s].status = "ended" PROVE sitting[s].expires \in Nat
    BY <2>1 DEF TypeOK, SittingRows, NoSitting
  <2>. QED  BY <1>4, <2>1 DEF Tick
<1>5. ASSUME sitting' = sitting, now' = now PROVE EndedIsExpired'
  BY <1>5
<1>. QED
  BY <1>1, <1>2, <1>3, <1>4, <1>5
     DEF Next, vars, RedeemStep, SetClassStatus, SuspendUser, ReactivateUser, BeginRedeem,
         LockSitting, CommitSeat, ReadForKey, WriteKey

LEMMA EndInvariant == Spec => []EndInv
<1>1. Init => EndInv
  BY DEF Init, EndInv, EndedIsExpired, KeysCreated, HasKey, NoSitting
<1>2. ClassroomTypes /\ EndInv /\ [Next]_vars => EndInv'
  <2>. SUFFICES ASSUME ClassroomTypes, EndInv, [Next]_vars PROVE EndInv'
    OBVIOUS
  <2>. TypeOK /\ TypeOK'
    BY TypeStep DEF ClassroomTypes
  <2>1. ASSUME NEW u \in Users, NEW s \in Sessions, HasKey(u, s)', ~HasKey(u, s)
        PROVE  Created(s)
    <3>1. PICK v \in Servers : WriteKey(v)
      BY <2>1
         DEF Next, vars, RedeemStep, CreateClassSession, UpdateClassSession, SetClassStatus, Tick,
             SuspendUser, ReactivateUser, BeginRedeem, LockSitting, CommitSeat, ReadForKey,
             Restart, HasKey, SetKeyExpiry, DisableKeysOf
    <3>2. req[v] # Idle /\ req[v].sitting = s
      BY <2>1, <3>1 DEF WriteKey, HasKey, Idle, TypeOK
    <3>. QED  BY <3>2 DEF ClassroomTypes, RedeemsCreated
  <2>2. KeysCreated'
    BY <2>1, CreatedStays DEF EndInv, KeysCreated
  <2>. QED  BY <2>2, EndedStaysExpired DEF EndInv
<1>. QED  BY <1>1, <1>2, ClassroomTypesInvariant, PTL DEF Spec

(* The status the Portal shows never contradicts what a key is served for
   (router_repository_base.py:851, 1106-1128). *)
THEOREM ServedSittingsAreActive == Spec => []ServedSittingIsActive
<1>1. ClassroomTypes /\ EndInv => ServedSittingIsActive
  <2>. SUFFICES ASSUME ClassroomTypes, EndInv, NEW u \in Users, NEW s \in Sessions, Verifies(u, s)
                PROVE  sitting[s].status = "active"
    BY DEF ServedSittingIsActive
  <2>1. sitting[s] \in SittingRows
    BY DEF Verifies, EndInv, KeysCreated, Created, ClassroomTypes, TypeOK
  <2>2. now \in Nat /\ sitting[s].expires \in Nat /\ now < sitting[s].expires
    BY <2>1, CalendarAssumption DEF Verifies, ClassroomTypes, TypeOK, SittingRows
  <2>. QED  BY <2>1, <2>2 DEF EndInv, EndedIsExpired, SittingRows
<1>. QED  BY <1>1, ClassroomTypesInvariant, EndInvariant, PTL

(* A restart finds nothing to clean up among the rows that the API wrote, so it
   never cuts a sitting or a key short (router_repository_base.py:512-535). *)
THEOREM RestartsMoveNoExpiry == Spec => RestartMovesNoExpiry
<1>1. ClassroomTypes /\ EndInv /\ [Next]_vars =>
        ((\E v \in Servers : Restart(v)) => sitting' = sitting /\ keys' = keys)
  BY RestartChangesNoRow DEF ClassroomTypes, EndInv
<1>. QED  BY <1>1, ClassroomTypesInvariant, EndInvariant, PTL DEF Spec, RestartMovesNoExpiry

-----------------------------------------------------------------------------
(* With one server nothing comes between the two transactions of a redeem but
   time, so what the second one writes is what the sitting says. *)
FollowInv ==
  OneServer =>
    /\ \A u \in Users, s \in Sessions :
         HasKey(u, s) => keys[<<u, s>>].expires = sitting[s].expires
    /\ \A v \in fleet :
         req[v].at = "writing" => req[v].expires = sitting[req[v].sitting].expires

SuspendedInv ==
  OneServer =>
    /\ \A u \in Users, s \in Sessions :
         status[u] = "inactive" => ~keys[<<u, s>>].enabled
    /\ \A v \in fleet :
         req[v].at \in {"seated", "issuing", "writing"} => status[req[v].user] # "inactive"

LEMMA FleetStays == [Next]_vars => fleet' = fleet
BY DEF Next, vars, RedeemStep, CreateClassSession, UpdateClassSession, SetClassStatus, Tick,
       SuspendUser, ReactivateUser, BeginRedeem, LockSitting, CommitSeat, ReadForKey,
       WriteKey, Restart

(* An operation begins on a server that is free; if it is the only one, no redeem
   is under way. *)
LEMMA AloneAndFree ==
  ASSUME OneServer, NEW v, Free(v)
  PROVE  \A w \in fleet : req[w].at = "idle"
BY DEF OneServer, Free, Idle

LEMMA FollowStep ==
  ClassroomTypes /\ EndInv /\ FollowInv /\ [Next]_vars => FollowInv'
<1>. SUFFICES ASSUME ClassroomTypes, EndInv, FollowInv, [Next]_vars, OneServer'
              PROVE  /\ \A u \in Users, s \in Sessions :
                          HasKey(u, s)' => keys'[<<u, s>>].expires = sitting'[s].expires
                     /\ \A v \in fleet : req'[v].at = "writing" =>
                          req'[v].expires = sitting'[req'[v].sitting].expires
  BY FleetStays DEF FollowInv
<1>. TypeOK /\ OneServer /\ fleet \subseteq Servers /\ fleet' = fleet
  BY FleetStays DEF ClassroomTypes, TypeOK, OneServer
<1>. DEFINE Keyed == \A u \in Users, s \in Sessions :
              HasKey(u, s)' => keys'[<<u, s>>].expires = sitting'[s].expires
            Writing == \A v \in fleet : req'[v].at = "writing" =>
              req'[v].expires = sitting'[req'[v].sitting].expires
<1>0. /\ \A u \in Users, s \in Sessions :
           HasKey(u, s) => keys[<<u, s>>].expires = sitting[s].expires
      /\ \A v \in fleet :
           req[v].at = "writing" => req[v].expires = sitting[req[v].sitting].expires
  BY DEF FollowInv
<1>1. ASSUME NEW v \in Servers, NEW s \in Sessions, CreateClassSession(v, s)
      PROVE  Keyed /\ Writing
  <2>1. Keyed
    BY <1>0, <1>1 DEF CreateClassSession, EndInv, KeysCreated, HasKey, TypeOK
  <2>2. Writing
    BY <1>1, AloneAndFree DEF CreateClassSession
  <2>. QED  BY <2>1, <2>2
<1>2. ASSUME NEW v \in Servers, NEW r \in Sessions, UpdateClassSession(v, r)
      PROVE  Keyed /\ Writing
  <2>1. Writing
    BY <1>2, AloneAndFree DEF UpdateClassSession
  <2>2. sitting[r] \in SittingRows
    BY <1>2 DEF UpdateClassSession, Created, TypeOK
  <2>3. PICK e \in Times \cup {Unchanged}, n \in SeatLimits \cup {Unchanged} :
          /\ sitting' = [sitting EXCEPT ![r] =
               IF n = Unchanged
                 THEN IF e = Unchanged THEN sitting[r] ELSE ExpiresAt(r, e)
                 ELSE [(IF e = Unchanged THEN sitting[r] ELSE ExpiresAt(r, e)) EXCEPT !.seats = n]]
          /\ keys' = IF e = Unchanged THEN keys ELSE SetKeyExpiry({r}, e)
    BY <1>2 DEF UpdateClassSession
  <2>4. sitting'[r].expires = IF e = Unchanged THEN sitting[r].expires ELSE e
    BY <2>2, <2>3 DEF ExpiresAt, SittingRows, TypeOK
  <2>5. CASE e = Unchanged
    BY <1>0, <2>1, <2>3, <2>4, <2>5 DEF HasKey, TypeOK
  <2>6. CASE e # Unchanged
    <3>1. ASSUME NEW u \in Users, HasKey(u, r)'
          PROVE  keys'[<<u, r>>].expires = e
      BY <2>3, <2>6, <3>1 DEF HasKey, SetKeyExpiry, TypeOK, KeyRows
    <3>2. ASSUME NEW u \in Users, NEW s \in Sessions \ {r}
          PROVE  keys'[<<u, s>>] = keys[<<u, s>>] /\ sitting'[s] = sitting[s]
      BY <2>3, <2>6 DEF SetKeyExpiry, TypeOK
    <3>. QED  BY <1>0, <2>1, <2>4, <2>6, <3>1, <3>2 DEF HasKey
  <2>. QED  BY <2>5, <2>6
<1>3. ASSUME NEW v \in Servers, NEW u \in Users, SuspendUser(v, u)
      PROVE  Keyed /\ Writing
  <2>1. Keyed
    BY <1>0, <1>3 DEF SuspendUser, DisableKeysOf, HasKey, TypeOK, KeyRows
  <2>. QED  BY <1>0, <1>3, <2>1 DEF SuspendUser
<1>4. ASSUME NEW v \in Servers, NEW u \in Users, NEW s \in Sessions, BeginRedeem(v, u, s)
      PROVE  Keyed /\ Writing
  BY <1>0, <1>4 DEF BeginRedeem, HasKey, TypeOK
<1>5. ASSUME NEW v \in Servers, LockSitting(v) \/ CommitSeat(v)
      PROVE  Keyed /\ Writing
  <2>1. keys' = keys /\ sitting' = sitting
    BY <1>5 DEF LockSitting, CommitSeat
  <2>2. ASSUME NEW w \in fleet, req'[w].at = "writing" PROVE req'[w] = req[w]
    <3>1. w # v
      <4>1. req[v] # Idle /\ req[v].at # "writing"
        BY <1>5 DEF LockSitting, CommitSeat, Idle
      <4>2. CASE LockSitting(v)
        BY <2>2, <4>1, <4>2 DEF LockSitting, TypeOK, Idle
      <4>3. CASE CommitSeat(v)
        BY <2>2, <4>1, <4>3 DEF CommitSeat, TypeOK
      <4>. QED  BY <1>5, <4>2, <4>3
    <3>. QED  BY <1>5, <3>1 DEF LockSitting, CommitSeat, TypeOK
  <2>. QED  BY <1>0, <2>1, <2>2 DEF HasKey
<1>6. ASSUME NEW v \in Servers, ReadForKey(v)
      PROVE  Keyed /\ Writing
  BY <1>0, <1>6 DEF ReadForKey, HasKey, TypeOK
<1>7. ASSUME NEW v \in Servers, WriteKey(v)
      PROVE  Keyed /\ Writing
  <2>1. sitting' = sitting /\ req' = [req EXCEPT ![v] = Idle] /\ v \in fleet /\ req[v].at = "writing"
    BY <1>7 DEF WriteKey
  <2>2. Writing
    BY <1>0, <2>1 DEF TypeOK, Idle
  <2>3. Keyed
    BY <1>0, <1>7, <2>1 DEF WriteKey, HasKey, TypeOK
  <2>. QED  BY <2>2, <2>3
<1>8. ASSUME NEW v \in Servers, Restart(v)
      PROVE  Keyed /\ Writing
  <2>1. sitting' = sitting /\ keys' = keys
    BY <1>8, RestartChangesNoRow DEF EndInv
  <2>2. req' = [req EXCEPT ![v] = Idle]
    BY <1>8 DEF Restart
  <2>. QED  BY <1>0, <2>1, <2>2 DEF HasKey, TypeOK, Idle
<1>9. ASSUME sitting' = sitting, keys' = keys, req' = req
      PROVE  Keyed /\ Writing
  BY <1>0, <1>9 DEF HasKey
<1>. QED
  BY <1>1, <1>2, <1>3, <1>4, <1>5, <1>6, <1>7, <1>8, <1>9
     DEF Next, vars, RedeemStep, SetClassStatus, ReactivateUser, Tick

(* With one server a key ends when its sitting does, whatever the teacher moved
   and wherever a redeem failed (router_repository_base.py:899-931, 1111-1128). *)
THEOREM KeysFollowSittings == Spec => []KeyFollowsSitting
<1>1. Init => FollowInv
  BY DEF Init, FollowInv, HasKey, Idle
<1>2. FollowInv => KeyFollowsSitting
  BY DEF FollowInv, KeyFollowsSitting
<1>. QED
  BY <1>1, <1>2, FollowStep, ClassroomTypesInvariant, EndInvariant, PTL DEF Spec

LEMMA SuspendedStep ==
  ClassroomTypes /\ EndInv /\ SuspendedInv /\ [Next]_vars => SuspendedInv'
<1>. DEFINE Active == {"seated", "issuing", "writing"}
            KeysOff == \A u \in Users, s \in Sessions :
              status[u] = "inactive" => ~keys[<<u, s>>].enabled
            HoldersOn == \A v \in fleet :
              req[v].at \in Active => status[req[v].user] # "inactive"
<1>. SUFFICES ASSUME ClassroomTypes, EndInv, SuspendedInv, [Next]_vars, OneServer'
              PROVE  KeysOff' /\ HoldersOn'
  BY DEF SuspendedInv
<1>. TypeOK /\ OneServer /\ fleet \subseteq Servers /\ fleet' = fleet
  BY FleetStays DEF ClassroomTypes, TypeOK, OneServer
<1>0. KeysOff /\ HoldersOn
  BY DEF SuspendedInv
<1>1. ASSUME NEW v \in Servers, NEW u \in Users, SuspendUser(v, u)
      PROVE  KeysOff' /\ HoldersOn'
  <2>1. HoldersOn'
    BY <1>1, AloneAndFree DEF SuspendUser
  <2>2. ASSUME NEW w \in Users, NEW s \in Sessions, status'[w] = "inactive"
        PROVE  ~keys'[<<w, s>>].enabled
    <3>1. CASE w = u /\ keys[<<w, s>>] # NoKey
      BY <1>1, <3>1 DEF SuspendUser, DisableKeysOf, TypeOK, KeyRows
    <3>2. CASE w # u
      BY <1>0, <1>1, <2>2, <3>2 DEF SuspendUser, DisableKeysOf, TypeOK
    <3>3. CASE keys[<<w, s>>] = NoKey
      BY <1>1, <3>3 DEF SuspendUser, DisableKeysOf, NoKey
    <3>. QED  BY <3>1, <3>2, <3>3
  <2>. QED  BY <2>1, <2>2
<1>2. ASSUME NEW v \in Servers, NEW u \in Users, ReactivateUser(v, u)
      PROVE  KeysOff' /\ HoldersOn'
  BY <1>0, <1>2, AloneAndFree DEF ReactivateUser, TypeOK
<1>3. ASSUME NEW v \in Servers, NEW r \in Sessions, UpdateClassSession(v, r)
      PROVE  KeysOff' /\ HoldersOn'
  <2>1. HoldersOn'
    BY <1>3, AloneAndFree DEF UpdateClassSession
  <2>2. ASSUME NEW u \in Users, NEW s \in Sessions
        PROVE  keys'[<<u, s>>].enabled = keys[<<u, s>>].enabled
    BY <1>3 DEF UpdateClassSession, SetKeyExpiry, TypeOK, KeyRows
  <2>3. status' = status
    BY <1>3 DEF UpdateClassSession, roster
  <2>. QED  BY <1>0, <2>1, <2>2, <2>3
<1>4. ASSUME NEW v \in Servers, NEW u \in Users, NEW s \in Sessions, BeginRedeem(v, u, s)
      PROVE  KeysOff' /\ HoldersOn'
  BY <1>0, <1>4 DEF BeginRedeem, TypeOK, roster
<1>5. ASSUME NEW v \in Servers, LockSitting(v)
      PROVE  KeysOff' /\ HoldersOn'
  <2>1. keys' = keys /\ status' = status
    BY <1>5 DEF LockSitting, roster
  <2>2. ASSUME NEW w \in fleet, req'[w].at \in Active
        PROVE  status[req'[w].user] # "inactive"
    <3>1. CASE w = v
      <4>1. ~Refused(req[v].user, req[v].sitting) /\ req'[v] = [req[v] EXCEPT !.at = "seated"]
        BY <1>5, <2>2, <3>1 DEF LockSitting, TypeOK, Idle
      <4>2. req'[v].user = req[v].user
        BY <1>5, <4>1, RedeemType DEF LockSitting, Idle, Redeems
      <4>. QED  BY <3>1, <4>1, <4>2 DEF Refused
    <3>2. CASE w # v
      BY <1>0, <1>5, <2>2, <3>2 DEF LockSitting, TypeOK
    <3>. QED  BY <3>1, <3>2
  <2>. QED  BY <1>0, <2>1, <2>2
<1>6. ASSUME NEW v \in Servers, CommitSeat(v)
      PROVE  KeysOff' /\ HoldersOn'
  <2>1. /\ v \in fleet /\ req[v].at = "seated" /\ keys' = keys
        /\ req' = [req EXCEPT ![v].at = "issuing"]
        /\ \A u \in Users : status'[u] = "inactive" <=> status[u] = "inactive"
    BY <1>6 DEF CommitSeat, TypeOK
  <2>2. ASSUME NEW w \in fleet, req'[w].at \in Active
        PROVE  status'[req'[w].user] # "inactive"
    <3>1. req[w] # Idle /\ req'[w].user = req[w].user /\ req[w].at \in Active
      BY <2>1, <2>2 DEF TypeOK, Idle
    <3>2. req[w].user \in Users
      BY <3>1, RedeemType
    <3>. QED  BY <1>0, <2>1, <3>1, <3>2
  <2>. QED  BY <1>0, <2>1, <2>2
<1>7. ASSUME NEW v \in Servers, ReadForKey(v)
      PROVE  KeysOff' /\ HoldersOn'
  BY <1>0, <1>7 DEF ReadForKey, TypeOK, roster
<1>8. ASSUME NEW v \in Servers, WriteKey(v)
      PROVE  KeysOff' /\ HoldersOn'
  <2>1. status' = status /\ req' = [req EXCEPT ![v] = Idle] /\ v \in fleet /\ req[v].at = "writing"
    BY <1>8 DEF WriteKey, roster
  <2>2. HoldersOn'
    BY <1>0, <2>1 DEF TypeOK, Idle
  <2>3. ASSUME NEW u \in Users, NEW s \in Sessions, status[u] = "inactive"
        PROVE  keys'[<<u, s>>] = keys[<<u, s>>]
    <3>1. u # req[v].user
      BY <1>0, <2>1, <2>3
    <3>. QED  BY <1>8, <3>1 DEF WriteKey, TypeOK
  <2>. QED  BY <1>0, <2>1, <2>2, <2>3
<1>9. ASSUME NEW v \in Servers, Restart(v)
      PROVE  KeysOff' /\ HoldersOn'
  <2>1. keys' = keys /\ status' = status /\ req' = [req EXCEPT ![v] = Idle]
    BY <1>9, RestartChangesNoRow DEF EndInv, Restart, roster
  <2>. QED  BY <1>0, <2>1 DEF TypeOK, Idle
<1>10. ASSUME status' = status, keys' = keys, req' = req
       PROVE  KeysOff' /\ HoldersOn'
  BY <1>0, <1>10
<1>. QED
  BY <1>1, <1>2, <1>3, <1>4, <1>5, <1>6, <1>7, <1>8, <1>9, <1>10
     DEF Next, vars, roster, RedeemStep, CreateClassSession, SetClassStatus, Tick

(* With one server, making a user active again brings no key back: the student
   has to redeem (router_repository_base.py:737-797; docs/adr/0061). *)
THEOREM ReactivationsReviveNoKey == Spec => ReactivationRevivesNoKey
<1>1. Init => SuspendedInv
  BY DEF Init, SuspendedInv, NoKey, Idle
<1>2. ClassroomTypes /\ SuspendedInv /\ [Next]_vars =>
        (OneServer => \A u \in Users, s \in Sessions :
           status[u] = "inactive" /\ status'[u] = "active" => ~Verifies(u, s)')
  <2>. SUFFICES ASSUME ClassroomTypes, SuspendedInv, [Next]_vars, OneServer,
                       NEW u \in Users, NEW s \in Sessions,
                       status[u] = "inactive", status'[u] = "active"
                PROVE  ~Verifies(u, s)'
    OBVIOUS
  <2>1. ~keys[<<u, s>>].enabled
    BY DEF SuspendedInv
  <2>2. keys' = keys
    BY DEF Next, vars, roster, RedeemStep, CreateClassSession, UpdateClassSession, SetClassStatus,
           Tick, SuspendUser, ReactivateUser, BeginRedeem, LockSitting, CommitSeat, ReadForKey,
           WriteKey, Restart, ClassroomTypes, TypeOK
  <2>. QED  BY <2>1, <2>2 DEF Verifies
<1>. QED
  BY <1>1, <1>2, SuspendedStep, ClassroomTypesInvariant, EndInvariant, PTL
     DEF Spec, ReactivationRevivesNoKey
=============================================================================
