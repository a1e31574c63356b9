------------------------- MODULE QuarantineRelease -------------------------
(***************************************************************************)
(* PortalUseCase.release_key_quarantine for one upstream key: teachers and *)
(* their agents end its quarantine, an agent at most once per Cooldown.    *)
(* The router remembers the last agent release in memory, reserves it      *)
(* before it waits for the pool's lock, and after a restart reads it from  *)
(* the audits of agent actions.                                            *)
(*                                                                         *)
(* Instants are ages up to Cooldown: nothing tells older ones apart.       *)
(***************************************************************************)
EXTENDS Integers

CONSTANTS
    Requests,
    Cooldown,   \* _WEBMCP_QUARANTINE_RELEASE_COOLDOWN_SEC
    LockLimit,  \* the pool's lock is never held for as long as this
    Never

ASSUME ReleaseAssumption ==
    Cooldown \in Nat \ {0} /\ LockLimit \in 1..Cooldown /\ Never \notin Nat

Elapse(age) == IF age \in 0..(Cooldown - 1) THEN age + 1 ELSE age

VARIABLES
    quarantined,
    reserved,   \* _agent_quarantine_release_at: its age, and the request that wrote it
    audited,    \* the age of the latest audit of an agent's release
    request,    \* where a request is, who made it, since when it waits
    \* history, read by no action
    released,   \* the age of the last release by an agent
    forgotten,  \* that release left no audit, and the router restarted since
    gap         \* the age the release before it had then, unless it was forgotten

releaseVars == <<quarantined, reserved, audited, request, released, forgotten, gap>>
pastReleases     == <<released, forgotten, gap>>

NoRelease == [age |-> Never, by |-> Never]
Done      == [at |-> "done", agent |-> FALSE, since |-> 0]
NotAsked  == [at |-> "idle", agent |-> FALSE, since |-> 0]

Recent(age) == age # Never /\ age < Cooldown

\* _persisted_agent_quarantine_release, the latest of list_agent_action_audits
CoolingByAudit == Recent(audited)

\* _reserve_agent_quarantine_release
Cooling == IF reserved.age # Never THEN Recent(reserved.age) ELSE CoolingByAudit

\* Mutant: the release is remembered only once it is made.
RequestUnreserved(r, agent) ==
    /\ request[r].at = "idle"
    /\ request' = [request EXCEPT ![r] =
            IF agent /\ (Cooling \/ ~quarantined) THEN Done ELSE [at |-> "waiting", agent |-> agent, since |-> 0]]
    /\ UNCHANGED <<quarantined, reserved, audited, pastReleases>>

\* A teacher's request waits for the lock at once; an agent's is refused during
\* the cooldown, and forgets its reservation when the key is not quarantined.
Request(r, agent) ==
    /\ request[r].at = "idle"
    /\ IF agent /\ (Cooling \/ ~quarantined)
       THEN /\ request' = [request EXCEPT ![r] = Done]
            /\ reserved' = IF Cooling THEN reserved ELSE NoRelease
       ELSE /\ request' = [request EXCEPT ![r] = [at |-> "waiting", agent |-> agent, since |-> 0]]
            /\ reserved' = IF agent THEN [age |-> 0, by |-> r] ELSE reserved
    /\ UNCHANGED <<quarantined, audited, pastReleases>>

\* record_agent_action_audit, which may fail
Audits == audited' \in {0, audited}

\* The key is free again; an agent's release is remembered, then audited.
Release(r) ==
    /\ request[r].at = "waiting"
    /\ quarantined' = FALSE
    /\ request' = [request EXCEPT ![r] = Done]
    /\ IF request[r].agent
       THEN /\ reserved' = [age |-> 0, by |-> Never]
            /\ Audits
            /\ released' = 0 /\ forgotten' = FALSE
            /\ gap' = IF forgotten THEN Never ELSE released
       ELSE UNCHANGED <<reserved, audited, pastReleases>>

\* _forget_agent_quarantine_release: only what this request reserved
Forget(r) == IF reserved.by = r THEN NoRelease ELSE reserved

\* The release raises or is cancelled at the lock.
ReleaseFails(r) ==
    /\ request[r].at = "waiting"
    /\ request' = [request EXCEPT ![r] = Done]
    /\ reserved' = IF request[r].agent THEN Forget(r) ELSE reserved
    /\ UNCHANGED <<quarantined, audited, pastReleases>>

Quarantine ==
    /\ ~quarantined /\ quarantined' = TRUE
    /\ UNCHANGED <<reserved, audited, request, pastReleases>>

Expires ==
    /\ quarantined /\ quarantined' = FALSE
    /\ UNCHANGED <<reserved, audited, request, pastReleases>>

\* Memory, quarantines and requests are lost; the audits are not.
Restart ==
    /\ reserved' = NoRelease /\ quarantined' = FALSE
    /\ request' = [r \in Requests |-> IF request[r].at = "waiting" THEN Done ELSE request[r]]
    /\ forgotten' = (forgotten \/ (released # Never /\ audited # released))
    /\ UNCHANGED <<audited, released, gap>>

\* A request may be made again.
Again(r) ==
    /\ request[r].at = "done" /\ request' = [request EXCEPT ![r] = NotAsked]
    /\ UNCHANGED <<quarantined, reserved, audited, pastReleases>>

ReleaseTick ==
    /\ \A r \in Requests : request[r].at = "waiting" => request[r].since + 1 < LockLimit
    /\ reserved' = [age |-> Elapse(reserved.age), by |-> reserved.by]
    /\ audited' = Elapse(audited) /\ released' = Elapse(released)
    /\ request' = [r \in Requests |-> IF request[r].at = "waiting"
                                      THEN [request[r] EXCEPT !.since = @ + 1] ELSE request[r]]
    /\ UNCHANGED <<quarantined, forgotten, gap>>

ReleaseInit ==
    /\ quarantined = FALSE /\ reserved = NoRelease /\ audited = Never
    /\ request = [r \in Requests |-> NotAsked]
    /\ released = Never /\ forgotten = FALSE /\ gap = Never

ReleaseNext ==
    \/ \E r \in Requests : \/ \E agent \in BOOLEAN : Request(r, agent)
                           \/ Release(r) \/ ReleaseFails(r) \/ Again(r)
    \/ Quarantine \/ Expires \/ Restart \/ ReleaseTick

ReleaseSpec == ReleaseInit /\ [][ReleaseNext]_releaseVars

-----------------------------------------------------------------------------

ReleaseTypeOK ==
    /\ quarantined \in BOOLEAN
    /\ reserved \in [age : 0..Cooldown \cup {Never}, by : Requests \cup {Never}]
    /\ audited \in 0..Cooldown \cup {Never}
    /\ request \in [Requests -> [at : {"idle", "waiting", "done"}, agent : BOOLEAN, since : 0..LockLimit]]
    /\ {released, gap} \subseteq 0..Cooldown \cup {Never} /\ forgotten \in BOOLEAN

\* Two releases of a key by agents are at least the cooldown apart, across
\* requests that wait together, fail or are cancelled, and across restarts,
\* unless the router restarted after a release whose audit was not written.
AgentReleasesSpaced == gap \in {Never, Cooldown}

=============================================================================
