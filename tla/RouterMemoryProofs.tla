------------------------- MODULE RouterMemoryProofs -------------------------
(***************************************************************************)
(* Proofs about what the router keeps between calls: the figures of an     *)
(* account (UpstreamFigures), the lists of models (UpstreamModelCatalog),  *)
(* when an agent last ended a key's quarantine (QuarantineRelease), and    *)
(* the logins of the portal (PortalSessions), for every cap, every limit   *)
(* and any number of readers, requests and stored rows.                    *)
(***************************************************************************)
EXTENDS UpstreamFigures, UpstreamModelCatalog, QuarantineRelease, PortalSessions,
        FiniteSetTheorems, TLAPS

-----------------------------------------------------------------------------
(* Figures.  A stamp is never younger than the fetch it came from began, so *)
(* what passes for fresh was asked for recently.                            *)

ReaderPlaces ==
    [at : {"rest", "asking", "shown"}, figure : Figures \cup {NoFigure}, since : Nat, hit : BOOLEAN]

FigureInv ==
    /\ cached \in [Figures -> [stamp : Nat, began : Nat]]
    /\ reader \in [Readers -> ReaderPlaces]
    /\ \A f \in Figures : cached[f].began = cached[f].stamp
    /\ \A r \in Readers : reader[r].at = "asking" => ~reader[r].hit /\ reader[r].figure \in Figures
    /\ FigureFresh

LEMMA FigureInit == FiguresInit => FigureInv
  <1> USE FiguresAssumption DEF FiguresAssumption
  <1> SUFFICES ASSUME FiguresInit PROVE FigureInv
    OBVIOUS
  <1>1. reader \in [Readers -> ReaderPlaces]
    BY DEF FiguresInit, Rest, ReaderPlaces
  <1>2. cached \in [Figures -> [stamp : Nat, began : Nat]] /\ \A f \in Figures : cached[f].began = cached[f].stamp
    BY DEF FiguresInit, Absent
  <1>3. \A r \in Readers : reader[r].at = "rest"
    BY DEF FiguresInit, Rest
  <1> QED
    BY <1>1, <1>2, <1>3 DEF FigureInv, FigureFresh

LEMMA FigureStep ==
    ASSUME FigureInv, [FiguresNext]_figureVars
    PROVE  FigureInv'
  <1> USE FiguresAssumption DEF FiguresAssumption
  <1>r. Rest \in ReaderPlaces /\ Rest.at = "rest"
    BY DEF Rest, ReaderPlaces
  <1>s. ASSUME NEW r \in Readers, reader' = [reader EXCEPT ![r] = Rest], UNCHANGED cached
        PROVE  FigureInv'
    BY <1>r, <1>s DEF FigureInv, FigureFresh
  <1>1. ASSUME NEW r \in Readers, NEW f \in Figures, Read(r, f) PROVE FigureInv'
    <2> DEFINE to == IF cached[f].stamp < TTL
                     THEN [at |-> "shown", figure |-> f, since |-> cached[f].began, hit |-> TRUE]
                     ELSE [at |-> "asking", figure |-> f, since |-> 0, hit |-> FALSE]
    <2>1. reader' = [reader EXCEPT ![r] = to] /\ cached' = cached
      BY <1>1 DEF Read
    <2>2. cached[f].stamp \in Nat /\ cached[f].began = cached[f].stamp
      BY DEF FigureInv
    <2>3. to \in ReaderPlaces
      BY <2>2 DEF ReaderPlaces
    <2>4. /\ to.at = "asking" => ~to.hit /\ to.figure \in Figures
          /\ to.at = "shown" /\ to.hit => to.since < TTL
      BY <2>2
    <2> HIDE DEF to
    <2> QED
      BY <2>1, <2>3, <2>4 DEF FigureInv, FigureFresh
  <1>2. ASSUME NEW r \in Readers, Answered(r) PROVE FigureInv'
    <2>1. PICK known \in BOOLEAN :
            /\ reader' = [reader EXCEPT ![r] =
                    IF known THEN [at |-> "shown", figure |-> reader[r].figure, since |-> reader[r].since, hit |-> FALSE]
                    ELSE Rest]
            /\ cached' = IF Keeps(reader[r].figure, known) THEN Stamps(reader[r].figure, reader[r].since) ELSE cached
      BY <1>2 DEF Answered
    <2>2. reader[r] \in ReaderPlaces /\ reader[r].figure \in Figures /\ reader[r].since \in Nat
      BY <1>2 DEF Answered, FigureInv, ReaderPlaces
    <2>3. /\ cached' \in [Figures -> [stamp : Nat, began : Nat]]
          /\ \A f \in Figures : cached'[f].began = cached'[f].stamp
      BY <2>1, <2>2 DEF Stamps, FigureInv
    <2> DEFINE to == [at |-> "shown", figure |-> reader[r].figure, since |-> reader[r].since, hit |-> FALSE]
    <2>4. to \in ReaderPlaces /\ to.at = "shown" /\ ~to.hit
      BY <2>2 DEF ReaderPlaces
    <2>5. PICK now \in {to, Rest} : reader' = [reader EXCEPT ![r] = now]
      BY <2>1
    <2> HIDE DEF to
    <2> QED
      BY <1>r, <2>3, <2>4, <2>5 DEF FigureInv, FigureFresh
  <1>3. ASSUME NEW r \in Readers, ReaderLeaves(r) \/ FigureSeen(r) PROVE FigureInv'
    BY <1>3, <1>s DEF ReaderLeaves, FigureSeen
  <1>4. CASE FiguresTick
    <2>1. /\ cached' \in [Figures -> [stamp : Nat, began : Nat]]
          /\ \A f \in Figures : cached'[f].began = cached'[f].stamp
      <3>1. \A f \in Figures : /\ AgedTo(cached[f].stamp, TTL) \in Nat
                               /\ AgedTo(cached[f].began, TTL) = AgedTo(cached[f].stamp, TTL)
        BY DEF FigureInv, AgedTo
      <3> QED
        BY <1>4, <3>1 DEF FiguresTick
    <2>2. ASSUME NEW r \in Readers
          PROVE  /\ reader'[r] \in ReaderPlaces
                 /\ reader'[r].at = reader[r].at /\ reader'[r].hit = reader[r].hit
                 /\ reader'[r].figure = reader[r].figure
                 /\ reader[r].at # "asking" => reader'[r] = reader[r]
      <3>1. reader[r] \in ReaderPlaces
        BY DEF FigureInv
      <3>2. CASE reader[r].at = "asking"
        <4>1. reader'[r] = [reader[r] EXCEPT !.since = @ + 1]
          BY <1>4, <3>2 DEF FiguresTick
        <4> QED
          BY <3>1, <3>2, <4>1 DEF ReaderPlaces
      <3>3. CASE reader[r].at # "asking"
        BY <1>4, <3>1, <3>3 DEF FiguresTick
      <3> QED
        BY <3>2, <3>3
    <2>3. reader' \in [Readers -> ReaderPlaces]
      BY <1>4, <2>2 DEF FiguresTick
    <2> QED
      BY <2>1, <2>2, <2>3 DEF FigureInv, FigureFresh
  <1>5. CASE UNCHANGED figureVars
    BY <1>5 DEF figureVars, FigureInv, FigureFresh
  <1> QED
    BY <1>1, <1>2, <1>3, <1>4, <1>5 DEF FiguresNext

\* The usage, credit and limit caches of openai_compatible_gateway.py and the
\* thinking cache of copilot_compat.py: what they show from memory was asked of
\* the upstream less than TTL ago, however slow it was and however many asked.
THEOREM FiguresFresh == FiguresSpec => []FigureFresh
  <1>1. FigureInv => FigureFresh
    BY DEF FigureInv
  <1> QED
    BY <1>1, FigureInit, FigureStep, PTL DEF FiguresSpec

-----------------------------------------------------------------------------
(* The Upstream Model Catalog.  Every wait of a fetch, for an answer or for  *)
(* its next attempt, ends within the budget of the round.                    *)

FetchPlaces ==
    [at : {"none", "asking", "sleeping", "answered", "failed"}, until : Nat, delays : Seq(Nat \ {0})]

Fetching == {"asking", "sleeping"}

CatalogInv ==
    /\ snapshots \in [Kinds -> 0..MaxRounds] /\ round \in 0..MaxRounds
    /\ filling \in BOOLEAN /\ (filling => round # 0) /\ stopping \in BOOLEAN
    /\ elapsed \in 0..Budget
    /\ fetch \in [Kinds -> FetchPlaces]
    /\ \A k \in Kinds : fetch[k].at \in Fetching => fetch[k].until <= Budget

\* Where a fetch may go: it stays within the types and the budget.
Within(f) == f \in FetchPlaces /\ (f.at \in Fetching => f.until <= Budget)

LEMMA NotFetchingWithin == Within(NotFetching)
  BY CatalogAssumption DEF CatalogAssumption, NotFetching, Within, FetchPlaces, Fetching

LEMMA FetchMoves ==
    ASSUME CatalogInv, NEW k \in Kinds
    PROVE  /\ Within(Asks(fetch[k])) /\ Within(Retries(fetch[k]))
           /\ \A how \in {"answered", "failed"} : Within(FetchEnds(fetch[k], how))
  <1> USE CatalogAssumption DEF CatalogAssumption
  <1> DEFINE f == fetch[k]
  <1>1. f \in FetchPlaces /\ elapsed \in 0..Budget
    BY DEF CatalogInv
  <1>e. \A how \in {"answered", "failed"} : Within(FetchEnds(f, how))
    BY <1>1 DEF FetchEnds, Within, FetchPlaces, Fetching
  <1>a. Within(Asks(f))
    <2>1. LesserOf(FetchTimeout, Budget - elapsed) \in 0..(Budget - elapsed)
      BY <1>1 DEF LesserOf
    <2>2. elapsed + LesserOf(FetchTimeout, Budget - elapsed) \in 0..Budget
      BY <1>1, <2>1
    <2> HIDE DEF f
    <2> QED
      BY <1>1, <2>2 DEF Asks, Within, FetchPlaces, Fetching
  <1>r. Within(Retries(f))
    <2>1. CASE f.delays # <<>> /\ elapsed + Head(f.delays) < Budget
      <3>1. Head(f.delays) \in Nat /\ Tail(f.delays) \in Seq(Nat \ {0})
        BY <1>1, <2>1 DEF FetchPlaces
      <3> QED
        BY <1>1, <2>1, <3>1 DEF Retries, Within, FetchPlaces, Fetching
    <2>2. CASE ~(f.delays # <<>> /\ elapsed + Head(f.delays) < Budget)
      BY <1>e, <2>2 DEF Retries
    <2> QED
      BY <2>1, <2>2
  <1> QED
    BY <1>e, <1>a, <1>r

\* One fetch moves and the others stay.
LEMMA OneFetchMoves ==
    ASSUME CatalogInv, NEW k \in Kinds, NEW f, Within(f),
           fetch' = [fetch EXCEPT ![k] = f],
           UNCHANGED <<snapshots, round, filling, elapsed, stopping>>
    PROVE  CatalogInv'
  BY DEF CatalogInv, Within

LEMMA CatalogStart == CatalogInit => CatalogInv
  <1> USE CatalogAssumption DEF CatalogAssumption
  <1> SUFFICES ASSUME CatalogInit PROVE CatalogInv
    OBVIOUS
  <1>1. fetch \in [Kinds -> FetchPlaces] /\ \A k \in Kinds : fetch[k].at \in Fetching => fetch[k].until <= Budget
    BY NotFetchingWithin DEF CatalogInit, Within
  <1>2. filling \in BOOLEAN /\ (filling => round # 0) /\ stopping \in BOOLEAN
    BY Zenon DEF CatalogInit
  <1>3. snapshots \in [Kinds -> 0..MaxRounds] /\ round \in 0..MaxRounds /\ elapsed \in 0..Budget
    BY DEF CatalogInit
  <1> QED
    BY <1>1, <1>2, <1>3 DEF CatalogInv

LEMMA CatalogStep ==
    ASSUME CatalogInv, [CatalogNext]_catalogVars
    PROVE  CatalogInv'
  <1> USE CatalogAssumption DEF CatalogAssumption
  <1>n. ASSUME fetch' = [k \in Kinds |-> NotFetching]
        PROVE  /\ fetch' \in [Kinds -> FetchPlaces]
               /\ \A k \in Kinds : fetch'[k].at \in Fetching => fetch'[k].until <= Budget
    BY <1>n, NotFetchingWithin DEF Within
  <1>1. CASE Fill
    <2> DEFINE first == [at |-> "asking", until |-> LesserOf(FetchTimeout, Budget), delays |-> Delays]
    <2>1. first \in FetchPlaces /\ first.until <= Budget
      BY DEF FetchPlaces, LesserOf
    <2>2. fetch' = [k \in Kinds |-> first]
      BY <1>1 DEF Fill
    <2> HIDE DEF first
    <2>3. fetch' \in [Kinds -> FetchPlaces] /\ \A k \in Kinds : fetch'[k].until <= Budget
      BY <2>1, <2>2
    <2> QED
      BY <1>1, <2>3 DEF Fill, CatalogInv
  <1>2. CASE Publish
    <2>1. Publishes \in [Kinds -> 0..MaxRounds]
      BY DEF CatalogInv, Publishes
    <2> QED
      BY <1>2, <1>n, <2>1 DEF Publish, CatalogInv
  <1>3. CASE StopCatalog
    BY <1>3, <1>n DEF StopCatalog, CatalogInv
  <1>4. CASE CatalogTick
    <2>1. PICK k \in Kinds : fetch[k].at \in Fetching /\ elapsed < fetch[k].until
      BY <1>4 DEF CatalogTick, Fetching
    <2>2. fetch[k].until \in Nat /\ fetch[k].until <= Budget
      BY <2>1 DEF CatalogInv, FetchPlaces
    <2>3. elapsed + 1 \in 0..Budget
      BY <2>1, <2>2 DEF CatalogInv
    <2> QED
      BY <1>4, <2>3 DEF CatalogTick, CatalogInv
  <1>5. ASSUME NEW k \in Kinds, FetchAnswers(k) PROVE CatalogInv'
    BY <1>5, FetchMoves, OneFetchMoves DEF FetchAnswers
  <1>6. ASSUME NEW k \in Kinds, FetchFails(k) PROVE CatalogInv'
    BY <1>6, FetchMoves, OneFetchMoves DEF FetchFails
  <1>7. ASSUME NEW k \in Kinds, WakesUp(k) PROVE CatalogInv'
    BY <1>7, FetchMoves, OneFetchMoves DEF WakesUp
  <1>8. CASE UNCHANGED catalogVars
    BY <1>8 DEF catalogVars, CatalogInv
  <1> QED
    BY <1>1, <1>2, <1>3, <1>4, <1>5, <1>6, <1>7, <1>8 DEF CatalogNext

LEMMA CatalogKeeps ==
    ASSUME CatalogInv, CatalogInv', CatalogNext
    PROVE  /\ elapsed' <= Budget
           /\ \A k \in Kinds :
                /\ snapshots[k] # 0 => snapshots'[k] # 0
                /\ snapshots'[k] # snapshots[k] => \A j \in Kinds : fetch[j].at \notin {"asking", "sleeping"}
  <1>1. elapsed' <= Budget
    BY CatalogAssumption DEF CatalogInv, CatalogAssumption
  <1>2. CASE Publish
    <2>1. \A j \in Kinds : fetch[j].at \notin {"asking", "sleeping"}
      BY <1>2 DEF Publish
    <2>2. round # 0
      BY <1>2 DEF Publish, CatalogInv
    <2> QED
      BY <1>1, <1>2, <2>1, <2>2 DEF Publish, Publishes
  <1>3. CASE UNCHANGED snapshots
    BY <1>1, <1>3
  <1> QED
    BY <1>2, <1>3 DEF CatalogNext, Fill, StopCatalog, CatalogTick, FetchAnswers, FetchFails, WakesUp

\* _refresh of upstream_model_catalog.py: a round of any number of fetches, with
\* any delays between attempts, stays within its budget and replaces what is
\* read at once, keeping the last answer of a kind that now failed.
THEOREM CatalogKept == CatalogSpec => CatalogHolds
  <1>1. CatalogInv /\ CatalogInv' /\ [CatalogNext]_catalogVars =>
          [/\ elapsed' <= Budget
           /\ \A k \in Kinds :
                /\ snapshots[k] # 0 => snapshots'[k] # 0
                /\ snapshots'[k] # snapshots[k] => \A j \in Kinds : fetch[j].at \notin {"asking", "sleeping"}]_catalogVars
    BY CatalogKeeps
  <1> QED
    BY <1>1, CatalogStart, CatalogStep, PTL DEF CatalogSpec, CatalogHolds

-----------------------------------------------------------------------------
(* Releases of a quarantine.  While an agent's request waits for the pool's  *)
(* lock the reservation is its own and recent, so no other agent gets in;   *)
(* and a recent release is always remembered, by the reservation or, once   *)
(* that is gone, by the latest audit.                                       *)

USE ReleaseAssumption DEF ReleaseAssumption

AgentWaits(r) == request[r].at = "waiting" /\ request[r].agent

NotRecent == released \in {Never, Cooldown} \/ forgotten

\* The reservation belongs to the agent that waits, whose wait began with it.
WaiterReserved ==
    \A r \in Requests : AgentWaits(r) =>
        /\ reserved.by = r /\ reserved.age = request[r].since
        /\ request[r].since < LockLimit
        /\ NotRecent

\* A recent release that is not forgotten is remembered.
ReleaseRemembered ==
    NotRecent \/ reserved.age = released \/ (reserved.age = Never /\ audited = released)

ReleaseInv == ReleaseTypeOK /\ WaiterReserved /\ ReleaseRemembered /\ AgentReleasesSpaced

\* Ages stay ages, and what is recent after a tick was recent before it.
LEMMA ElapseFacts ==
    ASSUME NEW age \in 0..Cooldown \cup {Never}
    PROVE  /\ Elapse(age) \in 0..Cooldown \cup {Never}
           /\ (Elapse(age) = Never) <=> (age = Never)
           /\ age = Cooldown => Elapse(age) = Cooldown
           /\ age \in 0..(Cooldown - 1) => Elapse(age) = age + 1
  BY DEF Elapse

\* An agent's request during its own cooldown is refused: nobody cools while
\* an agent waits, and a remembered recent release cools.
LEMMA CoolingRefuses ==
    ASSUME ReleaseInv, ~Cooling
    PROVE  /\ NotRecent
           /\ \A r \in Requests : ~AgentWaits(r)
  <1>1. NotRecent
    BY DEF ReleaseInv, ReleaseRemembered, NotRecent, ReleaseTypeOK, Cooling, CoolingByAudit, Recent
  <1>2. ASSUME NEW r \in Requests, AgentWaits(r) PROVE FALSE
    <2>1. reserved.age < Cooldown /\ reserved.age \in Nat
      BY <1>2 DEF ReleaseInv, WaiterReserved, ReleaseTypeOK
    <2> QED
      BY <2>1 DEF Cooling, Recent
  <1> QED
    BY <1>1, <1>2

\* ReleaseTypeOK (PortalUseCase.release_key_quarantine): every step keeps the
\* types.
LEMMA TypeStep ==
    ASSUME ReleaseTypeOK, [ReleaseNext]_releaseVars
    PROVE  ReleaseTypeOK'
  <1> USE DEF ReleaseTypeOK, Done, NotAsked, NoRelease
  <1> DEFINE Places == [at : {"idle", "waiting", "done"}, agent : BOOLEAN, since : 0..LockLimit]
  <1>0. /\ request \in [Requests -> Places]
        /\ Done \in Places /\ NotAsked \in Places
        /\ \A agent \in BOOLEAN : [at |-> "waiting", agent |-> agent, since |-> 0] \in Places
    OBVIOUS
  <1>1. ASSUME NEW r \in Requests, NEW agent \in BOOLEAN, Request(r, agent) PROVE ReleaseTypeOK'
    <2>1. request' \in [Requests -> Places]
      <3>1. PICK q \in Places : request' = [request EXCEPT ![r] = q]
        BY <1>0, <1>1 DEF Request
      <3> HIDE DEF Places
      <3> QED
        BY <1>0, <3>1
    <2>2. reserved' \in [age : 0..Cooldown \cup {Never}, by : Requests \cup {Never}]
      BY <1>1 DEF Request
    <2> QED
      BY <1>1, <2>1, <2>2 DEF Request, pastReleases
  <1>2. ASSUME NEW r \in Requests, Release(r) PROVE ReleaseTypeOK'
    <2>1. request' \in [Requests -> Places]
      <3>1. request' = [request EXCEPT ![r] = Done]
        BY <1>2 DEF Release
      <3> HIDE DEF Places
      <3> QED
        BY <1>0, <3>1
    <2>2. reserved' \in [age : 0..Cooldown \cup {Never}, by : Requests \cup {Never}]
      BY <1>2 DEF Release, pastReleases
    <2>3. audited' \in 0..Cooldown \cup {Never}
      BY <1>2 DEF Release, Audits
    <2>4. {released', gap'} \subseteq 0..Cooldown \cup {Never} /\ forgotten' \in BOOLEAN
      <3>1. CASE request[r].agent
        <4>1. forgotten' \in BOOLEAN
          BY <1>2, <3>1 DEF Release
        <4>2. released' = 0 /\ gap' \in {Never, released}
          BY <1>2, <3>1 DEF Release
        <4>3. {released', gap'} \subseteq 0..Cooldown \cup {Never}
          BY <4>2
        <4> QED
          BY <4>1, <4>3
      <3>2. CASE ~request[r].agent
        BY <1>2, <3>2 DEF Release, pastReleases
      <3> QED
        BY <3>1, <3>2
    <2>5. quarantined' \in BOOLEAN
      BY <1>2 DEF Release
    <2> HIDE DEF Places
    <2> QED
      BY <2>1, <2>2, <2>3, <2>4, <2>5 DEF Places
  <1>3. ASSUME NEW r \in Requests, ReleaseFails(r) PROVE ReleaseTypeOK'
    <2>1. request' \in [Requests -> Places]
      <3>1. request' = [request EXCEPT ![r] = Done]
        BY <1>3 DEF ReleaseFails
      <3> HIDE DEF Places
      <3> QED
        BY <1>0, <3>1
    <2>2. reserved' \in [age : 0..Cooldown \cup {Never}, by : Requests \cup {Never}]
      BY <1>3 DEF ReleaseFails, Forget
    <2> QED
      BY <1>3, <2>1, <2>2 DEF ReleaseFails, pastReleases
  <1>4. ASSUME NEW r \in Requests, Again(r) PROVE ReleaseTypeOK'
    <2>1. request' \in [Requests -> Places]
      <3>1. PICK q \in Places : request' = [request EXCEPT ![r] = q]
        BY <1>0, <1>4 DEF Again
      <3> HIDE DEF Places
      <3> QED
        BY <1>0, <3>1
    <2> QED
      BY <1>4, <2>1 DEF Again, pastReleases
  <1>5. CASE Quarantine \/ Expires
    BY <1>5 DEF Quarantine, Expires, pastReleases
  <1>6. CASE Restart
    <2>1. request' \in [Requests -> Places]
      <3>1. \A r \in Requests : request[r] \in Places /\ Done \in Places
        BY <1>0
      <3> HIDE DEF Places
      <3> QED
        BY <1>6, <3>1 DEF Restart
    <2>2. forgotten' \in BOOLEAN
      BY <1>6 DEF Restart
    <2> QED
      BY <1>6, <2>1, <2>2 DEF Restart
  <1>7. CASE ReleaseTick
    <2>1. reserved' \in [age : 0..Cooldown \cup {Never}, by : Requests \cup {Never}]
      BY <1>7, ElapseFacts DEF ReleaseTick
    <2>2. audited' \in 0..Cooldown \cup {Never} /\ released' \in 0..Cooldown \cup {Never}
      BY <1>7, ElapseFacts DEF ReleaseTick
    <2>3. ASSUME NEW r \in Requests
          PROVE  request'[r] \in [at : {"idle", "waiting", "done"}, agent : BOOLEAN, since : 0..LockLimit]
      BY <1>7 DEF ReleaseTick
    <2> QED
      BY <1>7, <2>1, <2>2, <2>3 DEF ReleaseTick
  <1>8. CASE UNCHANGED releaseVars
    BY <1>8 DEF releaseVars, pastReleases
  <1> QED
    BY <1>1, <1>2, <1>3, <1>4, <1>5, <1>6, <1>7, <1>8 DEF ReleaseNext

LEMMA ReleaseInvStep ==
    ASSUME ReleaseInv, [ReleaseNext]_releaseVars
    PROVE  ReleaseInv'
  <1>t. ReleaseTypeOK /\ ReleaseTypeOK'
    BY TypeStep DEF ReleaseInv
  <1> SUFFICES WaiterReserved' /\ ReleaseRemembered' /\ AgentReleasesSpaced'
    BY <1>t DEF ReleaseInv
  <1> USE DEF AgentWaits
  <1>1. ASSUME NEW r \in Requests, NEW agent \in BOOLEAN, Request(r, agent)
        PROVE  WaiterReserved' /\ ReleaseRemembered' /\ AgentReleasesSpaced'
    <2>u. UNCHANGED <<audited, released, forgotten, gap>>
      BY <1>1 DEF Request, pastReleases
    <2>1. CASE agent /\ Cooling
      BY <1>1, <1>t, <2>u, <2>1
         DEF Request, ReleaseInv, ReleaseTypeOK, WaiterReserved, ReleaseRemembered, NotRecent, AgentReleasesSpaced, Done, NotAsked
    <2>2. CASE agent /\ ~Cooling
      <3>1. NotRecent /\ \A q \in Requests : ~AgentWaits(q)
        BY <2>2, CoolingRefuses
      <3>2. NotRecent'
        BY <3>1, <2>u DEF NotRecent
      <3>3. ASSUME NEW q \in Requests, AgentWaits(q)'
            PROVE  /\ q = r /\ reserved' = [age |-> 0, by |-> r]
                   /\ request'[q].since = 0
        BY <1>1, <1>t, <2>2, <3>1, <3>3 DEF Request, ReleaseTypeOK, Done
      <3>4. WaiterReserved'
        BY <3>2, <3>3 DEF WaiterReserved
      <3> QED
        BY <3>2, <3>4, <2>u DEF ReleaseRemembered, ReleaseInv, AgentReleasesSpaced
    <2>3. CASE ~agent
      BY <1>1, <1>t, <2>u, <2>3
         DEF Request, ReleaseInv, ReleaseTypeOK, WaiterReserved, ReleaseRemembered, NotRecent, AgentReleasesSpaced
    <2> QED
      BY <2>1, <2>2, <2>3
  <1>2. ASSUME NEW r \in Requests, Release(r)
        PROVE  WaiterReserved' /\ ReleaseRemembered' /\ AgentReleasesSpaced'
    <2>1. CASE AgentWaits(r)
      <3>1. NotRecent /\ reserved.by = r
        BY <2>1 DEF ReleaseInv, WaiterReserved
      <3>2. \A q \in Requests : ~AgentWaits(q)'
        BY <1>2, <1>t, <3>1 DEF Release, ReleaseInv, WaiterReserved, ReleaseTypeOK, Done
      <3>3. reserved'.age = 0 /\ released' = 0
        BY <1>2, <2>1 DEF Release
      <3>4. gap' \in {Never, Cooldown}
        BY <1>2, <2>1, <3>1 DEF Release, NotRecent
      <3> QED
        BY <3>2, <3>3, <3>4 DEF WaiterReserved, ReleaseRemembered, AgentReleasesSpaced
    <2>2. CASE ~request[r].agent
      BY <1>2, <1>t, <2>2
         DEF Release, pastReleases, ReleaseInv, ReleaseTypeOK, WaiterReserved, ReleaseRemembered, NotRecent, AgentReleasesSpaced, Done, NotAsked
    <2> QED
      BY <1>2, <2>1, <2>2 DEF Release
  <1>3. ASSUME NEW r \in Requests, ReleaseFails(r)
        PROVE  WaiterReserved' /\ ReleaseRemembered' /\ AgentReleasesSpaced'
    <2>u. UNCHANGED <<audited, released, forgotten, gap>>
      BY <1>3 DEF ReleaseFails, pastReleases
    <2>1. CASE AgentWaits(r)
      <3>1. NotRecent /\ reserved.by = r
        BY <2>1 DEF ReleaseInv, WaiterReserved
      <3>2. \A q \in Requests : ~AgentWaits(q)'
        BY <1>3, <1>t, <3>1 DEF ReleaseFails, ReleaseInv, WaiterReserved, ReleaseTypeOK, Done
      <3> QED
        BY <2>u, <3>1, <3>2 DEF WaiterReserved, ReleaseRemembered, NotRecent, ReleaseInv, AgentReleasesSpaced
    <2>2. CASE ~request[r].agent
      BY <1>3, <1>t, <2>u, <2>2
         DEF ReleaseFails, ReleaseInv, ReleaseTypeOK, WaiterReserved, ReleaseRemembered, NotRecent, AgentReleasesSpaced, Done, NotAsked
    <2> QED
      BY <1>3, <2>1, <2>2 DEF ReleaseFails
  <1>4. ASSUME NEW r \in Requests, Again(r)
        PROVE  WaiterReserved' /\ ReleaseRemembered' /\ AgentReleasesSpaced'
    BY <1>4, <1>t
       DEF Again, pastReleases, ReleaseInv, ReleaseTypeOK, WaiterReserved, ReleaseRemembered, NotRecent, AgentReleasesSpaced, Done, NotAsked
  <1>5. CASE Quarantine \/ Expires
    BY <1>5 DEF Quarantine, Expires, pastReleases, ReleaseInv, WaiterReserved, ReleaseRemembered, NotRecent, AgentReleasesSpaced
  <1>6. CASE Restart
    <2>1. \A q \in Requests : ~AgentWaits(q)'
      BY <1>6, <1>t DEF Restart, ReleaseTypeOK, Done
    <2>2. ReleaseRemembered'
      BY <1>6 DEF Restart, ReleaseRemembered, NotRecent, NoRelease
    <2> QED
      BY <1>6, <2>1, <2>2 DEF Restart, WaiterReserved, ReleaseInv, AgentReleasesSpaced
  <1>7. CASE ReleaseTick
    <2>1. NotRecent => NotRecent'
      BY <1>7, <1>t, ElapseFacts DEF ReleaseTick, NotRecent, ReleaseTypeOK
    <2>2. ASSUME NEW r \in Requests, AgentWaits(r)'
          PROVE  /\ reserved'.by = r /\ reserved'.age = request'[r].since
                 /\ request'[r].since < LockLimit
                 /\ NotRecent'
      <3>1. AgentWaits(r) /\ request'[r].since = request[r].since + 1 /\ request'[r].since < LockLimit
        BY <1>7, <1>t, <2>2 DEF ReleaseTick, ReleaseTypeOK
      <3>2. reserved.by = r /\ reserved.age = request[r].since /\ NotRecent
        BY <3>1 DEF ReleaseInv, WaiterReserved
      <3>3. reserved.age \in 0..(Cooldown - 1)
        BY <1>t, <3>1, <3>2 DEF ReleaseTypeOK
      <3>4. reserved'.age = reserved.age + 1 /\ reserved'.by = reserved.by
        BY <1>7, <1>t, <3>3 DEF ReleaseTick, ReleaseTypeOK, Elapse
      <3> QED
        BY <2>1, <3>1, <3>2, <3>4
    <2>3. ReleaseRemembered'
      <3>1. reserved'.age = Elapse(reserved.age) /\ audited' = Elapse(audited) /\ released' = Elapse(released)
        BY <1>7, <1>t DEF ReleaseTick, ReleaseTypeOK
      <3>2. reserved.age = Never => reserved'.age = Never
        BY <3>1 DEF Elapse
      <3> QED
        BY <2>1, <3>1, <3>2 DEF ReleaseInv, ReleaseRemembered
    <2> QED
      BY <1>7, <2>2, <2>3 DEF WaiterReserved, ReleaseTick, ReleaseInv, AgentReleasesSpaced
  <1>8. CASE UNCHANGED releaseVars
    BY <1>8 DEF releaseVars, pastReleases, ReleaseInv, WaiterReserved, ReleaseRemembered, NotRecent, AgentReleasesSpaced
  <1> QED
    BY <1>1, <1>2, <1>3, <1>4, <1>5, <1>6, <1>7, <1>8 DEF ReleaseNext

LEMMA ReleaseInvInit == ReleaseInit => ReleaseInv
  <1> SUFFICES ASSUME ReleaseInit PROVE ReleaseInv
    OBVIOUS
  <1>1. request \in [Requests -> [at : {"idle", "waiting", "done"}, agent : BOOLEAN, since : 0..LockLimit]]
    BY DEF ReleaseInit, NotAsked
  <1>2. ReleaseTypeOK
    BY <1>1 DEF ReleaseInit, ReleaseTypeOK, NoRelease
  <1>3. WaiterReserved
    BY DEF ReleaseInit, WaiterReserved, AgentWaits, NotAsked
  <1>4. ReleaseRemembered /\ AgentReleasesSpaced
    BY DEF ReleaseInit, ReleaseRemembered, NotRecent, AgentReleasesSpaced
  <1> QED
    BY <1>2, <1>3, <1>4 DEF ReleaseInv

\* The types of release_key_quarantine's state, for every set of requests.
THEOREM ReleaseTypes == ReleaseSpec => []ReleaseTypeOK
  <1>1. ReleaseInv => ReleaseTypeOK
    BY DEF ReleaseInv
  <1> QED
    BY <1>1, ReleaseInvInit, ReleaseInvStep, PTL DEF ReleaseSpec

\* _reserve_agent_quarantine_release and the audits it falls back on: two
\* releases by agents are a cooldown apart, whatever the cooldown, the number of
\* requests and the time the pool's lock takes.
THEOREM ReleasesSpaced == ReleaseSpec => []AgentReleasesSpaced
  <1>1. ReleaseInv => AgentReleasesSpaced
    BY DEF ReleaseInv
  <1> QED
    BY <1>1, ReleaseInvInit, ReleaseInvStep, PTL DEF ReleaseSpec

-----------------------------------------------------------------------------
(* Sessions.  The invariant is about one row at a time: a live row has no   *)
(* role its user has lost, and its last_seen_at lags its last use by less   *)
(* than the throttle.  What needs all rows together is the cap: only Login adds a    *)
(* listed session, after taking out the surplus.                            *)

USE SessionsAssumption DEF SessionsAssumption

RowType  == LiveRow \cup EndedRow \cup {NoRow}
UserType == [active : BOOLEAN, roles : {"teacher", "admin"}, configured : BOOLEAN]

\* A role is lost only together with the sessions.
SoundFor(w, u) ==
    w.kind = "live" =>
        /\ w.roles \in {u.roles, "teacher"}
        /\ w.seen - w.used < Throttle

RowsInv == /\ user \in UserType
           /\ row \in [Rows -> RowType]
           /\ \A r \in Rows : SoundFor(row[r], user)

HandoffInv == /\ handoff \in [Handoffs -> HandoffType]
              /\ \A h \in Handoffs : ~handoff[h].marked => handoff[h].redeems = 0

CapInv == Cardinality(Listed) <= SessionCap

-----------------------------------------------------------------------------
(* Single rows                                                             *)

LEMMA EndedFacts ==
    ASSUME NEW why \in {"session_limit", "expired", "user"}
    PROVE  /\ Revoked(why) \in RowType /\ Revoked(why).kind = "revoked" /\ Revoked(why).why = why
           /\ NoRow \in RowType /\ NoRow.kind = "none"
  BY DEF Revoked, RowType, EndedRow, DeadCap, NoRow

LEMMA LiveFacts ==
    ASSUME RowsInv, NEW r \in Alive
    PROVE  /\ row[r] \in LiveRow
           /\ row[r].seen \in 0..SeenCap /\ row[r].life \in 0..LifeCap /\ row[r].used \in 0..SeenCap
           /\ row[r].seen - row[r].used < Throttle
           /\ row[r].roles \in {user.roles, "teacher"}
  BY DEF RowsInv, Alive, RowType, LiveRow, EndedRow, NoRow, SoundFor

LEMMA TouchedFacts ==
    ASSUME RowsInv, NEW r \in Alive
    PROVE  /\ Touched(r) \in LiveRow
           /\ Touched(r).kind = "live" /\ Touched(r).life = row[r].life
           /\ Touched(r).roles = row[r].roles
           /\ Touched(r).seen - Touched(r).used < Throttle
  <1>1. row[r] \in LiveRow /\ row[r].seen \in 0..SeenCap
    BY LiveFacts
  <1>2. Refreshed(r) \in 0..SeenCap /\ Refreshed(r) < Throttle
    BY <1>1 DEF Refreshed, SeenCap
  <1> QED
    BY <1>1, <1>2 DEF Touched, LiveAt, LiveRow, SeenCap

LEMMA AgedFacts ==
    ASSUME RowsInv, NEW r \in Rows
    PROVE  /\ AgedRow(r) \in RowType /\ AgedRow(r).kind = row[r].kind
           /\ r \in Alive =>
                /\ AgedRow(r).roles = row[r].roles
                /\ AgedRow(r).seen - AgedRow(r).used < Throttle
                /\ AgedRow(r).seen >= row[r].seen /\ AgedRow(r).life >= row[r].life
           /\ r \notin Alive /\ r \notin RevokedRows => AgedRow(r) = row[r]
  <1>0. row[r] \in RowType
    BY DEF RowsInv
  <1>1. CASE r \in Alive
    <2>1. row[r] \in LiveRow /\ row[r].seen - row[r].used < Throttle
      BY <1>1, LiveFacts
    <2>2. AgedRow(r) = LiveAt(OneOlder(row[r].seen, SeenCap), OneOlder(row[r].life, LifeCap),
                              OneOlder(row[r].used, SeenCap), row[r].roles)
      BY <1>1 DEF AgedRow, Alive, RevokedRows
    <2>3. /\ OneOlder(row[r].seen, SeenCap) \in 0..SeenCap /\ OneOlder(row[r].used, SeenCap) \in 0..SeenCap
          /\ OneOlder(row[r].life, LifeCap) \in 0..LifeCap
          /\ OneOlder(row[r].seen, SeenCap) >= row[r].seen /\ OneOlder(row[r].life, LifeCap) >= row[r].life
          /\ OneOlder(row[r].seen, SeenCap) - OneOlder(row[r].used, SeenCap) < Throttle
      BY <2>1 DEF LiveRow, OneOlder, SeenCap, LifeCap
    <2> QED
      BY <1>1, <2>1, <2>2, <2>3 DEF RowType, LiveRow, LiveAt
  <1>2. CASE r \in RevokedRows
    <2>1. row[r] \in EndedRow /\ r \notin Alive
      BY <1>0, <1>2 DEF RevokedRows, Alive, RowType, LiveRow, NoRow
    <2>2. AgedRow(r) = [kind |-> row[r].kind, dead |-> OneOlder(row[r].dead, DeadCap), why |-> row[r].why]
      BY <1>2, <2>1 DEF AgedRow, EndedRow
    <2>3. OneOlder(row[r].dead, DeadCap) \in 0..DeadCap
      BY <2>1 DEF EndedRow, OneOlder, DeadCap
    <2> QED
      BY <1>2, <2>1, <2>2, <2>3 DEF RowType, EndedRow
  <1>3. CASE r \notin Alive /\ r \notin RevokedRows
    BY <1>0, <1>3 DEF AgedRow
  <1> QED
    BY <1>1, <1>2, <1>3

-----------------------------------------------------------------------------
(* Steps: the rows                                                         *)

\* A step that gives each row a sound value keeps the rows sound.
LEMMA RowsMove ==
    ASSUME user' \in UserType, DOMAIN row' = Rows, row' = [r \in Rows |-> row'[r]],
           \A r \in Rows : row'[r] \in RowType /\ SoundFor(row'[r], user')
    PROVE  RowsInv'
  BY DEF RowsInv

LEMMA EndedIsSound ==
    \A u : /\ \A why \in {"session_limit", "expired", "user"} : SoundFor(Revoked(why), u)
           /\ SoundFor(NoRow, u)
  BY DEF SoundFor, Revoked, NoRow

LEMMA TouchedIsSound ==
    ASSUME RowsInv, NEW r \in Alive
    PROVE  Touched(r) \in RowType /\ SoundFor(Touched(r), user)
  <1>1. Touched(r) \in LiveRow /\ Touched(r).roles = row[r].roles /\ Touched(r).seen - Touched(r).used < Throttle
    BY TouchedFacts
  <1>2. SoundFor(row[r], user) /\ row[r].kind = "live"
    BY DEF RowsInv, Alive
  <1> QED
    BY <1>1, <1>2 DEF SoundFor, RowType

LEMMA RowsStep ==
    ASSUME RowsInv, [SessionsNext]_sessionVars
    PROVE  RowsInv'
  <1>0. /\ user \in UserType /\ row \in [Rows -> RowType]
        /\ \A r \in Rows : row[r] \in RowType /\ SoundFor(row[r], user)
    BY DEF RowsInv
  <1>a. Alive \subseteq Rows
    BY DEF Alive
  <1>1. ASSUME NEW r \in Rows, Login(r) PROVE RowsInv'
    <2>1. RolesAtLogin \in {"teacher", "admin"} /\ RolesAtLogin \in {user.roles, "admin"}
      BY <1>0 DEF RolesAtLogin, UserType
    <2>2. user' \in UserType /\ user'.roles = RolesAtLogin
      BY <1>0, <1>1, <2>1 DEF Login, UserType
    <2>3. NewRow(RolesAtLogin) \in RowType /\ SoundFor(NewRow(RolesAtLogin), user')
      BY <2>1, <2>2 DEF NewRow, LiveAt, RowType, LiveRow, SeenCap, LifeCap, SoundFor
    <2>4. PICK out \in SUBSET Listed :
            row' = [s \in Rows |-> CASE s = r -> NewRow(RolesAtLogin)
                                     [] s \in out -> Revoked("session_limit")
                                     [] OTHER -> row[s]]
      BY <1>1 DEF Login
    <2>5. ASSUME NEW s \in Rows PROVE row'[s] \in RowType /\ SoundFor(row'[s], user')
      <3>1. CASE s = r
        <4>1. r \notin out
          BY <1>1 DEF Login, Listed, Alive, NoRow
        <4> QED
          BY <2>3, <2>4, <3>1, <4>1
      <3>2. CASE s # r /\ s \in out
        BY <2>4, <3>2, EndedFacts, EndedIsSound
      <3>3. CASE s # r /\ s \notin out
        <4>1. row'[s] = row[s]
          BY <2>4, <3>3
        <4>2. SoundFor(row[s], user')
          <5>1. row[s].kind = "live" => row[s].roles \in {"teacher", "admin"}
            BY <1>0 DEF RowType, LiveRow, EndedRow, NoRow
          <5> QED
            BY <1>0, <2>1, <2>2, <5>1 DEF SoundFor
        <4> QED
          BY <1>0, <4>1, <4>2
      <3> QED
        BY <3>1, <3>2, <3>3
    <2> QED
      BY <2>2, <2>4, <2>5, RowsMove
  <1>2. ASSUME NEW r \in Rows, Admit(r) PROVE RowsInv'
    BY <1>0, <1>2, TouchedIsSound, RowsMove DEF Admit, Known
  <1>3. ASSUME NEW r \in Rows, Expire(r) PROVE RowsInv'
    BY <1>0, <1>3, EndedFacts, EndedIsSound, RowsMove DEF Expire
  <1>4. ASSUME NEW r \in Rows, NEW target \in Rows, RevokeOne(r, target) PROVE RowsInv'
    BY <1>0, <1>4, EndedFacts, EndedIsSound, TouchedIsSound, RowsMove DEF RevokeOne, Known
  <1>5. ASSUME NEW r \in Rows, RevokeOthers(r) PROVE RowsInv'
    BY <1>0, <1>5, EndedFacts, EndedIsSound, TouchedIsSound, RowsMove DEF RevokeOthers, Known
  <1>6. ASSUME user' \in UserType, RevokesAll(Alive, "user") PROVE RowsInv'
    <2>1. ASSUME NEW r \in Rows PROVE row'[r] \in RowType /\ SoundFor(row'[r], user')
      <3>1. CASE r \in Alive
        BY <1>6, <3>1, EndedFacts, EndedIsSound DEF RevokesAll
      <3>2. CASE r \notin Alive
        BY <1>0, <1>6, <3>2 DEF RevokesAll, Alive, SoundFor
      <3> QED
        BY <3>1, <3>2
    <2> QED
      BY <1>6, <2>1, RowsMove DEF RevokesAll
  <1>7. CASE Suspend
    <2>1. user' \in UserType
      BY <1>0, <1>7 DEF Suspend, UserType
    <2> QED
      BY <1>6, <1>7, <2>1 DEF Suspend
  <1>8. ASSUME NEW roles \in {"teacher", "admin"}, SetRoles(roles) PROVE RowsInv'
    <2>1. user' \in UserType
      BY <1>0, <1>8 DEF SetRoles, UserType
    <2> QED
      BY <1>6, <1>8, <2>1 DEF SetRoles
  <1>9. CASE Reactivate \/ Reconfigure
    <2>1. user' \in UserType /\ user'.roles = user.roles /\ row' = row
      BY <1>0, <1>9 DEF Reactivate, Reconfigure, UserType
    <2> QED
      BY <1>0, <2>1 DEF RowsInv, SoundFor
  <1>10. CASE Purge
    BY <1>0, <1>10, EndedFacts, EndedIsSound, RowsMove DEF Purge
  <1>11. CASE SessionsTick
    <2>1. ASSUME NEW r \in Rows PROVE AgedRow(r) \in RowType /\ SoundFor(AgedRow(r), user)
      BY <1>0, AgedFacts DEF SoundFor, Alive
    <2> QED
      BY <1>0, <1>11, <2>1, RowsMove DEF SessionsTick
  <1>12. CASE UNCHANGED <<user, row>>
    BY <1>12 DEF RowsInv
  <1> QED
    BY <1>1, <1>2, <1>3, <1>4, <1>5, <1>7, <1>8, <1>9, <1>10, <1>11, <1>12
       DEF SessionsNext, sessionVars, Peek, IssueHandoff, ConsumeHandoff

-----------------------------------------------------------------------------
(* Steps: the cap and the handoffs                                         *)

LEMMA ListedFinite ==
    /\ Listed \subseteq Rows /\ IsFiniteSet(Listed)
    /\ \A S \in SUBSET Listed : IsFiniteSet(S) /\ Cardinality(S) \in Nat /\ Cardinality(S) <= Cardinality(Listed)
  <1>1. Listed \subseteq Rows
    BY DEF Listed, Alive
  <1>2. IsFiniteSet(Listed)
    BY <1>1, FS_Subset
  <1>3. ASSUME NEW S \in SUBSET Listed
        PROVE  IsFiniteSet(S) /\ Cardinality(S) \in Nat /\ Cardinality(S) <= Cardinality(Listed)
    BY <1>2, FS_Subset, FS_CardinalityType
  <1> QED
    BY <1>1, <1>2, <1>3

\* Making room takes the surplus, and nothing when there is room.
LEMMA RoomMade ==
    ASSUME CapInv, NEW out \in SUBSET Listed, Evictable(out)
    PROVE  /\ Cardinality(Listed \ out) <= SessionCap - 1
           /\ out # {} => Cardinality(Listed) >= SessionCap
  <1>1. /\ Cardinality(Listed) \in Nat /\ Cardinality(out) \in Nat
        /\ IsFiniteSet(Listed) /\ IsFiniteSet(out)
    BY ListedFinite, FS_CardinalityType
  <1>2. Cardinality(Listed \ out) = Cardinality(Listed) - Cardinality(out)
    <2>1. Listed \cap out = out
      OBVIOUS
    <2> QED
      BY <1>1, <2>1, FS_Difference
  <1>3. Cardinality(out) = 0 => out = {}
    BY <1>1, FS_EmptySet
  <1> QED
    BY <1>1, <1>2, <1>3 DEF Evictable, CapInv

LEMMA FewerListed ==
    ASSUME CapInv, Listed' \subseteq Listed
    PROVE  CapInv'
  <1>1. Cardinality(Listed') \in Nat /\ Cardinality(Listed') <= Cardinality(Listed) /\ Cardinality(Listed) \in Nat
    BY ListedFinite, FS_CardinalityType
  <1> QED
    BY <1>1 DEF CapInv

LEMMA CapStep ==
    ASSUME RowsInv, CapInv, [SessionsNext]_sessionVars
    PROVE  CapInv'
  <1>0. row \in [Rows -> RowType]
    BY DEF RowsInv
  <1>1. ASSUME NEW r \in Rows, Login(r) PROVE CapInv'
    <2>1. PICK out \in SUBSET Listed :
            /\ Evictable(out)
            /\ row' = [s \in Rows |-> CASE s = r -> NewRow(RolesAtLogin)
                                        [] s \in out -> Revoked("session_limit")
                                        [] OTHER -> row[s]]
      BY <1>1 DEF Login
    <2>2. Listed' \subseteq (Listed \ out) \cup {r}
      <3>1. ASSUME NEW s \in Listed', s # r PROVE s \in Listed /\ s \notin out
        <4>1. s \in Rows /\ row'[s].kind = "live"
          BY <3>1 DEF Listed, Alive
        <4>2. s \notin out
          BY <2>1, <3>1, <4>1 DEF Revoked
        <4>3. row'[s] = row[s]
          BY <2>1, <3>1, <4>1, <4>2
        <4> QED
          BY <3>1, <4>2, <4>3 DEF Listed, Alive, Current
      <3> QED
        BY <3>1
    <2>3. IsFiniteSet(Listed \ out) /\ Cardinality(Listed \ out) \in Nat /\ Cardinality(Listed \ out) <= SessionCap - 1
      BY <2>1, RoomMade, ListedFinite
    <2>4. /\ IsFiniteSet((Listed \ out) \cup {r})
          /\ Cardinality((Listed \ out) \cup {r}) \in Nat
          /\ Cardinality((Listed \ out) \cup {r}) <= SessionCap
      <3>1. /\ IsFiniteSet((Listed \ out) \cup {r})
            /\ Cardinality((Listed \ out) \cup {r}) \in {Cardinality(Listed \ out), Cardinality(Listed \ out) + 1}
        BY <2>3, FS_AddElement
      <3> QED
        BY <2>3, <3>1
    <2>5. Cardinality(Listed') \in Nat /\ Cardinality(Listed') <= Cardinality((Listed \ out) \cup {r})
      BY <2>2, <2>4, FS_Subset, FS_CardinalityType
    <2> QED
      BY <2>4, <2>5 DEF CapInv
  <1>2. ASSUME NEW r \in Rows, Admit(r) PROVE CapInv'
    <2>1. r \in Listed /\ \A s \in Rows : s # r => row'[s] = row[s]
      BY <1>0, <1>2 DEF Admit, Known, Listed
    <2>2. Listed' \subseteq Listed
      BY <2>1 DEF Listed, Alive, Current
    <2> QED
      BY <2>2, FewerListed
  <1>3. ASSUME \A s \in Rows : row'[s] = row[s] \/ s \in Listed \/ row'[s].kind # "live"
        PROVE  CapInv'
    <2>1. Listed' \subseteq Listed
      BY <1>3 DEF Listed, Alive, Current
    <2> QED
      BY <2>1, FewerListed
  <1>4. ASSUME NEW r \in Rows, Expire(r) PROVE CapInv'
    BY <1>0, <1>3, <1>4, EndedFacts DEF Expire
  <1>5. ASSUME NEW r \in Rows, NEW target \in Rows, RevokeOne(r, target) PROVE CapInv'
    <2>1. r \in Listed
      BY <1>5 DEF RevokeOne, Known, Listed
    <2> QED
      BY <1>0, <1>3, <1>5, <2>1, EndedFacts DEF RevokeOne
  <1>6. ASSUME NEW r \in Rows, RevokeOthers(r) PROVE CapInv'
    <2>1. r \in Listed
      BY <1>6 DEF RevokeOthers, Known, Listed
    <2> QED
      BY <1>3, <1>6, <2>1, EndedFacts DEF RevokeOthers
  <1>7. CASE Suspend \/ \E roles \in {"teacher", "admin"} : SetRoles(roles)
    <2>1. RevokesAll(Alive, "user")
      BY <1>7 DEF Suspend, SetRoles
    <2> QED
      BY <1>3, <2>1, EndedFacts DEF RevokesAll
  <1>8. CASE Purge
    BY <1>3, <1>8, EndedFacts DEF Purge
  <1>9. CASE SessionsTick
    <2>1. ASSUME NEW s \in Listed' PROVE s \in Listed
      <3>1. s \in Rows /\ row'[s] = AgedRow(s) /\ row'[s].kind = "live"
        BY <1>9, <2>1 DEF SessionsTick, Listed, Alive
      <3>2. s \in Alive
        BY <3>1, AgedFacts DEF Alive
      <3>3. row[s].seen \in Int /\ row[s].life \in Int /\ row'[s].seen \in Int /\ row'[s].life \in Int
        BY <3>1, <3>2, LiveFacts, AgedFacts DEF AgedRow, LiveAt, OneOlder, SeenCap, LifeCap, Alive, RevokedRows
      <3>4. row'[s].seen >= row[s].seen /\ row'[s].life >= row[s].life
        BY <3>1, <3>2, AgedFacts
      <3>5. row'[s].seen < IdleLimit /\ row'[s].life < AbsoluteLimit
        BY <2>1 DEF Listed, Current
      <3> QED
        BY <3>2, <3>3, <3>4, <3>5 DEF Listed, Current
    <2> QED
      BY <2>1, FewerListed
  <1>10. CASE UNCHANGED row
    <2>1. Listed' = Listed
      BY <1>10 DEF Listed, Alive, Current
    <2> QED
      BY <2>1, FewerListed
  <1> QED
    BY <1>1, <1>2, <1>4, <1>5, <1>6, <1>7, <1>8, <1>9, <1>10
       DEF SessionsNext, sessionVars, Peek, IssueHandoff, ConsumeHandoff, Reactivate, Reconfigure

LEMMA HandoffStep ==
    ASSUME HandoffInv, [SessionsNext]_sessionVars
    PROVE  /\ HandoffInv'
           /\ \A h \in Handoffs : handoff'[h].redeems > handoff[h].redeems =>
                handoff[h].redeems = 0 /\ handoff[h].age <= HandoffLimit
  <1>0. handoff \in [Handoffs -> HandoffType] /\ \A h \in Handoffs : ~handoff[h].marked => handoff[h].redeems = 0
    BY DEF HandoffInv
  <1>1. ASSUME NEW h \in Handoffs, IssueHandoff(h)
        PROVE  /\ HandoffInv'
               /\ \A g \in Handoffs : ~(handoff'[g].redeems > handoff[g].redeems)
    <2>1. [age |-> 0, marked |-> FALSE, redeems |-> 0] \in HandoffType
      BY DEF HandoffType
    <2>2. \A g \in Handoffs : handoff[g].redeems \in {0, 1}
      BY <1>0 DEF HandoffType
    <2>3. \A g \in Handoffs : handoff'[g].redeems = 0 \/ handoff'[g].redeems = handoff[g].redeems
      BY <1>0, <1>1 DEF IssueHandoff
    <2> QED
      BY <1>0, <1>1, <2>1, <2>2, <2>3 DEF IssueHandoff, HandoffInv
  <1>2. ASSUME NEW h \in Handoffs, ConsumeHandoff(h)
        PROVE  /\ HandoffInv'
               /\ \A g \in Handoffs : handoff'[g].redeems > handoff[g].redeems =>
                    handoff[g].redeems = 0 /\ handoff[g].age <= HandoffLimit
    <2>1. PICK redeemed \in {0, 1} :
            handoff' = [handoff EXCEPT ![h] = [age |-> handoff[h].age, marked |-> TRUE,
                                               redeems |-> handoff[h].redeems + redeemed]]
      BY <1>2 DEF ConsumeHandoff
    <2>2. handoff[h].redeems = 0 /\ handoff[h].age <= HandoffLimit
      BY <1>0, <1>2 DEF ConsumeHandoff, Consumable
    <2> DEFINE new == [age |-> handoff[h].age, marked |-> TRUE, redeems |-> handoff[h].redeems + redeemed]
    <2>3. new \in HandoffType /\ new.marked
      BY <1>0, <2>2 DEF HandoffType
    <2>4. handoff' = [handoff EXCEPT ![h] = new]
      BY <2>1
    <2>5. \A g \in Handoffs : handoff[g].redeems \in {0, 1}
      BY <1>0 DEF HandoffType
    <2> HIDE DEF new
    <2> QED
      BY <1>0, <2>2, <2>3, <2>4, <2>5 DEF HandoffInv
  <1>3. CASE SessionsTick
    <2>1. ASSUME NEW h \in Handoffs
          PROVE  /\ handoff'[h] \in HandoffType /\ handoff'[h].marked = handoff[h].marked
                 /\ handoff'[h].redeems = handoff[h].redeems /\ handoff[h].redeems \in {0, 1}
      <3>1. handoff[h] \in HandoffType
        BY <1>0
      <3>2. CASE handoff[h].age = NotYet
        BY <1>3, <3>1, <3>2 DEF SessionsTick, HandoffType
      <3>3. CASE handoff[h].age # NotYet
        <4>1. handoff'[h] = [handoff[h] EXCEPT !.age = OneOlder(@, HandoffLimit + 1)]
          BY <1>3, <3>3 DEF SessionsTick
        <4>2. OneOlder(handoff[h].age, HandoffLimit + 1) \in 0..(HandoffLimit + 1)
          BY <3>1, <3>3 DEF HandoffType, OneOlder
        <4> QED
          BY <3>1, <4>1, <4>2 DEF HandoffType
      <3> QED
        BY <3>2, <3>3
    <2>2. handoff' \in [Handoffs -> HandoffType]
      BY <1>3, <2>1 DEF SessionsTick
    <2> QED
      BY <1>0, <2>1, <2>2 DEF HandoffInv
  <1>4. CASE UNCHANGED handoff
    <2>1. \A h \in Handoffs : handoff[h].redeems \in {0, 1}
      BY <1>0 DEF HandoffType
    <2> QED
      BY <1>0, <1>4, <2>1 DEF HandoffInv
  <1> QED
    BY <1>1, <1>2, <1>3, <1>4
       DEF SessionsNext, sessionVars, Login, Admit, Peek, Expire, RevokeOne, RevokeOthers, Suspend, SetRoles,
           Reactivate, Reconfigure, Purge

-----------------------------------------------------------------------------
(* Theorems                                                                *)

SessionsInv == RowsInv /\ CapInv /\ HandoffInv

LEMMA SessionsStart == SessionsInit => SessionsInv
  <1> SUFFICES ASSUME SessionsInit PROVE SessionsInv
    OBVIOUS
  <1>1. RowsInv
    BY EndedFacts, EndedIsSound DEF SessionsInit, RowsInv, UserType
  <1>2. CapInv
    <2>1. Listed = {}
      BY DEF SessionsInit, Listed, Alive, NoRow
    <2> QED
      BY <2>1, FS_EmptySet DEF CapInv
  <1>3. HandoffInv
    BY DEF SessionsInit, HandoffInv, HandoffType
  <1> QED
    BY <1>1, <1>2, <1>3 DEF SessionsInv

LEMMA SessionsStep == SessionsInv /\ [SessionsNext]_sessionVars => SessionsInv'
  BY RowsStep, CapStep, HandoffStep DEF SessionsInv

LEMMA SessionsInvariant == SessionsSpec => []SessionsInv
  BY SessionsStart, SessionsStep, PTL DEF SessionsSpec

\* create_portal_session, authenticate_portal_session and update_user: for any
\* cap and any throttle, the sessions that would be admitted are at most the
\* cap, none survives the loss of a role, whatever the list of admins becomes,
\* and no use of a session is forgotten for longer than the throttle.
THEOREM SessionsSound == SessionsSpec => []LiveSessionsSound
  <1>1. SessionsInv => LiveSessionsSound
    <2> SUFFICES ASSUME SessionsInv PROVE LiveSessionsSound
      OBVIOUS
    <2>1. \A r \in Alive : row[r].seen - row[r].used < Throttle /\ row[r].roles \in {user.roles, "teacher"}
      BY LiveFacts DEF SessionsInv
    <2> QED
      BY <2>1 DEF SessionsInv, CapInv, LiveSessionsSound, Listed
  <1> QED
    BY <1>1, SessionsInvariant, PTL

Promised(r) ==
    CASE row'[r].why = "session_limit" ->
            /\ Cardinality(Listed) >= SessionCap
            /\ \A s \in Listed : row'[s].kind = "live" => row[s].seen <= row[r].seen
      [] row'[r].why = "expired" -> row[r].used > IdleLimit - Throttle \/ row[r].life >= AbsoluteLimit
      [] OTHER -> TRUE

Deletable(r) ==
    CASE r \in RevokedRows -> row[r].dead > Retention
      [] OTHER -> \/ row[r].life > AbsoluteLimit + Retention
                  \/ row[r].used > IdleLimit + Retention - Throttle

\* A row that has not changed, or was only used, ends in no way.
LEMMA NothingEnds ==
    ASSUME NEW r \in Rows, row'[r] = row[r] \/ (r \in Alive /\ row'[r].kind = "live")
    PROVE  /\ r \in Alive => row'[r].kind # "revoked"
           /\ r \in RevokedRows => row'[r].kind # "live"
           /\ r \in Alive \cup RevokedRows => row'[r] # NoRow
  BY DEF Alive, RevokedRows, NoRow

LEMMA RowsEndAsPromised ==
    ASSUME RowsInv, CapInv, SessionsNext, NEW r \in Rows
    PROVE  /\ r \in Alive /\ row'[r].kind = "revoked" => Promised(r)
           /\ r \in RevokedRows => row'[r].kind # "live"
           /\ r \in Alive \cup RevokedRows /\ row'[r] = NoRow => Deletable(r)
  <1>0. row \in [Rows -> RowType]
    BY DEF RowsInv
  <1>1. ASSUME NEW q \in Rows, Login(q)
        PROVE  /\ r \in Alive /\ row'[r].kind = "revoked" => Promised(r)
               /\ r \in RevokedRows => row'[r].kind # "live"
               /\ r \in Alive \cup RevokedRows => row'[r] # NoRow
    <2>1. PICK out \in SUBSET Listed :
            /\ Evictable(out)
            /\ row' = [s \in Rows |-> CASE s = q -> NewRow(RolesAtLogin)
                                        [] s \in out -> Revoked("session_limit")
                                        [] OTHER -> row[s]]
      BY <1>1 DEF Login
    <2>2. q \notin Alive /\ q \notin RevokedRows /\ q \notin out
      BY <1>1 DEF Login, Alive, RevokedRows, NoRow, Listed
    <2>3. CASE r = q
      BY <2>2, <2>3
    <2>4. CASE r # q /\ r \notin out
      BY <2>1, <2>4, NothingEnds
    <2>5. CASE r # q /\ r \in out
      <3>1. row'[r] = Revoked("session_limit") /\ r \in Alive /\ r \notin RevokedRows
        BY <2>1, <2>5 DEF Listed, Alive, RevokedRows
      <3>2. Cardinality(Listed) >= SessionCap
        BY <2>1, <2>5, RoomMade
      <3>3. ASSUME NEW s \in Listed, row'[s].kind = "live" PROVE row[s].seen <= row[r].seen
        <4>1. s \notin out
          BY <2>1, <2>2, <3>3 DEF Revoked, Listed, Alive
        <4>2. Before(r, s)
          BY <2>1, <2>5, <4>1 DEF Evictable
        <4>3. row[r].seen \in Nat /\ row[s].seen \in Nat
          BY <3>1, LiveFacts DEF Listed, SeenCap
        <4> QED
          BY <4>2, <4>3 DEF Before
      <3> QED
        BY <3>1, <3>2, <3>3, EndedFacts DEF Promised, NoRow
    <2> QED
      BY <2>3, <2>4, <2>5
  <1>2. ASSUME NEW q \in Rows, Admit(q)
        PROVE  row'[r] = row[r] \/ (r \in Alive /\ row'[r].kind = "live")
    BY <1>0, <1>2, TouchedFacts DEF Admit, Known
  <1>3. ASSUME NEW q \in Rows, Expire(q)
        PROVE  /\ r \in Alive /\ row'[r].kind = "revoked" => Promised(r)
               /\ r \in RevokedRows => row'[r].kind # "live"
               /\ r \in Alive \cup RevokedRows => row'[r] # NoRow
    <2>1. CASE r # q
      BY <1>0, <1>3, <2>1, NothingEnds DEF Expire
    <2>2. CASE r = q
      <3>1. row'[r] = Revoked("expired") /\ r \in Alive /\ ~Current(r)
        BY <1>0, <1>3, <2>2 DEF Expire, Known
      <3>2. row[r].used > IdleLimit - Throttle \/ row[r].life >= AbsoluteLimit
        BY <3>1, LiveFacts DEF Current, SeenCap, LifeCap
      <3> QED
        BY <3>1, <3>2, EndedFacts DEF Promised, NoRow, RevokedRows, Alive
    <2> QED
      BY <2>1, <2>2
  <1>4. ASSUME row'[r] = Revoked("user"), r \in Alive
        PROVE  /\ r \in Alive /\ row'[r].kind = "revoked" => Promised(r)
               /\ r \in RevokedRows => row'[r].kind # "live"
               /\ r \in Alive \cup RevokedRows => row'[r] # NoRow
    BY <1>4, EndedFacts DEF Promised, NoRow
  <1>5. ASSUME NEW q \in Rows, NEW target \in Rows, RevokeOne(q, target)
        PROVE  \/ row'[r] = row[r] \/ (r \in Alive /\ row'[r].kind = "live")
               \/ row'[r] = Revoked("user") /\ r \in Alive
    BY <1>0, <1>5, TouchedFacts DEF RevokeOne, Known
  <1>6. ASSUME NEW q \in Rows, RevokeOthers(q)
        PROVE  \/ row'[r] = row[r] \/ (r \in Alive /\ row'[r].kind = "live")
               \/ row'[r] = Revoked("user") /\ r \in Alive
    BY <1>6, TouchedFacts DEF RevokeOthers, Known
  <1>7. ASSUME RevokesAll(Alive, "user")
        PROVE  row'[r] = row[r] \/ (row'[r] = Revoked("user") /\ r \in Alive)
    BY <1>7 DEF RevokesAll
  <1>8. CASE Purge
    <2>1. CASE r \in Alive \cup RevokedRows /\ Purgeable(r)
      <3>1. row'[r] = NoRow
        BY <1>8, <2>1 DEF Purge
      <3>2. r \in RevokedRows => row[r].dead > Retention
        BY <2>1 DEF Purgeable
      <3>3. ASSUME r \notin RevokedRows
            PROVE  \/ row[r].life > AbsoluteLimit + Retention
                   \/ row[r].used > IdleLimit + Retention - Throttle
        BY <2>1, <3>3, LiveFacts DEF Purgeable, SeenCap, LifeCap
      <3> QED
        BY <3>1, <3>2, <3>3 DEF Deletable, NoRow
    <2>2. CASE ~(r \in Alive \cup RevokedRows /\ Purgeable(r))
      BY <1>8, <2>2, NothingEnds DEF Purge
    <2> QED
      BY <2>1, <2>2
  <1>9. CASE SessionsTick
    <2>1. row'[r] = AgedRow(r) /\ AgedRow(r).kind = row[r].kind
      BY <1>9, AgedFacts DEF SessionsTick
    <2> QED
      BY <2>1 DEF Alive, RevokedRows, NoRow
  <1>10. CASE UNCHANGED row
    BY <1>10, NothingEnds
  <1> QED
    <2>1. CASE \E q \in Rows : Login(q) \/ Expire(q)
      BY <1>1, <1>3, <2>1
    <2>2. CASE \/ \E q \in Rows : Admit(q) \/ RevokeOthers(q)
               \/ \E q, target \in Rows : RevokeOne(q, target)
      BY <1>2, <1>4, <1>5, <1>6, <2>2, NothingEnds
    <2>3. CASE Suspend \/ \E roles \in {"teacher", "admin"} : SetRoles(roles)
      BY <1>4, <1>7, <2>3, NothingEnds DEF Suspend, SetRoles
    <2>4. CASE Reactivate \/ Reconfigure \/ \E q \in Rows : Peek(q)
      BY <1>10, <2>4 DEF Reactivate, Reconfigure, Peek, sessionVars
    <2>5. CASE \E h \in Handoffs : IssueHandoff(h) \/ ConsumeHandoff(h)
      BY <1>10, <2>5 DEF IssueHandoff, ConsumeHandoff
    <2> QED
      BY <1>8, <1>9, <2>1, <2>2, <2>3, <2>4, <2>5 DEF SessionsNext

\* create_portal_session, authenticate_portal_session, the nightly deletion and
\* consume_token: whatever the cap, the limits and the throttle, a session ends
\* only for the reason it was promised, never comes back, and a handoff token
\* redeems at most once.
THEOREM EndsAsPromised == SessionsSpec => LoginsEndAsPromised
  <1>1. SessionsInv /\ [SessionsNext]_sessionVars =>
          [/\ \A r \in Alive : row'[r].kind = "revoked" => Promised(r)
           /\ \A r \in RevokedRows : row'[r].kind # "live"
           /\ \A r \in Alive \cup RevokedRows : row'[r] = NoRow => Deletable(r)
           /\ \A h \in Handoffs : handoff'[h].redeems > handoff[h].redeems =>
                handoff[h].redeems = 0 /\ handoff[h].age <= HandoffLimit]_sessionVars
    <2> SUFFICES ASSUME SessionsInv, SessionsNext
                 PROVE  /\ \A r \in Alive : row'[r].kind = "revoked" => Promised(r)
                        /\ \A r \in RevokedRows : row'[r].kind # "live"
                        /\ \A r \in Alive \cup RevokedRows : row'[r] = NoRow => Deletable(r)
                        /\ \A h \in Handoffs : handoff'[h].redeems > handoff[h].redeems =>
                             handoff[h].redeems = 0 /\ handoff[h].age <= HandoffLimit
      OBVIOUS
    <2>1. Alive \subseteq Rows /\ RevokedRows \subseteq Rows
      BY DEF Alive, RevokedRows
    <2>2. RowsInv /\ CapInv /\ HandoffInv
      BY DEF SessionsInv
    <2> QED
      BY <2>1, <2>2, RowsEndAsPromised, HandoffStep
  <1> QED
    BY <1>1, SessionsInvariant, PTL DEF SessionsSpec, LoginsEndAsPromised, Promised, Deletable
=============================================================================
