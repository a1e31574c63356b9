# Verification of the Vans Coding Router

TLA+ modules for the router under `src/`, the TLC configurations that check them
on small instances, and TLAPS proofs of what matters most for every instance.

The router is a FastAPI service that gives the students of a class access to
OpenAI-compatible providers: they redeem an invite code for a `vcr_sk_` key and
call `/v1/*`; the router picks a provider, one of the provider's API keys and a
concurrency slot on it, and forwards the call. It runs as one uvicorn process
(`Dockerfile`, `fly.toml`): everything shares one asyncio event loop, so code
between two awaits is atomic and the hard behaviour is at the awaits. The
repository calls are synchronous and run on that loop; only the archiving and
purging of prompt logs run in a thread. A second, separate part is the lobby: a
chat room in which a host lets agents speak in turns over websockets.

## Inventory

Paths are relative to `src/src/`. "Hard" names what makes the component hard to
test; the lines are under `hazards` in `PROJECT.json`.

| Component | State | Operations | Hard | Correct when |
|---|---|---|---|---|
| Upstream key pool (`infrastructure/gateways/upstream_key_pool.py`) | in-flight counters, quarantine deadlines, last key, waiting count, an `asyncio.Condition` | acquire (waiting or not), release, quarantine, quarantine release, status | cancellation at every await, a timeout racing a notification, newcomers overtaking woken waiters | counters equal real holders, the cap holds, no wake-up is lost |
| Key failover (`openai_compatible_gateway.py` `_request`, `_stream`) | the keys tried by each request | acquire excluding tried keys, call, quarantine, release, go round | unbounded loop over keys whose quarantines end meanwhile | no key is called twice, every exit releases, every request ends |
| vcr-auto walk (`application/vcr_auto_walk.py`, `routing_gateway.py`) | place on the shelf, reasons met so far | first pass without queueing, second pass queueing, leases for realtime | several pools with different orders, streams that break after output | holds at most one slot and none while waiting, queues only when all were full, output ends the walk |
| Gateway figures (`openai_compatible_gateway.py`, `copilot_compat.py`) | four caches: monthly usage, credit, monthly limit, what an Ollama model can do | read, ask the upstream, keep, expire | readers that miss together, an answer that outlives the figure it replaces | a figure shown from a cache is not older than it promises |
| vcr-auto selection, Auto Tiers (`application/vcr_auto_selector.py`, `vcr_auto_selection_memory.py`, `domain/vcr_auto.py`, `auto_tier.py`) | selection memory, tier configuration | choose a tier with a model call, fall back, forget | timeout of the selecting call, memory that outlives a change of configuration | the walk gets the tiers of the document as it is now; a chosen tier comes first |
| API use case and router (`application/use_cases/api_use_case.py`, `presentation/fastapi/routers/api_router.py`, `streaming.py`) | none but what a call remembers between awaits | authenticate, resolve model, forward, log, record token usage | streams opened late or abandoned, a key or document that changes meanwhile | every served call is authorised, logged and counted |
| Realtime proxy (`infrastructure/gateways/realtime_proxy.py`) | two pumps | forward both ways, close | one side ends first | the session is logged once |
| Classes, sessions, invites, API keys (`infrastructure/repositories/router_repository_base.py`) | tables | create and end a Class Session, redeem, nickname, suspend, issue, verify and revoke keys | expiry and suspension between check and use, the last seat | a valid key belongs to an active member of a live session; seats are not oversold |
| Portal sessions, handoff tokens (same file, `portal_use_case.py`, `extension_handoff.py`) | table, cap per user; nonces | log in, be admitted, refresh, list, revoke, purge; issue and consume a token | the cap, throttled activity against two expiries, a purge in between | a session ends only as promised, and never comes back; a token redeems once |
| Release of a quarantine (`portal_use_case.py`) | last agent release in memory, audits | request, reserve, release, audit | requests that wait for the pool's lock together, a restart, an audit that fails | agents release a key once per cooldown |
| Model documents (`domain/session_model_allowlist.py`, `model_shelf.py`, `auto_tier_save_check.py`, `portal_use_case.py`) | template, the sittings' documents | save, upload, edit by allowlist, create from template, backfill | a read, a check and a write in three steps | what is stored is normalised, and its tiers are usable |
| Prompt logs, archive, Token Usage (`router_repository_base.py`, `sqlite_` and `postgres_router_repository.py`, `jobs/log_archive_job.py`) | live rows, archive files, usage rows | record, archive in batches, purge, clear, delete with a user, upgrade | a thread against the loop, a crash or failure between two commits, an upgrade that stops half-way | no row is lost or counted twice, a deleted user's rows do not come back |
| Upstream model catalog (`application/upstream_model_catalog.py`) | snapshot per provider and kind | fill, retry, publish, stop | retries against the budget, a stop during a round | readers keep the last list that was answered |
| Lobby room (`infrastructure/lobby/room.py`) | members, connections, queue, speaker, two task handles | join, rejoin, leave, say, done, start, pause, shut down, gap, timeout | coroutines that cancel and await each other between sends, a restart | one watched turn at a time, the index of connections is right, nobody waits for ever |
| Lobby host, hub, registry, storage (`application/use_cases/lobby_use_case.py`, `infrastructure/lobby/`) | rooms, sockets, files | create, configure, start, broadcast, delete | deletion while a send is suspended | a deleted room is silent |
| OAuth, web search, logging, configuration, installers, course catalog | a window per key; none | limit, write, generate | window edges | limit per window |

How they interact. `api_router` authenticates with the repository, asks
`ApiUseCase`, which for `vcr-auto` runs the walk over `RoutingGateway`; each
provider's `OpenAICompatibleGateway` loops over its `UpstreamKeyPool`. A stream
keeps its slot until the response generator is closed; a realtime session keeps
it from the lease until the websocket ends. The lobby talks to a room only
through its `Room` object, shared by the websocket loops, the host's HTTP
requests and the room's own gap and timeout tasks.

## Modules

| Module | Models | Kind |
|---|---|---|
| `KeySlots` | what a pool promises: one semaphore per key | abstract specification |
| `UpstreamKeyPool` | the pool with its condition | component |
| `KeyFailover` | the gateway loop; EXTENDS the pool and calls its operations | composition |
| `VcrAutoWalk` | the walk over the pools of several providers, EXTENDS `KeySlots` | composition |
| `LobbyMembers` | members, names, connections and the index | component |
| `LobbyRoom` | turns and tasks; EXTENDS `LobbyMembers` | component |
| `ClassroomKeys` | sittings, invites, seats, members and keys, over one or several servers | component |
| `ApiCalls` | a call from its key to the rows it leaves, with the vcr-auto selection | component |
| `PromptLogs` | logs, archive, Token Usage and the upgrade | component |
| `PortalSessions` | one user's sessions, and handoff tokens | component |
| `QuarantineRelease` | the release of one key by teachers and agents | component |
| `ModelDocuments` | template and sittings' documents, normalising and saving | component, with the pure functions of `domain/` |
| `Arrangements` | parts and reorderings of a sequence, for the two above | operators |
| `UpstreamFigures` | the gateway's cached figures | component |
| `UpstreamModelCatalog` | rounds of fetches | component |
| `UpstreamKeyPoolProofs`, `KeyFailoverProofs`, `ClassroomKeysProofs`, `VcrAutoWalkProofs`, `PromptLogsProofs`, `LobbyRoomProofs` | theorems of one component each | proofs |
| `RouterMemoryProofs` | theorems of figures, catalog, releases and Portal Sessions | proofs |
| `ServicesProofs` | theorems of calls and model documents, and of the parts together | proofs |
| `MC...` | constants and initial states of the runs | model checking |

**UpstreamKeyPool.** One action per stretch of code between awaits. `queue` and
`woken` are asyncio's condition: `notify` completes the first future, the task
runs later (`Runs`), and `AcquireTakes` of a newcomer may come between.
`LeavesWaiting` is the `finally` of the wait; `LeaveWait` re-notifies as
`Condition.wait` does when it is left by an exception while already notified.
`StartRelease` and `ReleaseLocked` are the two halves of the shielded release.
`inFlight`, `quarantined`, `lastAcquired`, `waiting` are the fields of the same
names; `st`, `key`, `excl`, `expired` are the locals of each caller. Time is a
choice: a queue deadline or a quarantine may end at any moment.

**KeyFailover.** `Attempt` is a round of the loop, `InAcquire` what the pool does
for a queued request, `UpstreamAnswers` and `UpstreamExhausted` the two ends of
a call, `FailsOver` the release before the next round, `Cancel` a cancellation
at any await. The actions are conjunctions of the pool's own actions and the
loop's locals, so the composition is a step-by-step use of the pool.

**VcrAutoWalk.** The pools are those of `KeySlots`, justified by
`ImplementsKeySlots`: a pool's choice of a key and of whom to wake is left open,
which is more than the code does. Both passes, the inner failover, streams before
and after their first chunk, realtime leases and cancellations are actions. A request
cancelled while it awaits something unwinds through every `finally` (`Cancel`). A stream that
is left at a yield does not: `AclosingStreamingResponse` closes the outermost generator,
and neither `_chat_stream_vcr_auto` (`api_use_case.py:776`) nor `VcrAutoWalk.stream` closes
the one it iterates. `Abandons` ends such a request with its slot still held, `Finalizes`
is the event loop closing the forgotten generators, some time later.

**LobbyMembers.** A member is its serial number. `Enter` is the bookkeeping that
joining and rejoining share in `handle_join`; `agentOf` is the agent id of the websocket
loop, which the loop sets on its own, later. `Leave` is the membership part of
`disconnect`. The code keeps the id of a closed connection in an offline member and never
finds it again; the model drops it, so that a connection of the model can stand for several
in turn.

**LobbyRoom.** A join is `Joins` (`handle_join` has changed the room, the reply is being
sent), then `ReplyArrives` (the loop takes its room and its agent id) or `ReplyFails`. In
between other joins may take the member over. When the reply cannot be sent, a loop that had
joined before leaves the room with its connection; one that had not leaves without
`disconnect`, since it knows no room yet: the connection is "lost" and its
member stays online until its token joins again, or a restart. No action brings a
lost connection back. asyncio is cooperative, and the model says so: `running` is the
coroutine between two awaits, and an action of any other is disabled until it
suspends (`Suspends`, `CancelThen`) or returns. Awaits that matter are sends
(`emit_all`: any number of other steps may come in between, or none) and
`_cancel_gap` / `_cancel_timeout`, which cancel a task and await it. `cancelled`
holds the tasks with a CancelledError on its way, `awaits` who awaits whom.
Three facts of asyncio are modelled because they decide what happens:
a cancellation of a task that awaits another task goes to that task, and the
`except CancelledError: pass` around the await swallows it; a task that cancels
and awaits itself (a gap task inside `grant_turn`) gets its own CancelledError one
cycle later and goes on; and whoever awaits it in that cycle gets a RuntimeError
("await wasn't used with future", C implementation of `asyncio.Task`), which
nobody catches: a websocket loop then closes its connection (`MustLeave`), a task
or a request just ends (`failed`), and the error passes to whoever awaits it.
A handle whose task is done is `None`, because the code only ever asks for that.
`Restarts` ends everything in memory and loads the room again: `discussion_started`
survives, the turn does not.

**ClassroomKeys.** The tables are variables: `status` is `users.status`, `open` the
classes with status active, `sitting` is `class_sessions`, `redeemed` is
`session_redemptions`, `members` is `class_members`, `keys` is `api_keys` with a
session. Every other operation is one transaction and one action. A redeem is taken
statement by statement, because it is two transactions: `BeginRedeem` (the invite is
read), `LockSitting` (the row lock, then the checks under it), `CommitSeat` (inserts
and commit), `ReadForKey` and `WriteKey` (`issue_session_key`); `req` is what the
handler remembers. With one server nothing else runs in between, since the repository
is synchronous on the event loop; that is how the service is deployed
(`guide/DEPLOYMENT.md:152`: `fly scale count 1`). The `FOR UPDATE` and the savepoint
around a new nickname are for several servers on one Postgres (READ COMMITTED), where
anything may run in between: `fleet` is chosen initially, and a property that needs one
server says so (`OneServer`). SQLite has one writer at a time, so its behaviours are
among those of one server. A crash rolls the open transaction back and keeps the committed
one; `Restart` runs the backfill. An update of the sitting's row waits for the lock
(`RowLocked`), and so does a backfill that would change it. The clock only moves between
statements, and the comparisons (`>=` at the expiry, `<` at the start) are the code's.
A Google user is known before redeeming; a nickname is `"absent"` until its first redeem.

**ApiCalls.** An endpoint is a record: its shelf, whether it may stream, where its
model is checked (`ApiUseCase` checks again what the middleware or the router has
checked) and when it is logged. A call holds what the handler holds: the shelf it
was given, the walk left to try, whether it was served. `Recalls`, `Remembers` and `Selected` are the
selection and its memory, whose key (`MemoryKey`) is the question and the
tiers' edition; `TierOrderedWalk` is the order the tiers give. Writing is two rows with a
verification of the key before them (`Writes`), each of which may fail
(`MaxFaults`); teachers save documents, choices and switches in between (`MaxEdits`).
How the walk gets a slot is left to `VcrAutoWalk`.

**PromptLogs.** Two threads, the nightly job and the event loop, each with its place
(`at`) in archiving, purging, clearing and deleting. On SQLite the rows are copied one
by one, each with a commit, and deleted in another, and a sweep goes file by file; on Postgres a
batch and a sweep are one statement each, of which the read comes first (`Select`). `Fails`
ends a thread's work with an exception, `Crash` the process; nothing restarts the
job's loop after an exception (`"dead"`). `Upgrade` and `Backfill` start the version
with `token_usage` on the old one's data: one transaction on Postgres, but
`executescript` commits the table alone on SQLite. `forgotten`, `spared`, `removed`,
`disturbed` and `lost` are history: which promises a deletion, a break or a crash has
already excused.

**PortalSessions.** Instants are ages, cut off beyond every limit. `Admit` is
`authenticate_portal_session` with its throttled refresh, `Peek` the websocket's without;
`Login` revokes the sessions seen longest ago above the cap; `RevokeOne`,
`RevokeOthers`, `Suspend` and `SetRoles` are the ways to end one, `Purge` the nightly
job. `Reconfigure` is a restart with another list of `admin_emails`: the sessions are stored,
and the next login of an admin adds roles that older sessions did not have at theirs; no
session outlives the loss of one. The nonce of a handoff token is stored before the redemption it was consumed for.

**QuarantineRelease.** `reserved` is `_agent_quarantine_release_at`, written before
the request waits for the pool's lock (`Request`), written again when it has released
(`Release`), taken back when it fails (`ReleaseFails`, `Forget`). `Restart` leaves
only the audits, which may be missing.

**UpstreamFigures** and **UpstreamModelCatalog.** The first keeps a clock read before
the fetch and stamps the answer with it; four caches of the same shape are one
model. The second runs rounds of concurrent fetches with retry delays inside
`Budget` and publishes when the last has ended. In it timers fire when they are due.

**ModelDocuments.** The pure functions of `domain/` are operators on documents
(`Normalized`, `Filtered`, `TiersAllowed`, `Accepts`, `Uploaded`); an edit is a read
and a check (`Begin...`), for an allowlist one more read (`ReadToFilter`), and `Write`. A PATCH with
both a document and an allowlist is modelled as the code does it: the document wins.

## Runs

| Run | Instance | States | Shows |
|---|---|---|---|
| `pool_wakeups` | 4 callers with any exclusions, 2 keys of 1 slot, delay, expiring quarantine | 43 k | accounting, cap, no lost wake-up, refinement of `KeySlots` |
| `key_failover` | 3 requests (one does not queue), 2 keys of 1 slot, quarantines that end | about 80 s | refinement of the pool, no key twice, every request ends |
| `deserted_waiter` | 1 key, 3 requests | counterexample | finding: the exhausted pool wakes one waiter only |
| `vcr_auto_walk` | a call, a stream and a lease over three providers, three keys | 150 k | passes, refusals, no hold-and-wait, every walk ends and its slot comes back |
| `classroom_keys` | one or two servers, a Google user and a nickname, one sitting with limit 1 or 2, instants 0 to 2 | 206 k | seats, membership, expiry, backfill, suspension, and every redeem ends |
| `disabled_keys` | one server, the same users | counterexample | finding: a disabled key is enabled again |
| `records` | two calls of one user in two years, one of them successful, both databases, one failure or crash | 484 k | no row lost, archived or counted twice unnoticed, deletions final, due rows leave |
| `services` | the components that share no state, each in a scene (below) | 533 k | calls, sessions, tokens, releases, figures, catalog, documents |
| `uncounted_call` | the calls of `services` | counterexample | finding: a call served in full leaves no Token Usage |
| `lobby_turns` | two members online, or one and a free name; both gaps (zero or not), a mention in the queue, pausing, take-overs, one deletion | 3.2 M | the speaker is watched, awaited tasks end, the index of connections |
| `lobby_names` | one member joined, second name free | counterexample | finding: two members online share a name |
| `lobby_active` | two members online, a restart | counterexample | finding: an active room that never grants a turn again |

Bounds and why they suffice.
*Pool:* two keys are the least with a choice and a tie; one slot per key makes
every release matter; four callers let two hold while two queue, which is the
least for a notification to be passed on. `NoLostWakeup` excuses the step of a caller that
excludes keys and finds none it may take: such a waiter may legitimately sleep beside a
slot it must not use. *Failover:* three requests on two keys allow a holder, a
waiter and a newcomer; `tried` bounds the rounds by itself. *Walk:* one provider
with two keys, one with one, one without a pool; the call and the stream order
them oppositely. *Keys:* two
servers are the least for a race for the last seat (limit 1, two users) and for a
redeem of the same user twice at once; `Horizon = 1` lets a sitting start now or
later and end before, at or after the clock's last instant, and `Times` reaches one
instant beyond it, so that a key can outlive the run; the class ends there too. Two
sittings of one class with one nickname, which race for its row under different locks,
were checked by hand with the same result (409 k states). `CHECK_DEADLOCK FALSE`
because the clock stops at the horizon. *Logs:* two calls in
two years are a batch with a half-copied state and two archive files; one user is enough
for a deletion against an archiver; one cut is enough for each place to fail or crash at.
Batches of one row, and two users, were checked by hand with the same result (465 k and 492 k states); the proofs hold for any. *Services:*
`calls` has two calls of chat and realtime at once with tiers, selection and one edit;
`endpoints` one call at a time of each of the eight endpoints over the three documents; `sessions` three
rows under a cap of two, with limits 2, 3 and 4, where every age differs; `handoffs` a
token; `release` three requests with a cooldown of two; `figures` two readers of two
figures; `catalog` two kinds and two rounds with two retries; `documents` one
sitting, two editors and five documents. Components in different scenes share no
variable, so a run of one at a time loses nothing. The clock stops nowhere, but rounds
and edits do: `CHECK_DEADLOCK FALSE`. *Lobby:* `MaxMembers` and connections 2, so that a take-over and a
successor both exist; `MaxUnderWay = 2` bounds the handlers and tasks that are past
their start or sleep at the same time, which is the overlap the hazards need (the
theorems hold for any);
`GapTasks` and `TurnTasks` of two tasks each bound the sleepers, and a coroutine
that would create a third waits in the model (`SleepsTheGap`, `StartsClock`). That cuts
behaviours, so no liveness is claimed of the lobby; for larger instances there are the
theorems. `CHECK_DEADLOCK FALSE` in the lobby
runs: a removed room stops. `StartBounds` explores a deletion with one timer of each kind
and the turns with two but without a deletion. Symmetry is only over the gap tasks and the timeout
tasks, which are interchangeable, and only in runs without liveness.

Fairness. `FairFailoverSpec` and `WalkSpec` assume that the event loop runs what
is ready, that `asyncio.wait_for` delivers the queue timeout, and that the HTTP
client's timeout ends every upstream call (`WF` of each request's own step). For a stream
left at a yield it assumes that its generators are finalized at some time: asyncio's hook
closes a generator once nothing refers to it, which is all the code relies on there.
Nobody is assumed to cancel, to exhaust a key, to end a quarantine or to hang up.
`FairSpec` of `ClassroomKeys` assumes that a handler runs on (`WF`) and that a request
waiting for a row lock gets it when it becomes free again and again (`SF` of
`LockSitting`): Postgres grants a row lock in the order of arrival. Crashes may go on
for ever; a crash also ends the redeem. `LogsSpec` assumes that the job's thread goes
on and its daily wait ends (`WF` of `ArchiveStep(Job)`) and that a start-up fills
`token_usage` (`WF` of `Backfill`); nothing is assumed of the portal's requests.

## Findings

* `deserted_waiter` (`upstream_key_pool.py:205`): a waiter woken by the release of the
  last key, just quarantined, fails and does not pass the wake-up on; the others
  sleep until their queue timeout and are told "busy".
* `lobby_names` (`room.py:102`): a rejoin by token skips the check of the display name.
* `lobby_active` (`room.py:273`): the chain of turns is only continued by the end of a
  turn. It breaks for good when the server restarts, when the member about to be granted has left, when a turn
  ends while the room is paused, or when everybody has left once; starting again is
  refused, and the room is listed as active.
* `disabled_keys` (`router_repository_base.py:917`): ADR 0005 calls the keys of a suspended
  user permanently disabled; a redeem after the reactivation enables the very same key
  again, because a session key is computed from the session and the user.
* `uncounted_call` (`api_use_case.py:1286`): the key is verified once more when a call
  is logged; a call served in full whose key lapsed meanwhile is logged as rejected and
  leaves no Token Usage, though ADR 0040 says that each successful call writes a row.

Not claimed as findings, since the repository promises nothing about them, but
visible in the models: two grants may overlap (the host's, while it sends, and a
gap's), leaving a stray timeout task; a coroutine that suspended before a deletion
goes on with the turns of the removed room; a member that joins twice on one
connection stays online for ever; and the RuntimeError above.
With several servers, a suspension between the two transactions of a redeem leaves an
enabled key behind, and an expiry moved between the SELECT and the UPDATE of
`issue_session_key` leaves a key with the old one; `KeyFollowsSitting` and
`ReactivationRevivesNoKey` therefore claim nothing of several servers, which
the deployment does not use. (Verification is safe either way: it also looks at the
user's status and the sitting's own expiry.)

## Proofs

All theorems are over arbitrary constants that satisfy their module's assumption
(`PoolAssumption`: finitely many callers, at least one key, a natural cap;
`FailoverAssumption`, `WalkAssumption`, `RosterAssumption` and `CalendarAssumption`,
`LogsAssumption`, `SessionsAssumption`, `ReleaseAssumption`, `FiguresAssumption`,
`CatalogAssumption`, `RoomAssumption`: coroutines of different kinds are different; `ApiAssumption`
and `EndpointsAssumption`: the documents are normalised and the endpoints are among the eight of the
router; and `DocumentsAssumption`: what teachers bring is of the shape of a document, and the starter
is a plain one).

*The pool.* `PoolInv` is inductive: `SlotInv` (types; a caller has a key exactly when
it is in its delay, holding or releasing; `inFlight[k]` is the cardinality of `k`'s
holders; `inFlight[k] <= Cap`), `ArgTypes`, and `LineInv` (`queue` and `woken` are
disjoint, without repetition, and together the waiting callers; `waiting` is the sum
of their lengths). The cap needs the accounting, the accounting needs that a
release finds the key of its caller in the counter, and the waiting figure needs
that a caller is in one queue once: hence the conjunction. The lemmas `Lined...`
say what `Tail`, `Append`, `RemoveAt` and notification do to two such queues. From it:
`PoolTypeCorrect`, `PoolSlotsAccounted`, `PoolCapRespected`, `PoolWaitingAccounted`,
and `PoolImplementsKeySlots`, whose steps map to grants, returns, bars and stutters.
`PoolLosesNoWakeup` compares the free slots that sleepers are beside (`FreeSlots`, pairs of a key and
a place, counted as a set) with the callers already woken (`Attends`): a slot that becomes free
wakes a caller, a caller that leaves while woken wakes the next, and one that takes a slot takes
it out of the count. What remains is a caller that goes to sleep, which without exclusions it does
only when no slot is free (`SleepsBesideNone`), and a quarantine that runs out.

*The gateway.* `FailoverImplementsPool` shows that each step is a step of the pool or a
stutter, so the pool's theorems carry over (`FailoverSlotsAccounted`).
`FailoverNeverSameKeyTwice` adds `WaitersExcludeTried`: a queued request's `exclude`
argument is its set of tried keys, which only changes while it holds a slot. `FailoverLosesNoWakeup`
holds because the pool's theorem is for any exclusions.

*The keys.* Over any servers, users, classes and sittings that satisfy `RosterAssumption`
and `CalendarAssumption` (finitely many users, natural instants, positive limits).
`TypeOK` is inductive with `RedeemsCreated`: a redeem is only under way for a sitting
that exists. `KeyHoldersAreSeated` is then inductive relative to types, because it speaks of redeems in
their second transaction too. For the seats, `LockInv` says that at most one server
is past the lock of a sitting, and that its redeem was admitted under the limit that still
holds: the row lock keeps both the count and the limit still until the commit, from
which `NoSittingOversold` follows. For expiry, `EndInv` says that a sitting marked
ended has expired; hence `ServedSittingsAreActive`, and the backfill finds nothing
(`NothingBackfilled`), hence `RestartsMoveNoExpiry`. With one server, `FollowInv`
carries the expiry a redeem has read along with the sitting's, and `SuspendedInv` that an
inactive user has no enabled key and no redeem past its check; both rest on the
lemma `AloneAndFree`: when the only server is free, no redeem is under way.

*The walk.* Over any shelves, providers, pools and callers. The inductive invariant relates a
caller's place to the Model IDs it has passed: which were full, which exhausted, which had no
key. `QueuesLast` and `RefusalsExplained` are that relation; `HoldsNoSlotWaiting` needs
that a slot belongs to a caller that calls, fails over, streams, has abandoned its stream or
holds a lease; `StreamsStay` is a step property.

*The logs.* `Types` and `Shape` (a thread holds a batch only while it copies, on Postgres nothing
of it is copied before the statement, and whatever is archived has its file) carry four invariants,
which are inductive on top of them: `Covered` (what was copied is archived unless somebody deleted
the copy) gives `LogsSafe`; `Single` (undisturbed, a live row is archived only while one
archiver is about to delete it) gives `SinglyArchived`; `Counted`, which speaks of held
rows too, since an archiver will store them, gives `UsageCounted`; `Gone` (of what a
deletion has covered a copy is left only in a file it has yet to visit) gives `ErasedForGood`.

*Portal Sessions.* `RowsInv` is about one row at a time: a live row has no role its user
has lost, and its `last_seen_at` lags its last use by less than the throttle. `CapInv` needs that a login
takes out the surplus before it adds a session, a fact about cardinalities. `EndsAsPromised`
is a step property over both.

*Releases.* A recent release is remembered by the reservation or, when that is gone, by the
audit, unless the audit was lost (`ReleaseRemembered`); a waiting agent's reservation is its
own and younger than `LockLimit`, which is at most the cooldown, so no second agent is
admitted beside it (`WaiterReserved`).

*The calls.* `ApiInv` has types, what a call knows where it stands (`CallSound`: it has no rows before it
is over, its key lives unless it lapsed meanwhile, its walk is the text shelf of the document it
read), its rows (`RowsSound`) and `MemorySound`: a key of the memory that is not excused has been used
with the remembered tier only, and while somebody asks the selector for it nothing is remembered and
nobody else asks. The last is what makes a late answer of the selector harmless, and it needs the
excuse to be recorded when the second call starts to ask. `CallsCountedIfKept` and `SelectionIsSound`
follow. That a walk ordered by a tier is the whole shelf (`WalkIsShelf`) is a fact about
`Arranged`: places counted by predecessors under a strict total order are a bijection
(`ArrangedProperties`). `tier_ordered_walk` and the filters on documents are defined that way, and not
with the recursive operators on sequences, because a fact about those would need induction over data.

*The documents.* `DocumentsInv` says of every stored document, and of every document a request is about to
write, that it holds (`Holds`), and that the sitting whose document is about to be filtered has one.
The stored selector shelf carries the excuse for models the decisions list no longer shows, hence
`shown`. Normalising, filtering and uploading keep documents in shape (`NormalizedFacts`, `FilteredFacts`,
`UploadedTyped`). `ServicesAreTheirParts`: `MCServices` behaves as each of its parts says, so that
`ServicesTyped` and the rest hold of the run as it is checked.

*Figures and catalog.* A stamp is never younger than its fetch, hence `FiguresFresh`; a fetch's
deadline lies within the budget, hence `CatalogKept`.

*The lobby.* `IndexIsRight`: a take-over clears the entry of the connection it takes from, so the
index and `connOf` agree. That the loop speaks for the member of its entry (`Speaks`) needs more:
a connection that is answering its join keeps as target what the index says, and no other
coroutine's step makes a loop reply, or stop replying, being lost or having to leave (`Alone`). It rests on the invariants of the coroutines that follow. `AwaitsEnd`: `AwaitInv` says where a coroutine may await a task (`Waits`), that the
room's own gap task sleeps, runs on to its turn or waits for itself, that its timeout task
waits for no other timeout task, and that a gap task somebody else awaits has its
CancelledError on the way. So chains of awaits are short and have no cycle but a task's own,
which asyncio breaks. `TurnsAreTimed`: `Watched` says of a turn that a task or a coroutine is about
to revoke it or to start the clock (`Watches`), or that somebody who has cancelled that
task is on its way to end the turn or give it on (`Replaces`). It is inductive on top of `AwaitInv`,
since what such a coroutine awaits then ends without an error that would carry it away.

Every invariant and action property of a passing run is a theorem. Only model-checked: liveness
(`EveryRequestEnds`, `EveryWalkEnds`, `EveryRedeemEnds`, `DueRowsLeave`), which the prover does not
handle; and, of course, the five counterexamples. The models the theorems speak of are the
checked ones: no definition differs between a run and a proof.

## Plan

1. Done: the pool, the gateway loop, the walk, the keys, the logs, Portal Sessions,
   releases, figures, catalog, lobby, calls and documents, with proofs.
2. Left to prove: more about the steps of a call (that a row, once written, stays and that a call is
   counted at the moment it ends), and what an edit of a document may change.
3. Left to model: legacy personal keys, the web search limiter, the other forms of the portal.

## Not modelled

Formatting and wording of requests, responses, pages and logs, and the mapping of
errors to responses; the HTTP clients; SQL as such; metrics. The parsing of the upstream's reports is
"known or not". Of calls: the trackers that read token figures out of a stream, the web search and its limiter, the
two pumps of a realtime session. Of keys: creating classes and users, personal keys issued
without a holder, `last_used_at`. Of logins: the OAuth exchange and the signatures. The course catalog is
validated text. The pool's lock is never held as long as `LockLimit`: the code awaits
nothing long under it. The lobby's files are left out except for what they decide at a
restart; the admin websocket only watches. Of the sends of a websocket's
own loop only the reply to a join decides anything when it fails; a failure of the later ones is a
disconnection. Both are modelled, a "lost" connection never speaks again.
