---------------------------- MODULE VcrAutoWalk ----------------------------
(***************************************************************************)
(* VcrAutoWalk (application/vcr_auto_walk.py): a request for the model     *)
(* vcr-auto tries the Model IDs of its shelf from the top.  A Model ID is  *)
(* passed over when its provider's pool is full, has no selectable key, or *)
(* when Key Failover on it ended in exhaustion; when all of them were      *)
(* full, the request queues in the pool of the first.                      *)
(*                                                                         *)
(* The pools are those of KeySlots, one semaphore per key, which           *)
(* UpstreamKeyPool is shown to implement: owned[r] is the key whose slot   *)
(* the request r holds, barred the keys in Key Quarantine.  Which free key *)
(* a pool picks, and when it wakes a queued request, is left open here.    *)
(*                                                                         *)
(* A request is one of three sorts: a plain call (run), a stream (stream), *)
(* or the lease of a realtime slot (run over lease_realtime), whose answer *)
(* is the slot itself, kept until the session hangs up.                    *)
(*                                                                         *)
(* A stream is a chain of asynchronous generators and only the outermost   *)
(* one is closed with its request.  When that one is left at a yield, the  *)
(* request is over at once while the inner ones, and the slot with them,   *)
(* wait for the event loop to finalize them: the phase "abandoned".        *)
(***************************************************************************)
EXTENDS KeySlots, Sequences

CONSTANTS
    Streams,        \* the requests answered by a stream
    Leases,         \* the requests that lease a realtime slot
    Providers,
    Shelf,          \* the provider of each Model ID on a request's shelf, from the top
    KeysOf          \* the keys of each provider; with none it has no pool

ASSUME WalkAssumption ==
    /\ Streams \subseteq Callers /\ Leases \subseteq Callers \ Streams
    /\ Shelf \in [Callers -> Seq(Providers)]
    /\ Cap \in Nat /\ NoKey \notin Keys
    /\ Keys = UNION {KeysOf[p] : p \in Providers}
    /\ \A p, q \in Providers : p # q => KeysOf[p] \cap KeysOf[q] = {}

VARIABLES
    place,          \* the place on the shelf of the Model ID being tried
    skips,          \* why each Model ID above it was passed over
    waits,          \* wait_for_pool_slot: the request is on its second pass
    tried,          \* the keys that answered exhausted to this Model ID's call
    phase,          \* where the request stands
    outcome         \* how it ended, or "none"

walkVars == <<slotVars, place, skips, waits, tried, phase, outcome>>

-----------------------------------------------------------------------------

KeysHere(r) == KeysOf[Shelf[r][place[r]]]

Selectable(r) == KeysHere(r) \ (tried[r] \cup barred)

Free(r) == {k \in Selectable(r) : HasRoom(k)}

Trying(r) == phase[r] = "try" /\ place[r] <= Len(Shelf[r])

\* Mutant: one full pool is reason enough to queue.
SomeFull(r) == \E i \in 1 .. Len(skips[r]) : skips[r][i] = "full"

AllFull(r) ==
    /\ Shelf[r] # <<>> /\ Len(skips[r]) = Len(Shelf[r])
    /\ \A i \in 1 .. Len(Shelf[r]) : skips[r][i] = "full"

Passed(r, why) == \E i \in 1 .. Len(skips[r]) : skips[r][i] = why

GoesTo(r, ph) == phase' = [phase EXCEPT ![r] = ph]

Ends(r, how) ==
    /\ GoesTo(r, "done")
    /\ outcome' = [outcome EXCEPT ![r] = how]
    /\ UNCHANGED <<place, skips, waits, tried>>

KeepsPlace == UNCHANGED <<place, skips, waits, outcome>>

NoSlotMoves == UNCHANGED slotVars

\* The first pass goes on to the next Model ID.
PassesOver(r, why) ==
    /\ ~waits[r]
    /\ skips' = [skips EXCEPT ![r] = Append(@, why)]
    /\ place' = [place EXCEPT ![r] = @ + 1]
    /\ tried' = [tried EXCEPT ![r] = {}]
    /\ GoesTo(r, "try")
    /\ UNCHANGED <<waits, outcome>>

\* The Model ID's call ended in exhaustion: the first pass moves on, the second
\* raises it.
IsExhausted(r) ==
    \/ PassesOver(r, "exhausted")
    \/ waits[r] /\ Ends(r, "exhausted")

-----------------------------------------------------------------------------
(* Taking a slot                                                           *)

TakesSlot(r) ==
    /\ Trying(r) \/ phase[r] = "queued"
    /\ \E k \in Free(r) : Grant(r, k)
    /\ GoesTo(r, "calling")
    /\ KeepsPlace /\ UNCHANGED tried

PoolIsFull(r) ==
    /\ Trying(r)
    /\ Selectable(r) # {} /\ Free(r) = {}
    /\ PassesOver(r, "full")
    /\ NoSlotMoves

Queues(r) ==
    /\ Trying(r) /\ waits[r]
    /\ Selectable(r) # {} /\ Free(r) = {}
    /\ GoesTo(r, "queued")
    /\ KeepsPlace /\ UNCHANGED tried /\ NoSlotMoves

QueueTimesOut(r) ==
    /\ phase[r] = "queued"
    /\ Ends(r, "busy")
    /\ NoSlotMoves

\* Every key of the pool is tried or in quarantine: the gateway reports it as
\* exhaustion, to a lease too.
NoSelectableKey(r) ==
    /\ Trying(r) \/ phase[r] = "queued"
    /\ KeysHere(r) # {} /\ Selectable(r) = {}
    /\ IsExhausted(r)
    /\ NoSlotMoves

\* A provider without keys has no pool: a lease finds no selectable key, a call
\* goes upstream without a slot.
NoPoolToLease(r) ==
    /\ Trying(r) /\ KeysHere(r) = {} /\ r \in Leases
    /\ PassesOver(r, "nokey")
    /\ NoSlotMoves

CallsWithoutPool(r) ==
    /\ Trying(r) /\ KeysHere(r) = {} /\ r \notin Leases
    /\ GoesTo(r, "calling")
    /\ KeepsPlace /\ UNCHANGED tried /\ NoSlotMoves

-----------------------------------------------------------------------------
(* The upstream call                                                       *)

GivesBack(r) == IF owned[r] = NoKey THEN NoSlotMoves ELSE Return(r)

Answers(r) ==
    /\ phase[r] = "calling" /\ r \notin Leases \cup Streams
    /\ GivesBack(r)
    /\ Ends(r, "answered")

\* Any refusal or transport error but exhaustion ends the walk.
Fails(r) ==
    /\ phase[r] = "calling" /\ r \notin Leases
    /\ GivesBack(r)
    /\ Ends(r, "error")

\* The key reported exhaustion: it is quarantined and its slot given back before
\* the gateway looks at the remaining keys.
KeyIsSpent(r) ==
    /\ phase[r] = "calling" /\ r \notin Leases
    /\ Bar(owned[r]) /\ owned[r] # NoKey
    /\ tried' = [tried EXCEPT ![r] = @ \cup {owned[r]}]
    /\ GoesTo(r, "failover")
    /\ KeepsPlace

\* Mutant: the next key is sought before the slot of the spent one is free.
FailsOverHolding(r) ==
    /\ phase[r] = "failover"
    /\ GoesTo(r, "try")
    /\ KeepsPlace /\ UNCHANGED tried /\ NoSlotMoves

\* Mutant: the set of tried keys is created inside the loop.
FailsOverAfresh(r) ==
    /\ phase[r] = "failover"
    /\ Return(r)
    /\ GoesTo(r, "try")
    /\ tried' = [tried EXCEPT ![r] = {}]
    /\ KeepsPlace

FailsOver(r) ==
    /\ phase[r] = "failover"
    /\ Return(r)
    /\ GoesTo(r, "try")
    /\ KeepsPlace /\ UNCHANGED tried

AccountIsSpent(r) ==
    /\ phase[r] = "calling" /\ owned[r] = NoKey
    /\ IsExhausted(r)
    /\ NoSlotMoves

-----------------------------------------------------------------------------
(* Streams and leases                                                      *)

FirstChunk(r) ==
    /\ phase[r] = "calling" /\ r \in Streams
    /\ GoesTo(r, "streaming")
    /\ KeepsPlace /\ UNCHANGED tried /\ NoSlotMoves

\* An empty stream is an answer too.
StreamEnds(r) ==
    /\ phase[r] = "streaming" \/ (phase[r] = "calling" /\ r \in Streams)
    /\ GivesBack(r)
    /\ Ends(r, "answered")

\* Mutant: a broken stream is replaced by the next Model ID's.
StreamIsReplaced(r) ==
    /\ phase[r] = "streaming"
    /\ GivesBack(r)
    /\ PassesOver(r, "exhausted") \/ (waits[r] /\ Ends(r, "error"))

\* Once a chunk was yielded every error is raised, exhaustion too.
StreamBreaks(r) ==
    /\ phase[r] = "streaming"
    /\ GivesBack(r)
    /\ Ends(r, "error")

\* The client leaves, or handling a chunk fails, while the generators stand at
\* a yield: nothing closes the inner ones, which hold the slot.
Abandons(r) ==
    /\ phase[r] = "streaming"
    /\ GoesTo(r, "abandoned")
    /\ \E how \in {"cancelled", "error"} : outcome' = [outcome EXCEPT ![r] = how]
    /\ UNCHANGED <<place, skips, waits, tried>> /\ NoSlotMoves

\* The event loop closes a generator nobody refers to any more; the finally of
\* the innermost one gives the slot back.
Finalizes(r) ==
    /\ phase[r] = "abandoned"
    /\ GivesBack(r)
    /\ GoesTo(r, "done")
    /\ KeepsPlace /\ UNCHANGED tried

SlotIsLeased(r) ==
    /\ phase[r] = "calling" /\ r \in Leases
    /\ Ends(r, "answered")
    /\ NoSlotMoves

HangsUp(r) ==
    /\ phase[r] = "done" /\ r \in Leases
    /\ Return(r)
    /\ UNCHANGED <<place, skips, waits, tried, phase, outcome>>

-----------------------------------------------------------------------------
(* The end of the shelf                                                    *)

EndOfShelf(r) == phase[r] = "try" /\ ~waits[r] /\ place[r] > Len(Shelf[r])

SecondPass(r) ==
    /\ EndOfShelf(r) /\ AllFull(r)
    /\ waits' = [waits EXCEPT ![r] = TRUE]
    /\ place' = [place EXCEPT ![r] = 1]
    /\ UNCHANGED <<skips, tried, phase, outcome>>
    /\ NoSlotMoves

\* Mutant: a missing key is reported before an exhausted account.
KeyBeforeAccount(r) ==
    IF Passed(r, "nokey") THEN "nokey"
    ELSE IF Passed(r, "exhausted") THEN "exhausted" ELSE "unavailable"

\* _raise_terminal
TerminalError(r) ==
    IF Passed(r, "exhausted") THEN "exhausted"
    ELSE IF Passed(r, "nokey") THEN "nokey" ELSE "unavailable"

Refuses(r) ==
    /\ EndOfShelf(r) /\ ~AllFull(r)
    /\ Ends(r, TerminalError(r))
    /\ NoSlotMoves

-----------------------------------------------------------------------------

\* Cancelled while it awaits something, a request unwinds through every finally.
Cancel(r) ==
    /\ phase[r] \notin {"done", "abandoned"}
    /\ GivesBack(r)
    /\ Ends(r, "cancelled")

QuarantineEnds(k) ==
    /\ k \in barred
    /\ Unbar(k)
    /\ UNCHANGED <<place, skips, waits, tried, phase, outcome>>

WalkInit ==
    /\ SlotInit
    /\ place = [r \in Callers |-> 1]
    /\ skips = [r \in Callers |-> <<>>]
    /\ waits = [r \in Callers |-> FALSE]
    /\ tried = [r \in Callers |-> {}]
    /\ phase = [r \in Callers |-> "try"]
    /\ outcome = [r \in Callers |-> "none"]

\* What the router, the upstream and the queue's clock do for a request.
WalkStep(r) ==
    \/ TakesSlot(r) \/ PoolIsFull(r) \/ Queues(r) \/ QueueTimesOut(r)
    \/ NoSelectableKey(r) \/ NoPoolToLease(r) \/ CallsWithoutPool(r)
    \/ Answers(r) \/ Fails(r) \/ KeyIsSpent(r) \/ FailsOver(r) \/ AccountIsSpent(r)
    \/ FirstChunk(r) \/ StreamEnds(r) \/ StreamBreaks(r) \/ Finalizes(r)
    \/ SlotIsLeased(r) \/ SecondPass(r) \/ Refuses(r)

WalkNext ==
    \/ \E r \in Callers : WalkStep(r) \/ HangsUp(r) \/ Cancel(r) \/ Abandons(r)
    \/ \E k \in Keys : QuarantineEnds(k)

\* The event loop runs what is ready, the finalizers of abandoned generators
\* included, the queue times out and the upstream answers or fails in time.  A
\* lease need never hang up, nor a client leave.
WalkSpec ==
    /\ WalkInit /\ [][WalkNext]_walkVars
    /\ \A r \in Callers : WF_walkVars(WalkStep(r))

-----------------------------------------------------------------------------
(* Properties                                                              *)

WalkTypeOK ==
    /\ owned \in [Callers -> Keys \cup {NoKey}]
    /\ barred \subseteq Keys
    /\ place \in [Callers -> Nat] /\ skips \in [Callers -> Seq({"full", "exhausted", "nokey"})]
    /\ \A r \in Callers : /\ place[r] = (IF waits[r] THEN 1 ELSE Len(skips[r]) + 1)
                           /\ Len(skips[r]) <= Len(Shelf[r])
    /\ waits \in [Callers -> BOOLEAN]
    /\ tried \in [Callers -> SUBSET Keys]
    /\ phase \in [Callers -> {"try", "queued", "calling", "failover", "streaming", "abandoned", "done"}]
    /\ outcome \in [Callers -> {"none", "answered", "error", "exhausted", "nokey",
                                 "unavailable", "busy", "cancelled"}]

\* A request never queues while a later Model ID remains: it waits only after
\* every Model ID of the shelf was found full, and only in the first one's pool.
QueuesOnlyWhenAllFull ==
    \A r \in Callers : phase[r] = "queued" \/ outcome[r] = "busy" =>
        /\ place[r] = 1 /\ Len(skips[r]) = Len(Shelf[r])
        /\ \A i \in 1 .. Len(skips[r]) : skips[r][i] = "full"

\* A request that looks for a slot or queues for one holds none, on whatever
\* provider, so walks over shelves in different orders cannot wait on each
\* other.  Once a request is over its slot is a realtime lease's, or that of a
\* stream left at a yield and not yet finalized.
NoHoldAndWait ==
    \A r \in Callers : owned[r] # NoKey =>
        \/ /\ phase[r] \in {"calling", "failover", "streaming", "abandoned"}
           /\ owned[r] \in KeysHere(r)
        \/ outcome[r] = "answered" /\ r \in Leases

\* Model output ends the walk: after a first chunk no other Model ID is called
\* for this request, whatever becomes of the stream.
OutputEndsWalk ==
    [][\A r \in Callers : phase[r] = "streaming" =>
          phase'[r] \in {"streaming", "abandoned", "done"} /\ place'[r] = place[r]]_walkVars

\* The refusal names the reason that matters most: an exhausted account before
\* a pool without keys, and "no model" only for an empty shelf.
RefusalExplains ==
    \A r \in Callers :
        /\ outcome[r] = "exhausted" => Passed(r, "exhausted") \/ waits[r]
        /\ outcome[r] = "nokey" => Passed(r, "nokey") /\ ~Passed(r, "exhausted")
        /\ outcome[r] = "unavailable" => Shelf[r] = <<>>

\* Every walk ends, its slot given back unless it is leased: two passes and
\* failover within each Model ID are bounded even when quarantines keep ending,
\* nobody queues for ever, and a stream left at a yield keeps no slot.
EveryWalkEnds ==
    \A r \in Callers : <>(phase[r] = "done" /\ (owned[r] = NoKey \/ r \in Leases))
=============================================================================
