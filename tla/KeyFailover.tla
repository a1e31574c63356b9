---------------------------- MODULE KeyFailover ----------------------------
(***************************************************************************)
(* Key Failover: the loop of OpenAICompatibleGateway._request and _stream  *)
(* (infrastructure/gateways/openai_compatible_gateway.py) over the key     *)
(* pool.  Each caller is one request: it takes a slot, calls the upstream, *)
(* and when the answer says that the key's Extra Usage or credit is spent, *)
(* quarantines the key, gives the slot back and goes round with that key   *)
(* excluded.  A realtime session is a request whose upstream call never    *)
(* ends that way.                                                          *)
(*                                                                         *)
(* A request may be cancelled at any of its awaits: a client that leaves a *)
(* stream cancels the task or has its generator closed.  Between the       *)
(* quarantine and the release lies the await that closes an upstream       *)
(* stream.                                                                 *)
(***************************************************************************)
EXTENDS UpstreamKeyPool

CONSTANT Queueing       \* the requests with wait_for_pool_slot True

ASSUME FailoverAssumption ==
    /\ Queueing \subseteq Callers
    /\ Excludes = SUBSET Keys

VARIABLES
    tried,              \* the keys that answered exhausted to this request
    outcome             \* how the request ended, or "none"

failoverVars == <<poolVars, tried, outcome>>

Open(c) == outcome[c] = "none"

Ends(c, how) == Open(c) /\ outcome' = [outcome EXCEPT ![c] = how] /\ UNCHANGED tried

Continues(c) == Open(c) /\ UNCHANGED <<tried, outcome>>

\* One round of the loop up to its first await.  all_quarantined() and
\* NoSelectableUpstreamKeyError end alike.
Attempt(c) ==
    \/ AcquireTakes(c, tried[c]) /\ Continues(c)
    \/ AcquireNoKey(c, tried[c]) /\ Ends(c, "exhausted")
    \/ c \notin Queueing /\ AcquireNoSlot(c, tried[c]) /\ Ends(c, "full")
    \/ c \in Queueing /\ AcquireWaits(c, tried[c]) /\ Continues(c)

InAcquire(c) ==
    \/ (ResumeTakes(c) \/ ResumeWaits(c) \/ DelayEnds(c)) /\ Continues(c)
    \/ ResumeNoKey(c) /\ Ends(c, "exhausted")
    \/ (ResumeBusy(c) \/ Timeout(c)) /\ Ends(c, "busy")

Calling(c) == st[c] = "held" /\ Open(c) /\ key[c] \notin tried[c]

\* Mutant: an error that is raised past the loop skips the release.
UpstreamAnswersUnreleased(c) ==
    /\ Calling(c)
    /\ st' = [st EXCEPT ![c] = "idle"]
    /\ UNCHANGED <<inFlight, quarantined, lastAcquired, waiting, queue, woken,
                   key, excl, expired>>
    /\ Ends(c, "answered")

\* A reply, an error or a broken stream: every end of the call but exhaustion.
UpstreamAnswers(c) ==
    /\ Calling(c)
    /\ Release(c)
    /\ Ends(c, "answered")

\* is_key_failover_exhaustion: quarantine the key, remember it as tried.
UpstreamExhausted(c) ==
    /\ Calling(c)
    /\ Quarantine(c)
    /\ tried' = [tried EXCEPT ![c] = @ \cup {key[c]}]
    /\ UNCHANGED outcome

\* Mutant: the set of tried keys is created inside the loop.
FailsOverAfresh(c) ==
    /\ key[c] \in tried[c]
    /\ Release(c)
    /\ Open(c)
    /\ tried' = [tried EXCEPT ![c] = {}]
    /\ UNCHANGED outcome

FailsOver(c) ==
    /\ key[c] \in tried[c]
    /\ Release(c)
    /\ Continues(c)

Releases(c) ==
    /\ ReleaseLocked(c)
    /\ UNCHANGED <<tried, outcome>>

Cancel(c) ==
    /\ \/ CancelWait(c) \/ CancelDelay(c) \/ Release(c)
       \/ st[c] = "releasing" /\ UNCHANGED poolVars
    /\ Ends(c, "cancelled")

Deadline(c) == DeadlinePasses(c) /\ UNCHANGED <<tried, outcome>>

\* A quarantine ends by itself or by a teacher's Quarantine Release.
QuarantineEnds(k) ==
    /\ QuarantineExpires(k) \/ QuarantineRelease(k)
    /\ UNCHANGED <<tried, outcome>>

FailoverInit ==
    /\ PoolInit
    /\ tried = [c \in Callers |-> {}]
    /\ outcome = [c \in Callers |-> "none"]

RequestStep(c) ==
    \/ Attempt(c) \/ InAcquire(c) \/ UpstreamAnswers(c) \/ FailsOver(c) \/ Releases(c)

FailoverNext ==
    \/ \E c \in Callers : RequestStep(c) \/ UpstreamExhausted(c) \/ Cancel(c) \/ Deadline(c)
    \/ \E k \in Keys : QuarantineEnds(k)

FailoverSpec == FailoverInit /\ [][FailoverNext]_failoverVars

\* The event loop runs what is ready, the deadline comes, and the upstream
\* answers within the HTTP client's timeout.  Nobody has to cancel anything,
\* exhaust a key or end a quarantine.
FairFailoverSpec ==
    /\ FailoverSpec
    /\ \A c \in Callers :
          WF_failoverVars(RequestStep(c)) /\ WF_failoverVars(Deadline(c))

-----------------------------------------------------------------------------
(* Properties                                                              *)

FailoverTypeOK ==
    /\ PoolTypeOK
    /\ tried \in [Callers -> SUBSET Keys]
    /\ outcome \in [Callers -> {"none", "answered", "exhausted", "busy", "full", "cancelled"}]

\* The failover loop uses the pool only through its operations, so what holds of
\* the pool under any callers holds under the gateway.
ImplementsPool == PoolSpec

\* A request never calls a key that already answered it with exhaustion, not
\* even when that key's quarantine ended while the request was queued.
NeverSameKeyTwice ==
    [][\A c \in Callers : key'[c] \notin {key[c], NoKey} => key'[c] \notin tried[c]]_failoverVars

\* Every request ends, with its slot given back: failover does not go round for
\* ever, even when quarantines keep ending, and no request is left in the queue.
EveryRequestEnds == <>[](\A c \in Callers : ~Open(c) /\ st[c] = "idle")

\* A queued request is never forgotten: while one sleeps, another is about to
\* run or holds a slot whose release will wake the queue.
NobodyDeserted ==
    queue # <<>> => woken # <<>> \/ \E c \in Callers : key[c] # NoKey
=============================================================================
