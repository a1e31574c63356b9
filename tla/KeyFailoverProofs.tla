------------------------- MODULE KeyFailoverProofs -------------------------
(***************************************************************************)
(* Proofs about KeyFailover for any number of requests and keys.  The      *)
(* failover loop only ever steps the pool, so the pool's theorems hold of  *)
(* the gateway; and a request never takes a key it tried before.           *)
(*                                                                         *)
(* The second needs WaitersExcludeTried: the exclusions that acquire keeps *)
(* across its waits are still all the keys the request has tried, because  *)
(* a request that waits learns of no further exhausted key.                *)
(***************************************************************************)
EXTENDS KeyFailover, UpstreamKeyPoolProofs

RequestTypes ==
    /\ tried \in [Callers -> SUBSET Keys]
    /\ outcome \in [Callers -> {"none", "answered", "exhausted", "busy", "full", "cancelled"}]

WaitersExcludeTried == \A c \in Callers : st[c] = "waiting" => excl[c] = tried[c]

FailoverInv == PoolInv /\ RequestTypes /\ WaitersExcludeTried

\* What a step of the pool leaves to those who wait after it, unless it is the
\* step that begins the wait: they waited before, with the same exclusions.
StaysWaiting == \A d \in Callers : st'[d] = "waiting" => st[d] = "waiting" /\ excl'[d] = excl[d]

-----------------------------------------------------------------------------
(* The steps of the loop are steps of the pool                             *)

LEMMA RequestStepsPool ==
    ASSUME RequestTypes, NEW c \in Callers, RequestStep(c)
    PROVE  LoopStep(c) \/ CallerStep(c)
<1>1. CASE Attempt(c)
  <2>1. tried[c] \in Excludes
    BY FailoverAssumption DEF RequestTypes
  <2>2. \/ AcquireTakes(c, tried[c]) \/ AcquireNoKey(c, tried[c])
        \/ AcquireNoSlot(c, tried[c]) \/ AcquireWaits(c, tried[c])
    BY <1>1 DEF Attempt
  <2>3. QED
    BY <2>1, <2>2 DEF CallerStep
<1>2. CASE InAcquire(c)
  BY <1>2 DEF InAcquire, LoopStep
<1>3. CASE UpstreamAnswers(c) \/ FailsOver(c)
  BY <1>3 DEF UpstreamAnswers, FailsOver, CallerStep
<1>4. CASE Releases(c)
  BY <1>4 DEF Releases, LoopStep
<1>5. QED
  BY <1>1, <1>2, <1>3, <1>4 DEF RequestStep

LEMMA FailoverStepsPool ==
    RequestTypes /\ [FailoverNext]_failoverVars => [PoolNext]_poolVars
<1> SUFFICES ASSUME RequestTypes, [FailoverNext]_failoverVars PROVE PoolNext \/ UNCHANGED poolVars
  OBVIOUS
<1>1. ASSUME NEW c \in Callers, RequestStep(c)
      PROVE  PoolNext
  BY <1>1, RequestStepsPool DEF PoolNext
<1>2. ASSUME NEW c \in Callers, UpstreamExhausted(c) \/ Deadline(c)
      PROVE  PoolNext
  BY <1>2 DEF UpstreamExhausted, Deadline, PoolNext, CallerStep
<1>3. ASSUME NEW c \in Callers, Cancel(c)
      PROVE  PoolNext \/ UNCHANGED poolVars
  BY <1>3 DEF Cancel, PoolNext, CallerStep
<1>4. ASSUME NEW k \in Keys, QuarantineEnds(k)
      PROVE  PoolNext
  BY <1>4 DEF QuarantineEnds, PoolNext
<1>5. CASE UNCHANGED failoverVars
  BY <1>5 DEF failoverVars
<1>6. QED
  BY <1>1, <1>2, <1>3, <1>4, <1>5 DEF FailoverNext

-----------------------------------------------------------------------------
(* The exclusions of those who wait                                        *)

LEMMA LoopStaysWaiting ==
    ASSUME PoolInv, NEW c \in Callers, LoopStep(c)
    PROVE  StaysWaiting
<1> USE DEF StaysWaiting, PoolInv, SlotInv, SlotTypes, ArgTypes
<1>1. CASE ResumeTakes(c)
  BY <1>1 DEF ResumeTakes, LeavesLoop, LeavesWaiting, Take
<1>2. CASE ResumeNoKey(c) \/ ResumeBusy(c)
  BY <1>2 DEF ResumeNoKey, ResumeBusy, ResumeFails, LeavesLoop, LeavesWaiting
<1>3. CASE ResumeWaits(c)
  BY <1>3 DEF ResumeWaits
<1>4. CASE Timeout(c)
  BY <1>4 DEF Timeout, LeaveWait, LeavesWaiting
<1>5. CASE DelayEnds(c)
  BY <1>5 DEF DelayEnds
<1>6. CASE ReleaseLocked(c)
  BY <1>6 DEF ReleaseLocked
<1>7. QED
  BY <1>1, <1>2, <1>3, <1>4, <1>5, <1>6 DEF LoopStep

LEMMA CallerStaysWaiting ==
    ASSUME PoolInv, NEW c \in Callers, NEW S,
           \/ AcquireTakes(c, S) \/ AcquireNoKey(c, S) \/ AcquireNoSlot(c, S)
           \/ DeadlinePasses(c) \/ CancelWait(c) \/ CancelDelay(c) \/ Quarantine(c) \/ Release(c)
    PROVE  StaysWaiting
<1> USE DEF StaysWaiting, PoolInv, SlotInv, SlotTypes, ArgTypes
<1>1. CASE AcquireTakes(c, S)
  BY <1>1 DEF AcquireTakes, Take
<1>2. CASE AcquireNoKey(c, S) \/ AcquireNoSlot(c, S)
  BY <1>2 DEF AcquireNoKey, AcquireNoSlot, poolVars
<1>3. CASE DeadlinePasses(c) \/ Quarantine(c)
  BY <1>3 DEF DeadlinePasses, Quarantine
<1>4. CASE CancelWait(c)
  BY <1>4 DEF CancelWait, LeaveWait, LeavesWaiting
<1>5. CASE CancelDelay(c) \/ Release(c)
  BY <1>5 DEF CancelDelay, Release, StartRelease
<1>6. QED
  BY <1>1, <1>2, <1>3, <1>4, <1>5

\* While nobody learns of an exhausted key, the exclusions stay the tried keys.
LEMMA KeepsExcluded ==
    ASSUME RequestTypes, WaitersExcludeTried, StaysWaiting, UNCHANGED tried
    PROVE  WaitersExcludeTried'
BY DEF WaitersExcludeTried, StaysWaiting

LEMMA WaitersStep ==
    ASSUME FailoverInv, FailoverNext
    PROVE  WaitersExcludeTried'
<1> USE DEF FailoverInv
<1>1. ASSUME NEW c \in Callers, Attempt(c)
      PROVE  WaitersExcludeTried'
  <2>1. CASE AcquireTakes(c, tried[c]) \/ AcquireNoKey(c, tried[c]) \/ AcquireNoSlot(c, tried[c])
    <3>1. StaysWaiting
      BY <2>1, CallerStaysWaiting
    <3>2. UNCHANGED tried
      BY <1>1 DEF Attempt, Continues, Ends
    <3>3. QED
      BY <3>1, <3>2, KeepsExcluded
  <2>2. CASE AcquireWaits(c, tried[c])
    <3>1. UNCHANGED tried
      BY <1>1 DEF Attempt, Continues, Ends
    <3>2. /\ st' = [st EXCEPT ![c] = "waiting"]
          /\ excl' = [excl EXCEPT ![c] = tried[c]]
      BY <2>2 DEF AcquireWaits
    <3>3. QED
      BY <3>1, <3>2 DEF WaitersExcludeTried, PoolInv, SlotInv, SlotTypes, ArgTypes
  <2>3. QED
    BY <1>1, <2>1, <2>2 DEF Attempt
<1>2. ASSUME NEW c \in Callers, InAcquire(c) \/ Releases(c)
      PROVE  WaitersExcludeTried'
  <2>1. LoopStep(c)
    BY <1>2 DEF InAcquire, Releases, LoopStep
  <2>2. UNCHANGED tried
    BY <1>2 DEF InAcquire, Releases, Continues, Ends
  <2>3. QED
    BY <2>1, <2>2, LoopStaysWaiting, KeepsExcluded
<1>3. ASSUME NEW c \in Callers, UpstreamAnswers(c) \/ FailsOver(c) \/ Deadline(c)
      PROVE  WaitersExcludeTried'
  <2>1. Release(c) \/ DeadlinePasses(c)
    BY <1>3 DEF UpstreamAnswers, FailsOver, Deadline
  <2>2. UNCHANGED tried
    BY <1>3 DEF UpstreamAnswers, FailsOver, Deadline, Continues, Ends
  <2>3. QED
    BY <2>1, <2>2, CallerStaysWaiting, KeepsExcluded
<1>4. ASSUME NEW c \in Callers, Cancel(c)
      PROVE  WaitersExcludeTried'
  <2>1. UNCHANGED tried
    BY <1>4 DEF Cancel, Ends
  <2>2. CASE CancelWait(c) \/ CancelDelay(c) \/ Release(c)
    BY <2>1, <2>2, CallerStaysWaiting, KeepsExcluded
  <2>3. CASE UNCHANGED poolVars
    BY <2>1, <2>3 DEF poolVars, WaitersExcludeTried
  <2>4. QED
    BY <1>4, <2>2, <2>3 DEF Cancel
<1>5. ASSUME NEW c \in Callers, UpstreamExhausted(c)
      PROVE  WaitersExcludeTried'
  <2>1. /\ st[c] = "held" /\ UNCHANGED <<st, excl>>
        /\ tried' = [tried EXCEPT ![c] = @ \cup {key[c]}]
    BY <1>5 DEF UpstreamExhausted, Quarantine
  <2>2. QED
    BY <2>1 DEF WaitersExcludeTried, RequestTypes
<1>6. ASSUME NEW k \in Keys, QuarantineEnds(k)
      PROVE  WaitersExcludeTried'
  BY <1>6 DEF QuarantineEnds, QuarantineExpires, QuarantineRelease, WaitersExcludeTried
<1>7. QED
  BY <1>1, <1>2, <1>3, <1>4, <1>5, <1>6 DEF FailoverNext, RequestStep

-----------------------------------------------------------------------------
(* The invariant                                                           *)

LEMMA RequestTypesStep ==
    ASSUME FailoverInv, FailoverNext
    PROVE  RequestTypes'
<1> USE DEF FailoverInv, RequestTypes, Continues, Ends
<1>1. ASSUME NEW c \in Callers, RequestStep(c)
      PROVE  RequestTypes'
  BY <1>1 DEF RequestStep, Attempt, InAcquire, UpstreamAnswers, FailsOver, Releases
<1>2. ASSUME NEW c \in Callers, UpstreamExhausted(c)
      PROVE  RequestTypes'
  <2>1. key[c] \in Keys
    BY <1>2 DEF UpstreamExhausted, Quarantine, PoolInv, SlotInv, HoldersShape, Having
  <2>2. QED
    BY <1>2, <2>1 DEF UpstreamExhausted
<1>3. ASSUME NEW c \in Callers, Cancel(c) \/ Deadline(c)
      PROVE  RequestTypes'
  BY <1>3 DEF Cancel, Deadline
<1>4. ASSUME NEW k \in Keys, QuarantineEnds(k)
      PROVE  RequestTypes'
  BY <1>4 DEF QuarantineEnds
<1>5. QED
  BY <1>1, <1>2, <1>3, <1>4 DEF FailoverNext

LEMMA NextFailoverInv == FailoverInv /\ [FailoverNext]_failoverVars => FailoverInv'
<1> SUFFICES ASSUME FailoverInv, [FailoverNext]_failoverVars PROVE FailoverInv'
  OBVIOUS
<1>1. PoolInv'
  BY FailoverStepsPool, NextPoolInv DEF FailoverInv
<1>2. CASE FailoverNext
  BY <1>1, <1>2, RequestTypesStep, WaitersStep DEF FailoverInv
<1>3. CASE UNCHANGED failoverVars
  BY <1>1, <1>3 DEF failoverVars, poolVars, FailoverInv, RequestTypes, WaitersExcludeTried
<1>4. QED
  BY <1>2, <1>3

LEMMA FailoverInvariant == FailoverSpec => []FailoverInv
<1>1. FailoverInit => FailoverInv
  <2> SUFFICES ASSUME FailoverInit PROVE FailoverInv
    OBVIOUS
  <2>1. PoolInv
    BY InitPoolInv DEF FailoverInit
  <2>2. RequestTypes
    BY DEF FailoverInit, RequestTypes
  <2>3. WaitersExcludeTried
    BY DEF FailoverInit, PoolInit, WaitersExcludeTried
  <2>4. QED
    BY <2>1, <2>2, <2>3 DEF FailoverInv
<1>2. QED
  BY <1>1, NextFailoverInv, PTL DEF FailoverSpec

-----------------------------------------------------------------------------
(* The theorems                                                            *)

\* The gateway's requests use the pool as PoolSpec allows, so that every theorem
\* about the pool holds while requests fail over, time out and are cancelled.
THEOREM FailoverImplementsPool == FailoverSpec => ImplementsPool
<1>1. FailoverInit => PoolInit
  BY DEF FailoverInit
<1>2. FailoverInv /\ [FailoverNext]_failoverVars => [PoolNext]_poolVars
  BY FailoverStepsPool DEF FailoverInv
<1>3. QED
  BY <1>1, <1>2, FailoverInvariant, PTL DEF FailoverSpec, ImplementsPool, PoolSpec

\* The failover loop leaks no slot and gives none back twice.
THEOREM FailoverSlotsAccounted == FailoverSpec => []SlotAccounting
BY FailoverImplementsPool, PoolSlotsAccounted, PTL DEF ImplementsPool

\* Under the failover loop no wake-up is lost: its requests exclude the keys they
\* have tried, and only such a request, or a quarantine that runs out, leaves a
\* sleeper beside a slot.
THEOREM FailoverLosesNoWakeup == FailoverSpec => NoLostWakeup
BY FailoverImplementsPool, PoolLosesNoWakeup DEF ImplementsPool

\* A request never takes the slot of a key that answered it with exhaustion.
THEOREM FailoverNeverSameKeyTwice == FailoverSpec => NeverSameKeyTwice
<1> DEFINE Fresh == \A c \in Callers : key'[c] \notin {key[c], NoKey} => key'[c] \notin tried[c]
<1>1. ASSUME FailoverInv, NEW c \in Callers, NEW k \in Picks(tried[c]), Take(c, k)
      PROVE  Fresh
  <2>1. k \notin tried[c] /\ key' = [key EXCEPT ![c] = k]
    BY <1>1 DEF Picks, LeastLoaded, Free, Selectable, Take
  <2>2. QED
    BY <2>1 DEF FailoverInv, PoolInv, SlotInv, SlotTypes
<1>2. ASSUME FailoverInv, NEW c \in Callers, RequestStep(c)
      PROVE  Fresh
  <2>1. CASE AcquireTakes(c, tried[c])
    BY <1>1, <1>2, <2>1 DEF AcquireTakes
  <2>2. CASE ResumeTakes(c)
    <3>1. excl[c] = tried[c]
      BY <1>2, <2>2, QueueMember DEF ResumeTakes, FailoverInv, WaitersExcludeTried, PoolInv
    <3>2. QED
      BY <1>1, <1>2, <2>2, <3>1 DEF ResumeTakes
  <2>3. CASE ReleaseLocked(c)
    BY <1>2, <2>3 DEF ReleaseLocked, FailoverInv, PoolInv, SlotInv, SlotTypes
  <2>4. CASE UNCHANGED key
    BY <2>4
  <2>5. AcquireTakes(c, tried[c]) \/ ResumeTakes(c) \/ ReleaseLocked(c) \/ UNCHANGED key
    <3>1. Attempt(c) => AcquireTakes(c, tried[c]) \/ UNCHANGED key
      BY DEF Attempt, AcquireNoKey, AcquireNoSlot, AcquireWaits, poolVars
    <3>2. InAcquire(c) => ResumeTakes(c) \/ UNCHANGED key
      BY DEF InAcquire, ResumeWaits, DelayEnds, ResumeNoKey, ResumeBusy, ResumeFails, Timeout,
             LeaveWait
    <3>3. UpstreamAnswers(c) \/ FailsOver(c) => UNCHANGED key
      BY DEF UpstreamAnswers, FailsOver, Release, StartRelease
    <3>4. Releases(c) => ReleaseLocked(c)
      BY DEF Releases
    <3>5. QED
      BY <1>2, <3>1, <3>2, <3>3, <3>4 DEF RequestStep
  <2>6. QED
    BY <2>1, <2>2, <2>3, <2>4, <2>5
<1>3. ASSUME NEW c \in Callers, UpstreamExhausted(c) \/ Cancel(c) \/ Deadline(c)
      PROVE  UNCHANGED key
  BY <1>3 DEF UpstreamExhausted, Quarantine, Cancel, CancelWait, LeaveWait, CancelDelay, Release,
              StartRelease, poolVars, Deadline, DeadlinePasses
<1>4. ASSUME NEW k \in Keys, QuarantineEnds(k)
      PROVE  UNCHANGED key
  BY <1>4 DEF QuarantineEnds, QuarantineExpires, QuarantineRelease
<1>5. FailoverInv /\ [FailoverNext]_failoverVars => [Fresh]_failoverVars
  <2> SUFFICES ASSUME FailoverInv, FailoverNext PROVE Fresh
    OBVIOUS
  <2>1. CASE UNCHANGED key
    BY <2>1
  <2>2. CASE \E c \in Callers : RequestStep(c)
    BY <1>2, <2>2
  <2>3. QED
    BY <1>3, <1>4, <2>1, <2>2 DEF FailoverNext
<1>6. QED
  BY <1>5, FailoverInvariant, PTL DEF FailoverSpec, NeverSameKeyTwice
=============================================================================
