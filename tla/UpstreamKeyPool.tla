-------------------------- MODULE UpstreamKeyPool --------------------------
(***************************************************************************)
(* UpstreamKeyPool (infrastructure/gateways/upstream_key_pool.py): the     *)
(* concurrency slots of one provider's upstream API keys, shared by every  *)
(* request of the process.                                                 *)
(*                                                                         *)
(* The pool lives on one asyncio event loop.  Its condition's lock is      *)
(* never held across an await other than Condition.wait, so it is always   *)
(* free when a task asks for it and the code between two awaits is one     *)
(* step.  A step of this module is such a stretch of code.                 *)
(*                                                                         *)
(* asyncio.Condition is a FIFO of waiters.  notify(1) completes the first  *)
(* future that is not done; the task behind it runs later, in the order    *)
(* of the completions.  Hence two queues: "queue" holds the waiters nobody *)
(* notified, "woken" those whose wake-up is scheduled.  A task may enter   *)
(* acquire and take the slot between the two.                              *)
(*                                                                         *)
(* Time is abstract: a queue deadline may pass at any moment (expired),    *)
(* and so may a quarantine's end.  busy_total and the last Extra Usage     *)
(* message are reported and never read back, and are left out.             *)
(***************************************************************************)
EXTENDS Integers, SequencesExt

CONSTANTS
    Callers,        \* tasks that call acquire
    KeyCount,       \* len(keys)
    Cap,            \* max_concurrent_per_key; 0 is unlimited
    RoundRobin,     \* tie_break_round_robin
    AcquireDelay,   \* acquire_delay_ms > 0
    AutoExpiry,     \* quarantine_ttl_sec > 0
    Excludes        \* the sets of keys a caller may exclude

Keys  == 0 .. KeyCount - 1
NoKey == -1

ASSUME PoolAssumption ==
    /\ IsFiniteSet(Callers)
    /\ KeyCount \in Nat \ {0}
    /\ Cap \in Nat
    /\ {RoundRobin, AcquireDelay, AutoExpiry} \subseteq BOOLEAN
    /\ Excludes \subseteq SUBSET Keys

VARIABLES
    inFlight,       \* _in_flight
    quarantined,    \* the keys whose _quarantined_until lies ahead
    lastAcquired,   \* _last_acquired
    waiting,        \* _waiting
    queue,          \* the condition's waiters that were not notified
    woken,          \* the notified waiters that have not run yet
    st,             \* where each caller stands
    key,            \* the key whose slot the caller's acquire took
    excl,           \* the caller's exclude argument
    expired         \* the caller's queue deadline has passed

poolVars == <<inFlight, quarantined, lastAcquired, waiting, queue, woken,
              st, key, excl, expired>>

-----------------------------------------------------------------------------
(* Selection                                                               *)

\* Mutant: the selection looks at the exclusions only.
SelectableAnyway(S) == Keys \ S

Selectable(S) == Keys \ (S \cup quarantined)

\* Mutant: the cap is compared off by one.
FreeOffByOne(S) == {k \in Selectable(S) : Cap = 0 \/ inFlight[k] <= Cap}

Free(S) == {k \in Selectable(S) : Cap = 0 \/ inFlight[k] < Cap}

LeastLoaded(S) == {k \in Free(S) : \A j \in Free(S) : inFlight[k] <= inFlight[j]}

\* The place of a key in the order that breaks ties: the index, or with
\* tie_break_round_robin the steps from the key after the last one acquired.
Rank(k) == IF RoundRobin THEN (k - lastAcquired - 1) % KeyCount ELSE k

Picks(S) == {k \in LeastLoaded(S) : \A j \in LeastLoaded(S) : Rank(k) <= Rank(j)}

-----------------------------------------------------------------------------
(* The condition                                                           *)

NotifyOne(q, w) ==
    IF q = <<>> THEN queue' = q /\ woken' = w
                ELSE queue' = Tail(q) /\ woken' = Append(w, Head(q))

-----------------------------------------------------------------------------
(* acquire                                                                 *)

Take(c, k) ==
    /\ inFlight' = [inFlight EXCEPT ![k] = @ + 1]
    /\ lastAcquired' = k
    /\ key' = [key EXCEPT ![c] = k]
    /\ st' = [st EXCEPT ![c] = IF AcquireDelay THEN "delay" ELSE "held"]

AcquireTakes(c, S) ==
    /\ st[c] = "idle"
    /\ \E k \in Picks(S) : Take(c, k)
    /\ UNCHANGED <<quarantined, waiting, queue, woken, excl, expired>>

AcquireNoKey(c, S) ==
    /\ st[c] = "idle"
    /\ Selectable(S) = {}
    /\ UNCHANGED poolVars

\* wait=False: NoFreeConcurrencySlotError.
AcquireNoSlot(c, S) ==
    /\ st[c] = "idle"
    /\ Selectable(S) # {} /\ Free(S) = {}
    /\ UNCHANGED poolVars

\* Mutant: the waiter goes round the loop without its exclusions.
AcquireWaitsForgetful(c, S) ==
    /\ st[c] = "idle"
    /\ Selectable(S) # {} /\ Free(S) = {}
    /\ queue' = Append(queue, c)
    /\ waiting' = waiting + 1
    /\ st' = [st EXCEPT ![c] = "waiting"]
    /\ UNCHANGED <<inFlight, quarantined, lastAcquired, woken, key, excl, expired>>

AcquireWaits(c, S) ==
    /\ st[c] = "idle"
    /\ Selectable(S) # {} /\ Free(S) = {}
    /\ queue' = Append(queue, c)
    /\ waiting' = waiting + 1
    /\ st' = [st EXCEPT ![c] = "waiting"]
    /\ excl' = [excl EXCEPT ![c] = S]
    /\ UNCHANGED <<inFlight, quarantined, lastAcquired, woken, key, expired>>

DeadlinePasses(c) ==
    /\ st[c] = "waiting" /\ ~expired[c]
    /\ expired' = [expired EXCEPT ![c] = TRUE]
    /\ UNCHANGED <<inFlight, quarantined, lastAcquired, waiting, queue, woken,
                   st, key, excl>>

\* The waiter whose wake-up is next runs the loop of acquire again.
Runs(c) == woken # <<>> /\ c = Head(woken)

\* Mutant: both the handler of the exception and the finally count the waiter off.
LeavesWaitingTwice(c) ==
    /\ waiting' = waiting - 2
    /\ excl' = [excl EXCEPT ![c] = {}]
    /\ expired' = [expired EXCEPT ![c] = FALSE]

LeavesWaiting(c) ==
    /\ waiting' = waiting - 1
    /\ excl' = [excl EXCEPT ![c] = {}]
    /\ expired' = [expired EXCEPT ![c] = FALSE]

LeavesLoop(c) ==
    /\ LeavesWaiting(c)
    /\ woken' = Tail(woken)
    /\ UNCHANGED <<quarantined, queue>>

ResumeTakes(c) ==
    /\ Runs(c)
    /\ \E k \in Picks(excl[c]) : Take(c, k)
    /\ LeavesLoop(c)

\* Both raises leave the loop without waking anybody else.
ResumeFails(c) ==
    /\ LeavesLoop(c)
    /\ st' = [st EXCEPT ![c] = "idle"]
    /\ UNCHANGED <<inFlight, lastAcquired, key>>

ResumeNoKey(c) ==
    /\ Runs(c)
    /\ Selectable(excl[c]) = {}
    /\ ResumeFails(c)

ResumeBusy(c) ==
    /\ Runs(c)
    /\ Selectable(excl[c]) # {} /\ Free(excl[c]) = {}
    /\ expired[c]
    /\ ResumeFails(c)

\* Mutant: the waiter is counted on every round of the loop.
ResumeWaitsCounted(c) ==
    /\ Runs(c)
    /\ Selectable(excl[c]) # {} /\ Free(excl[c]) = {}
    /\ ~expired[c]
    /\ woken' = Tail(woken)
    /\ queue' = Append(queue, c)
    /\ waiting' = waiting + 1
    /\ UNCHANGED <<inFlight, quarantined, lastAcquired, st, key, excl, expired>>

ResumeWaits(c) ==
    /\ Runs(c)
    /\ Selectable(excl[c]) # {} /\ Free(excl[c]) = {}
    /\ ~expired[c]
    /\ woken' = Tail(woken)
    /\ queue' = Append(queue, c)
    /\ UNCHANGED <<inFlight, quarantined, lastAcquired, waiting, st, key, excl,
                   expired>>

\* Mutant: a waiter that leaves keeps the notification it swallowed.
LeaveWaitSilently(c) ==
    /\ \/ Runs(c) /\ woken' = Tail(woken) /\ UNCHANGED queue
       \/ \E i \in 1 .. Len(queue) :
             queue[i] = c /\ queue' = RemoveAt(queue, i) /\ UNCHANGED woken
    /\ LeavesWaiting(c)
    /\ st' = [st EXCEPT ![c] = "idle"]
    /\ UNCHANGED <<inFlight, quarantined, lastAcquired, key>>

\* The wait ends by an exception and hands a notification on: Condition.wait
\* re-notifies, because the waiter may have swallowed one.
LeaveWait(c) ==
    /\ \/ Runs(c) /\ NotifyOne(queue, Tail(woken))
       \/ \E i \in 1 .. Len(queue) :
             queue[i] = c /\ NotifyOne(RemoveAt(queue, i), woken)
    /\ LeavesWaiting(c)
    /\ st' = [st EXCEPT ![c] = "idle"]
    /\ UNCHANGED <<inFlight, quarantined, lastAcquired, key>>

\* wait_for gives up: UpstreamBusyError, whatever is free by then.
Timeout(c) == expired[c] /\ LeaveWait(c)

CancelWait(c) == LeaveWait(c)

DelayEnds(c) ==
    /\ st[c] = "delay"
    /\ st' = [st EXCEPT ![c] = "held"]
    /\ UNCHANGED <<inFlight, quarantined, lastAcquired, waiting, queue, woken,
                   key, excl, expired>>

-----------------------------------------------------------------------------
(* release: the shielded task that gives the slot back runs one step later *)
(* and runs even when the caller is cancelled meanwhile.                   *)

StartRelease(c) ==
    /\ st' = [st EXCEPT ![c] = "releasing"]
    /\ UNCHANGED <<inFlight, quarantined, lastAcquired, waiting, queue, woken,
                   key, excl, expired>>

Release(c) == st[c] = "held" /\ StartRelease(c)

\* Mutant: a caller cancelled in the delay is forgotten with its slot.
CancelDelayLeaks(c) ==
    /\ st[c] = "delay"
    /\ st' = [st EXCEPT ![c] = "idle"]
    /\ key' = [key EXCEPT ![c] = NoKey]
    /\ UNCHANGED <<inFlight, quarantined, lastAcquired, waiting, queue, woken,
                   excl, expired>>

CancelDelay(c) == st[c] = "delay" /\ StartRelease(c)

ReleaseLocked(c) ==
    /\ st[c] = "releasing"
    /\ inFlight' = [inFlight EXCEPT ![key[c]] = IF @ > 0 THEN @ - 1 ELSE @]
    /\ NotifyOne(queue, woken)
    /\ st' = [st EXCEPT ![c] = "idle"]
    /\ key' = [key EXCEPT ![c] = NoKey]
    /\ UNCHANGED <<quarantined, lastAcquired, waiting, excl, expired>>

-----------------------------------------------------------------------------
(* Quarantine                                                              *)

\* Only the holder of a key reports it exhausted; nobody is woken.
Quarantine(c) ==
    /\ st[c] = "held"
    /\ quarantined' = quarantined \cup {key[c]}
    /\ UNCHANGED <<inFlight, lastAcquired, waiting, queue, woken, st, key, excl,
                   expired>>

\* The quarantine's time is up: seen by the next look at the key, with no wake-up.
QuarantineExpires(k) ==
    /\ AutoExpiry
    /\ k \in quarantined
    /\ quarantined' = quarantined \ {k}
    /\ UNCHANGED <<inFlight, lastAcquired, waiting, queue, woken, st, key, excl,
                   expired>>

QuarantineRelease(k) ==
    /\ quarantined' = quarantined \ {k}
    /\ queue' = <<>>
    /\ woken' = woken \o queue
    /\ UNCHANGED <<inFlight, lastAcquired, waiting, st, key, excl, expired>>

-----------------------------------------------------------------------------

PoolInit ==
    /\ inFlight = [k \in Keys |-> 0]
    /\ quarantined = {}
    /\ lastAcquired = NoKey
    /\ waiting = 0
    /\ queue = <<>>
    /\ woken = <<>>
    /\ st = [c \in Callers |-> "idle"]
    /\ key = [c \in Callers |-> NoKey]
    /\ excl = [c \in Callers |-> {}]
    /\ expired = [c \in Callers |-> FALSE]

\* What the event loop does for a caller without anybody's say.
LoopStep(c) ==
    \/ ResumeTakes(c) \/ ResumeNoKey(c) \/ ResumeBusy(c) \/ ResumeWaits(c)
    \/ Timeout(c) \/ DelayEnds(c) \/ ReleaseLocked(c)

CallerStep(c) ==
    \/ \E S \in Excludes :
          AcquireTakes(c, S) \/ AcquireNoKey(c, S) \/ AcquireNoSlot(c, S) \/ AcquireWaits(c, S)
    \/ DeadlinePasses(c) \/ CancelWait(c) \/ CancelDelay(c)
    \/ Quarantine(c) \/ Release(c)

PoolNext ==
    \/ \E c \in Callers : LoopStep(c) \/ CallerStep(c)
    \/ \E k \in Keys : QuarantineExpires(k) \/ QuarantineRelease(k)

PoolSpec == PoolInit /\ [][PoolNext]_poolVars

-----------------------------------------------------------------------------
(* Properties                                                              *)

PoolTypeOK ==
    /\ inFlight \in [Keys -> Nat]
    /\ quarantined \subseteq Keys
    /\ lastAcquired \in Keys \cup {NoKey}
    /\ waiting \in Nat
    /\ queue \in Seq(Callers)
    /\ woken \in Seq(Callers)
    /\ st \in [Callers -> {"idle", "waiting", "delay", "held", "releasing"}]
    /\ key \in [Callers -> Keys \cup {NoKey}]
    /\ excl \in [Callers -> SUBSET Keys]
    /\ expired \in [Callers -> BOOLEAN]

Holders(k) == {c \in Callers : key[c] = k}

\* Every slot counted in _in_flight belongs to a caller that has it or is
\* giving it back, through cancellations during the wait, the acquire delay and
\* the release: the counter neither leaks a slot nor frees one twice.
SlotAccounting == \A k \in Keys : inFlight[k] = Cardinality(Holders(k))

\* A key never serves more calls at once than max_concurrent_per_key.
CapRespected == Cap > 0 => \A k \in Keys : Cardinality(Holders(k)) <= Cap

\* The waiting figure of the pool's status is the number of callers inside the
\* condition, each of them there once.
WaitingAccounting ==
    /\ waiting = Len(queue) + Len(woken)
    /\ IsInjective(queue) /\ IsInjective(woken)
    /\ ToSet(queue) \cap ToSet(woken) = {}
    /\ ToSet(queue) \cup ToSet(woken) = {c \in Callers : st[c] = "waiting"}

\* The slots of the keys that serve, the n-th slot of a key being free while fewer
\* than n of its calls are in flight.
FreeSlots == {s \in (Keys \ quarantined) \X (1 .. Cap) : inFlight[s[1]] < s[2]}

\* The free slots that callers sleep beside with nobody on the way to them.
Unattended == IF queue = <<>> THEN 0 ELSE Cardinality(FreeSlots) - Len(woken)

\* A caller that excludes the keys in S looks for a slot and finds none.
FindsNone(c, S) ==
    \/ AcquireWaits(c, S)
    \/ excl[c] = S /\ (ResumeNoKey(c) \/ ResumeBusy(c) \/ ResumeWaits(c))

\* No lost wake-up: a step that leaves a waiter sleeping beside a free slot is a
\* quarantine that expires, which notifies nobody, or the look of a caller that
\* excludes keys and so has no use for the slot it was woken for.  A timeout or a
\* cancellation never swallows a wake-up.
NoLostWakeup ==
    [][Unattended' > 0 /\ Unattended' > Unattended =>
          \/ \E k \in Keys : QuarantineExpires(k)
          \/ \E c \in Callers, S \in (SUBSET Keys) \ {{}} : FindsNone(c, S)]_poolVars

\* The pool keeps the promise of KeySlots: its counters stand for the real
\* owners of every key, whatever is cancelled, timed out or released meanwhile.
Slots == INSTANCE KeySlots WITH owned <- key, barred <- quarantined

ImplementsKeySlots == Slots!SlotSpec

=============================================================================
