------------------------- MODULE VcrAutoWalkProofs -------------------------
(***************************************************************************)
(* Proofs about VcrAutoWalk for any shelves, providers, keys and caps, and *)
(* any number of requests.                                                 *)
(*                                                                         *)
(* The invariant is about one request: where it stands on its shelf is     *)
(* what it has passed over, it is on its second pass only when all of that *)
(* was full, and it owns a slot only between a grant and the end of the    *)
(* call, or of the generators of a stream left at a yield.  A step of one  *)
(* request leaves what another one's part of the invariant speaks of       *)
(* alone: they meet in the pools only.                                     *)
(***************************************************************************)
EXTENDS VcrAutoWalk, SequenceTheorems, TLAPS

Reasons == {"full", "exhausted", "nokey"}
Phases  == {"try", "queued", "calling", "failover", "streaming", "abandoned", "done"}
Ways    == {"answered", "error", "exhausted", "nokey", "unavailable", "busy", "cancelled"}

\* The request is over; it may own a slot.
Over    == {"abandoned", "done"}
Holding == {"calling", "failover", "streaming", "abandoned"}

Types ==
    /\ owned \in [Callers -> Keys \cup {NoKey}]
    /\ barred \subseteq Keys
    /\ place \in [Callers -> Nat] /\ skips \in [Callers -> Seq(Reasons)]
    /\ waits \in [Callers -> BOOLEAN]
    /\ tried \in [Callers -> SUBSET Keys]
    /\ phase \in [Callers -> Phases]
    /\ outcome \in [Callers -> Ways \cup {"none"}]

OnShelf(r) ==
    /\ place[r] = IF waits[r] THEN 1 ELSE Len(skips[r]) + 1
    /\ Len(skips[r]) <= Len(Shelf[r])
    /\ phase[r] \notin {"try", "done"} => place[r] <= Len(Shelf[r])

Queued(r) ==
    /\ phase[r] = "queued" \/ outcome[r] = "busy" => waits[r]
    /\ waits[r] => AllFull(r)

Owns(r) ==
    /\ phase[r] = "failover" => owned[r] # NoKey
    /\ owned[r] # NoKey =>
        \/ phase[r] \in Holding /\ owned[r] \in KeysHere(r)
        \/ outcome[r] = "answered" /\ r \in Leases

Refused(r) ==
    /\ (phase[r] \in Over) <=> (outcome[r] # "none")
    /\ outcome[r] = "exhausted" => Passed(r, "exhausted") \/ waits[r]
    /\ outcome[r] = "nokey" => Passed(r, "nokey") /\ ~Passed(r, "exhausted")
    /\ outcome[r] = "unavailable" => Shelf[r] = <<>>

Sound(r) == OnShelf(r) /\ Queued(r) /\ Owns(r) /\ Refused(r)

WalkInv == Types /\ \A r \in Callers : Sound(r)

\* What Sound(r) speaks of stays.
Stays(r) ==
    /\ place'[r] = place[r] /\ skips'[r] = skips[r] /\ waits'[r] = waits[r]
    /\ phase'[r] = phase[r] /\ outcome'[r] = outcome[r] /\ owned'[r] = owned[r]

LEMMA StaysSound ==
    ASSUME NEW r \in Callers, Sound(r), Stays(r)
    PROVE  Sound(r)'
  <1>1. OnShelf(r)'
    BY DEF Sound, Stays, OnShelf
  <1>2. Queued(r)'
    BY DEF Sound, Stays, Queued, AllFull
  <1>3. Owns(r)'
    BY DEF Sound, Stays, Owns, KeysHere
  <1>4. Refused(r)'
    BY DEF Sound, Stays, Refused, Passed
  <1> QED
    BY <1>1, <1>2, <1>3, <1>4 DEF Sound

LEMMA OneSound ==
    ASSUME WalkInv, Types', NEW r \in Callers, Sound(r)', \A q \in Callers \ {r} : Stays(q)
    PROVE  WalkInv'
  BY StaysSound DEF WalkInv

-----------------------------------------------------------------------------
(* The three ways a request moves                                          *)

\* The slot of r may move; the others' do not.
OwnSlot(r) ==
    /\ owned' \in [Callers -> Keys \cup {NoKey}] /\ barred' \subseteq Keys
    /\ \A q \in Callers \ {r} : owned'[q] = owned[q]

LEMMA SlotMoves ==
    ASSUME WalkInv, NEW r \in Callers
    PROVE  /\ NoSlotMoves => OwnSlot(r) /\ owned'[r] = owned[r]
           /\ Return(r) => OwnSlot(r) /\ owned'[r] = NoKey /\ owned[r] # NoKey
           /\ GivesBack(r) => OwnSlot(r) /\ owned'[r] = NoKey
           /\ \A k \in Keys : Grant(r, k) => OwnSlot(r) /\ owned'[r] = k
           /\ owned[r] # NoKey /\ Bar(owned[r]) => OwnSlot(r) /\ owned'[r] = owned[r]
  <1>0. Types
    BY DEF WalkInv
  <1>1. NoSlotMoves => OwnSlot(r) /\ owned'[r] = owned[r]
    BY <1>0 DEF Types, NoSlotMoves, slotVars, OwnSlot
  <1>2. Return(r) => OwnSlot(r) /\ owned'[r] = NoKey /\ owned[r] # NoKey
    BY <1>0 DEF Types, Return, OwnSlot
  <1>3. GivesBack(r) => OwnSlot(r) /\ owned'[r] = NoKey
    BY <1>1, <1>2 DEF GivesBack
  <1>4. \A k \in Keys : Grant(r, k) => OwnSlot(r) /\ owned'[r] = k
    BY <1>0 DEF Types, Grant, OwnSlot
  <1>5. owned[r] # NoKey /\ Bar(owned[r]) => OwnSlot(r) /\ owned'[r] = owned[r]
    BY <1>0 DEF Types, Bar, OwnSlot
  <1> QED
    BY <1>1, <1>2, <1>3, <1>4, <1>5

\* It goes to another phase of the same Model ID.
LEMMA PhaseMoves ==
    ASSUME WalkInv, NEW r \in Callers, NEW ph \in Phases \ Over, OwnSlot(r),
           GoesTo(r, ph), KeepsPlace, tried' \in [Callers -> SUBSET Keys],
           phase[r] \notin Over, place[r] <= Len(Shelf[r]),
           ph = "queued" => waits[r],
           ph = "failover" => owned'[r] # NoKey,
           owned'[r] # NoKey => ph \in Holding /\ owned'[r] \in KeysHere(r)
    PROVE  WalkInv'
  <1>1. Types /\ Sound(r)
    BY DEF WalkInv
  <1>2. Types'
    BY <1>1 DEF Types, GoesTo, KeepsPlace, OwnSlot
  <1>3. phase'[r] = ph /\ \A q \in Callers \ {r} : Stays(q)
    BY <1>1 DEF Types, GoesTo, KeepsPlace, OwnSlot, Stays
  <1>4. OnShelf(r)' /\ Queued(r)'
    BY <1>1, <1>3 DEF Sound, OnShelf, Queued, AllFull, Refused, KeepsPlace
  <1>5. Owns(r)'
    BY <1>1, <1>3 DEF Sound, Owns, KeysHere, KeepsPlace
  <1>6. Refused(r)'
    BY <1>1, <1>3 DEF Sound, Refused, Passed, KeepsPlace
  <1> QED
    BY <1>2, <1>3, <1>4, <1>5, <1>6, OneSound DEF Sound

\* It goes on to the next Model ID.
LEMMA PassesOverMoves ==
    ASSUME WalkInv, NEW r \in Callers, NEW why \in Reasons, PassesOver(r, why), NoSlotMoves,
           phase[r] \notin Over, place[r] <= Len(Shelf[r]), owned[r] = NoKey
    PROVE  WalkInv'
  <1>0. Types /\ Sound(r) /\ OwnSlot(r) /\ owned'[r] = owned[r]
    BY SlotMoves DEF WalkInv
  <1>1. Append(skips[r], why) \in Seq(Reasons) /\ Len(Append(skips[r], why)) = Len(skips[r]) + 1
    BY <1>0 DEF Types
  <1>2. Types'
    BY <1>0, <1>1 DEF Types, PassesOver, GoesTo, OwnSlot, Phases
  <1>3. /\ skips'[r] = Append(skips[r], why) /\ place'[r] = place[r] + 1 /\ phase'[r] = "try"
        /\ waits'[r] = waits[r] /\ ~waits[r] /\ outcome'[r] = outcome[r]
        /\ \A q \in Callers \ {r} : Stays(q)
    BY <1>0 DEF Types, PassesOver, GoesTo, OwnSlot, Stays
  <1>4. outcome[r] = "none"
    BY <1>0 DEF Sound, Refused
  <1>5. OnShelf(r)'
    <2>1. place[r] = Len(skips[r]) + 1 /\ Len(skips[r]) \in Nat
      BY <1>0, <1>3 DEF Sound, OnShelf, Types
    <2> QED
      BY <1>0, <1>1, <1>3, <2>1 DEF OnShelf
  <1>6. Queued(r)' /\ Owns(r)' /\ Refused(r)'
    BY <1>0, <1>3, <1>4 DEF Queued, Owns, Refused, Over, Holding
  <1> QED
    BY <1>2, <1>3, <1>5, <1>6, OneSound DEF Sound

\* It ends, and keeps a slot only as a lease.
LEMMA EndsMoves ==
    ASSUME WalkInv, NEW r \in Callers, NEW how \in Ways, Ends(r, how), OwnSlot(r),
           owned'[r] # NoKey => how = "answered" /\ r \in Leases,
           how = "busy" => waits[r],
           how = "exhausted" => Passed(r, "exhausted") \/ waits[r],
           how = "nokey" => Passed(r, "nokey") /\ ~Passed(r, "exhausted"),
           how = "unavailable" => Shelf[r] = <<>>
    PROVE  WalkInv'
  <1>0. Types /\ Sound(r)
    BY DEF WalkInv
  <1>1. Types'
    BY <1>0 DEF Types, Ends, GoesTo, OwnSlot, Phases
  <1>2. /\ phase'[r] = "done" /\ outcome'[r] = how
        /\ place' = place /\ skips' = skips /\ waits' = waits
        /\ \A q \in Callers \ {r} : Stays(q)
    BY <1>0 DEF Types, Ends, GoesTo, OwnSlot, Stays
  <1>3. OnShelf(r)' /\ Queued(r)'
    BY <1>0, <1>2 DEF Sound, OnShelf, Queued, AllFull
  <1>4. Owns(r)'
    BY <1>2 DEF Owns
  <1>5. Refused(r)'
    BY <1>2 DEF Refused, Passed, Ways, Over
  <1> QED
    BY <1>1, <1>2, <1>3, <1>4, <1>5, OneSound DEF Sound

\* It is over, and what it answered stays.
LEMMA StaysOver ==
    ASSUME WalkInv, NEW r \in Callers, phase[r] = "abandoned", GoesTo(r, "done"), OwnSlot(r),
           owned'[r] = NoKey, KeepsPlace, UNCHANGED tried
    PROVE  WalkInv'
  <1>0. Types /\ Sound(r)
    BY DEF WalkInv
  <1>1. Types'
    BY <1>0 DEF Types, GoesTo, KeepsPlace, OwnSlot, Phases
  <1>2. phase'[r] = "done" /\ \A q \in Callers \ {r} : Stays(q)
    BY <1>0 DEF Types, GoesTo, KeepsPlace, OwnSlot, Stays
  <1>3. OnShelf(r)' /\ Queued(r)' /\ Owns(r)' /\ Refused(r)'
    BY <1>0, <1>2 DEF Sound, OnShelf, Queued, AllFull, Owns, Refused, Passed, Over, KeepsPlace
  <1> QED
    BY <1>1, <1>2, <1>3, OneSound DEF Sound

-----------------------------------------------------------------------------
(* Every step                                                              *)

LEMMA ShelfFacts ==
    ASSUME NEW r \in Callers
    PROVE  Shelf[r] \in Seq(Providers) /\ Len(Shelf[r]) \in Nat /\ (Len(Shelf[r]) = 0 => Shelf[r] = <<>>)
  <1>1. Shelf[r] \in Seq(Providers)
    BY WalkAssumption DEF WalkAssumption
  <1> QED
    BY <1>1, EmptySeq

\* A request that looks for a slot stands on its shelf and owns nothing.
LEMMA SeekerFacts ==
    ASSUME WalkInv, NEW r \in Callers, Trying(r) \/ phase[r] = "queued"
    PROVE  /\ phase[r] \notin Over /\ place[r] <= Len(Shelf[r]) /\ owned[r] = NoKey
           /\ outcome[r] = "none" /\ (phase[r] = "queued" => waits[r])
  BY DEF WalkInv, Sound, OnShelf, Queued, Owns, Refused, Trying, Over, Holding

LEMMA CallerFacts ==
    ASSUME WalkInv, NEW r \in Callers, phase[r] \in {"calling", "failover", "streaming"}
    PROVE  /\ place[r] <= Len(Shelf[r]) /\ outcome[r] = "none"
           /\ owned[r] # NoKey => owned[r] \in KeysHere(r)
           /\ phase[r] = "failover" => owned[r] # NoKey
  BY DEF WalkInv, Sound, OnShelf, Owns, Refused, Over

LEMMA ExhaustionMoves ==
    ASSUME WalkInv, NEW r \in Callers, IsExhausted(r), NoSlotMoves,
           phase[r] \notin Over, place[r] <= Len(Shelf[r]), owned[r] = NoKey
    PROVE  WalkInv'
  <1>1. CASE PassesOver(r, "exhausted")
    BY <1>1, PassesOverMoves DEF Reasons
  <1>2. CASE waits[r] /\ Ends(r, "exhausted")
    BY <1>2, SlotMoves, EndsMoves DEF Ways
  <1> QED
    BY <1>1, <1>2 DEF IsExhausted

\* At the end of a shelf some Model ID was passed over for want of an account
\* or a key, or there was none.
LEMMA TerminalFacts ==
    ASSUME WalkInv, NEW r \in Callers, EndOfShelf(r), ~AllFull(r)
    PROVE  /\ TerminalError(r) \in Ways \ {"answered", "busy"} /\ owned[r] = NoKey
           /\ TerminalError(r) = "exhausted" => Passed(r, "exhausted")
           /\ TerminalError(r) = "nokey" => Passed(r, "nokey") /\ ~Passed(r, "exhausted")
           /\ TerminalError(r) = "unavailable" => Shelf[r] = <<>>
  <1>1. Types /\ Sound(r)
    BY DEF WalkInv
  <1>2. owned[r] = NoKey
    BY <1>1 DEF EndOfShelf, Sound, Owns, Refused, Over, Holding
  <1>3. Len(skips[r]) = Len(Shelf[r])
    <2>1. Len(skips[r]) \in Nat /\ Len(Shelf[r]) \in Nat
      BY <1>1, ShelfFacts DEF Types
    <2> QED
      BY <1>1, <2>1 DEF EndOfShelf, Sound, OnShelf
  <1>4. ASSUME ~Passed(r, "exhausted"), ~Passed(r, "nokey") PROVE Shelf[r] = <<>>
    <2>1. \A i \in 1 .. Len(Shelf[r]) : skips[r][i] = "full"
      BY <1>1, <1>3, <1>4 DEF Types, Reasons, Passed
    <2> QED
      BY <1>3, <2>1 DEF AllFull
  <1> QED
    BY <1>2, <1>4 DEF TerminalError, Ways

LEMMA WalkStepSound ==
    ASSUME WalkInv, NEW r \in Callers, WalkStep(r)
    PROVE  WalkInv'
  <1>0. Types /\ Sound(r)
    BY DEF WalkInv
  <1> USE DEF Phases, Over, Holding, Ways, Reasons
  <1>1. CASE TakesSlot(r)
    <2>1. PICK k \in Free(r) : Grant(r, k)
      BY <1>1 DEF TakesSlot
    <2>2. k \in KeysHere(r) /\ k # NoKey /\ k \in Keys
      <3>1. k \in KeysHere(r)
        BY DEF Free, Selectable
      <3>2. Shelf[r][place[r]] \in Providers
        <4>1. place[r] \in 1 .. Len(Shelf[r])
          BY <1>0, <1>1, SeekerFacts, ShelfFacts DEF TakesSlot, Sound, OnShelf, Types
        <4> QED
          BY <4>1, ShelfFacts, ElementOfSeq
      <3> QED
        BY <3>1, <3>2, WalkAssumption DEF WalkAssumption, KeysHere
    <2>3. OwnSlot(r) /\ owned'[r] = k
      BY <2>1, <2>2, SlotMoves
    <2>4. /\ GoesTo(r, "calling") /\ KeepsPlace /\ tried' \in [Callers -> SUBSET Keys]
          /\ phase[r] \notin Over /\ place[r] <= Len(Shelf[r])
      BY <1>0, <1>1, SeekerFacts DEF TakesSlot, Types
    <2> QED
      BY <2>2, <2>3, <2>4, PhaseMoves
  <1>2. CASE PoolIsFull(r)
    BY <1>2, SeekerFacts, PassesOverMoves DEF PoolIsFull
  <1>3. CASE Queues(r)
    BY <1>0, <1>3, SeekerFacts, SlotMoves, PhaseMoves DEF Queues, Types
  <1>4. CASE QueueTimesOut(r)
    BY <1>4, SeekerFacts, SlotMoves, EndsMoves DEF QueueTimesOut
  <1>5. CASE NoSelectableKey(r)
    BY <1>5, SeekerFacts, ExhaustionMoves DEF NoSelectableKey
  <1>6. CASE NoPoolToLease(r)
    BY <1>6, SeekerFacts, PassesOverMoves DEF NoPoolToLease
  <1>7. CASE CallsWithoutPool(r)
    BY <1>0, <1>7, SeekerFacts, SlotMoves, PhaseMoves DEF CallsWithoutPool, Types
  <1>8. CASE Answers(r)
    BY <1>8, SlotMoves, EndsMoves DEF Answers
  <1>9. CASE Fails(r)
    BY <1>9, SlotMoves, EndsMoves DEF Fails
  <1>10. CASE KeyIsSpent(r)
    <2>1. /\ OwnSlot(r) /\ owned'[r] = owned[r] /\ owned[r] # NoKey /\ owned[r] \in KeysHere(r)
          /\ place[r] <= Len(Shelf[r])
      BY <1>10, SlotMoves, CallerFacts DEF KeyIsSpent
    <2>2. owned[r] \in Keys
      BY <1>0, <2>1 DEF Types
    <2>3. tried' \in [Callers -> SUBSET Keys]
      BY <1>0, <1>10, <2>2 DEF KeyIsSpent, Types
    <2>4. GoesTo(r, "failover") /\ KeepsPlace /\ phase[r] \notin Over
      BY <1>10 DEF KeyIsSpent
    <2> QED
      BY <2>1, <2>3, <2>4, PhaseMoves
  <1>11. CASE FailsOver(r)
    BY <1>0, <1>11, SlotMoves, CallerFacts, PhaseMoves DEF FailsOver, Types
  <1>12. CASE AccountIsSpent(r)
    BY <1>12, CallerFacts, ExhaustionMoves DEF AccountIsSpent
  <1>13. CASE FirstChunk(r)
    BY <1>0, <1>13, SlotMoves, CallerFacts, PhaseMoves DEF FirstChunk, Types
  <1>14. CASE StreamEnds(r)
    BY <1>14, SlotMoves, EndsMoves DEF StreamEnds
  <1>15. CASE StreamBreaks(r)
    BY <1>15, SlotMoves, EndsMoves DEF StreamBreaks
  <1>16. CASE SlotIsLeased(r)
    BY <1>16, SlotMoves, EndsMoves DEF SlotIsLeased
  <1>17. CASE SecondPass(r)
    <2>1. OwnSlot(r) /\ owned' = owned
      BY <1>17, SlotMoves DEF SecondPass, NoSlotMoves, slotVars
    <2>2. Types'
      BY <1>0, <1>17, <2>1 DEF SecondPass, Types, OwnSlot
    <2>3. /\ place'[r] = 1 /\ waits'[r] /\ skips' = skips /\ phase' = phase /\ outcome' = outcome
          /\ phase[r] = "try" /\ AllFull(r)
          /\ \A q \in Callers \ {r} : Stays(q)
      BY <1>0, <1>17, <2>1 DEF SecondPass, EndOfShelf, Types, Stays
    <2>4. OnShelf(r)'
      BY <1>0, <2>3 DEF Sound, OnShelf
    <2>5. Queued(r)'
      BY <2>3 DEF Queued, AllFull
    <2>6. Owns(r)'
      BY <1>0, <2>1, <2>3 DEF Sound, Owns
    <2>7. Refused(r)'
      BY <1>0, <2>3 DEF Sound, Refused, Passed
    <2> QED
      BY <2>2, <2>3, <2>4, <2>5, <2>6, <2>7, OneSound DEF Sound
  <1>18. CASE Refuses(r)
    BY <1>18, TerminalFacts, SlotMoves, EndsMoves DEF Refuses
  <1>19. CASE Finalizes(r)
    BY <1>19, SlotMoves, StaysOver DEF Finalizes
  <1> QED
    BY <1>1, <1>2, <1>3, <1>4, <1>5, <1>6, <1>7, <1>8, <1>9, <1>10, <1>11, <1>12, <1>13, <1>14, <1>15,
       <1>16, <1>17, <1>18, <1>19 DEF WalkStep

LEMMA WalkInvStep == WalkInv /\ [WalkNext]_walkVars => WalkInv'
  <1> SUFFICES ASSUME WalkInv, [WalkNext]_walkVars PROVE WalkInv'
    OBVIOUS
  <1>1. ASSUME NEW r \in Callers, HangsUp(r) PROVE WalkInv'
    <2>1. OwnSlot(r) /\ owned'[r] = NoKey
      BY <1>1, SlotMoves DEF HangsUp
    <2>2. Types' /\ \A q \in Callers \ {r} : Stays(q)
      BY <1>1, <2>1 DEF HangsUp, WalkInv, Types, OwnSlot, Stays
    <2>3. Sound(r)'
      <3>1. OnShelf(r)' /\ Queued(r)'
        BY <1>1 DEF HangsUp, WalkInv, Sound, OnShelf, Queued, AllFull
      <3>2. Owns(r)'
        BY <1>1, <2>1 DEF HangsUp, Owns
      <3>3. Refused(r)'
        BY <1>1 DEF HangsUp, WalkInv, Sound, Refused, Passed
      <3> QED
        BY <3>1, <3>2, <3>3 DEF Sound
    <2> QED
      BY <2>2, <2>3, OneSound
  <1>2. ASSUME NEW r \in Callers, Cancel(r) PROVE WalkInv'
    BY <1>2, SlotMoves, EndsMoves DEF Cancel, Ways
  <1>5. ASSUME NEW r \in Callers, Abandons(r) PROVE WalkInv'
    <2>0. Types /\ Sound(r) /\ OwnSlot(r) /\ owned'[r] = owned[r]
      BY <1>5, SlotMoves DEF Abandons, WalkInv
    <2>1. Types'
      BY <1>5, <2>0 DEF Abandons, Types, GoesTo, OwnSlot, Phases, Ways
    <2>2. /\ phase[r] = "streaming" /\ phase'[r] = "abandoned" /\ outcome'[r] \in {"cancelled", "error"}
          /\ place' = place /\ skips' = skips /\ waits' = waits /\ outcome[r] = "none"
          /\ \A q \in Callers \ {r} : Stays(q)
      BY <1>5, <2>0 DEF Abandons, Types, GoesTo, OwnSlot, Stays, Sound, Refused, Over
    <2>3. OnShelf(r)' /\ Queued(r)' /\ Refused(r)'
      BY <2>0, <2>2 DEF Sound, OnShelf, Queued, AllFull, Refused, Passed, Over
    <2>4. Owns(r)'
      BY <2>0, <2>2 DEF Sound, Owns, Holding, KeysHere
    <2> QED
      BY <2>1, <2>2, <2>3, <2>4, OneSound DEF Sound
  <1>3. ASSUME NEW k \in Keys, QuarantineEnds(k) PROVE WalkInv'
    <2>1. Types' /\ \A r \in Callers : Stays(r)
      BY <1>3 DEF QuarantineEnds, Unbar, WalkInv, Types, Stays
    <2> QED
      BY <2>1, StaysSound DEF WalkInv
  <1>4. CASE UNCHANGED walkVars
    <2>1. Types' /\ \A r \in Callers : Stays(r)
      BY <1>4 DEF walkVars, slotVars, WalkInv, Types, Stays
    <2> QED
      BY <2>1, StaysSound DEF WalkInv
  <1> QED
    BY <1>1, <1>2, <1>3, <1>4, <1>5, WalkStepSound DEF WalkNext

LEMMA WalkInvInit == WalkInit => WalkInv
  <1> SUFFICES ASSUME WalkInit PROVE WalkInv
    OBVIOUS
  <1>1. Types
    BY DEF WalkInit, SlotInit, Types, Phases
  <1>2. ASSUME NEW r \in Callers PROVE Sound(r)
    <2>1. skips[r] = <<>> /\ ~waits[r] /\ place[r] = 1 /\ phase[r] = "try" /\ outcome[r] = "none" /\ owned[r] = NoKey
      BY DEF WalkInit, SlotInit
    <2>2. Len(skips[r]) = 0 /\ Len(Shelf[r]) \in Nat
      BY <2>1, ShelfFacts
    <2> QED
      BY <2>1, <2>2 DEF Sound, OnShelf, Queued, Owns, Refused, Over, Holding
  <1> QED
    BY <1>1, <1>2 DEF WalkInv

LEMMA WalkInvariant == WalkSpec => []WalkInv
  BY WalkInvInit, WalkInvStep, PTL DEF WalkSpec

-----------------------------------------------------------------------------
(* Theorems                                                                *)

\* run and run_stream of VcrAutoWalk: whatever the shelf, a request queues only
\* after every Model ID was found full, and in the first one's pool.
THEOREM QueuesLast == WalkSpec => []QueuesOnlyWhenAllFull
  <1>1. WalkInv => QueuesOnlyWhenAllFull
    BY DEF WalkInv, Sound, OnShelf, Queued, AllFull, QueuesOnlyWhenAllFull
  <1> QED
    BY <1>1, WalkInvariant, PTL

\* _lease_slot, the finally of every call and the generators a client leaves at
\* a yield: no request looks for a slot with one in its hand, however shelves,
\* pools and caps are arranged, and a slot outlives its request only as a lease
\* or until the abandoned generators are finalized.
THEOREM HoldsNoSlotWaiting == WalkSpec => []NoHoldAndWait
  <1>1. WalkInv => NoHoldAndWait
    BY DEF WalkInv, Sound, Owns, Holding, NoHoldAndWait
  <1> QED
    BY <1>1, WalkInvariant, PTL

\* _raise_terminal: the error of a walk names what it met, for every shelf.
THEOREM RefusalsExplained == WalkSpec => []RefusalExplains
  <1>1. WalkInv => RefusalExplains
    BY DEF WalkInv, Sound, Refused, RefusalExplains
  <1> QED
    BY <1>1, WalkInvariant, PTL

\* run_stream after its first chunk: every step of every request leaves a
\* streaming one on its Model ID or ends it.
THEOREM StreamsStay == WalkSpec => OutputEndsWalk
  <1>1. ASSUME WalkInv, [WalkNext]_walkVars
        PROVE  [\A r \in Callers : phase[r] = "streaming" =>
                   phase'[r] \in {"streaming", "abandoned", "done"} /\ place'[r] = place[r]]_walkVars
    <2> SUFFICES ASSUME WalkNext, NEW r \in Callers, phase[r] = "streaming"
                 PROVE  phase'[r] \in {"streaming", "abandoned", "done"} /\ place'[r] = place[r]
      BY <1>1
    <2>0. Types
      BY <1>1 DEF WalkInv
    <2>1. ASSUME NEW q \in Callers, WalkStep(q) \/ HangsUp(q) \/ Cancel(q) \/ Abandons(q), q # r
          PROVE  phase'[r] = phase[r] /\ place'[r] = place[r]
      BY <2>0, <2>1
         DEF Types, WalkStep, HangsUp, Cancel, Abandons, Finalizes, TakesSlot, PoolIsFull, Queues, QueueTimesOut, NoSelectableKey,
             NoPoolToLease, CallsWithoutPool, Answers, Fails, KeyIsSpent, FailsOver, AccountIsSpent, FirstChunk,
             StreamEnds, StreamBreaks, SlotIsLeased, SecondPass, Refuses, IsExhausted, PassesOver, Ends,
             GoesTo, KeepsPlace
    <2>2. ASSUME WalkStep(r) \/ HangsUp(r) \/ Cancel(r) \/ Abandons(r)
          PROVE  phase'[r] \in {"abandoned", "done"} /\ place'[r] = place[r]
      BY <2>0, <2>2
         DEF Types, WalkStep, HangsUp, Cancel, Abandons, Finalizes, TakesSlot, PoolIsFull, Queues, QueueTimesOut, NoSelectableKey,
             NoPoolToLease, CallsWithoutPool, Answers, Fails, KeyIsSpent, FailsOver, AccountIsSpent, FirstChunk,
             StreamEnds, StreamBreaks, SlotIsLeased, SecondPass, EndOfShelf, Refuses, Ends, GoesTo, Trying
    <2>3. ASSUME NEW k \in Keys, QuarantineEnds(k)
          PROVE  phase'[r] = phase[r] /\ place'[r] = place[r]
      BY <2>3 DEF QuarantineEnds
    <2> QED
      BY <2>1, <2>2, <2>3 DEF WalkNext
  <1> QED
    BY <1>1, WalkInvariant, PTL DEF WalkSpec, OutputEndsWalk
=============================================================================
