------------------------------ MODULE KeySlots ------------------------------
(***************************************************************************)
(* What a key pool promises, without its counters, queue and wake-ups:     *)
(* every key is a semaphore of Cap slots, a slot is granted only on a key  *)
(* that is not in Key Quarantine, only its owner gives it back, and an     *)
(* owner has one slot.  Key Quarantine strikes only a key somebody holds.  *)
(***************************************************************************)
EXTENDS Integers, FiniteSets

CONSTANTS Callers, Keys, Cap, NoKey

VARIABLES
    owned,          \* the key whose slot each caller owns, or NoKey
    barred          \* the keys in Key Quarantine

slotVars == <<owned, barred>>

Owners(k) == {c \in Callers : owned[c] = k}

HasRoom(k) == Cap = 0 \/ Cardinality(Owners(k)) < Cap

Grant(c, k) ==
    /\ owned[c] = NoKey
    /\ k \notin barred /\ HasRoom(k)
    /\ owned' = [owned EXCEPT ![c] = k]
    /\ UNCHANGED barred

Return(c) ==
    /\ owned[c] # NoKey
    /\ owned' = [owned EXCEPT ![c] = NoKey]
    /\ UNCHANGED barred

Bar(k) ==
    /\ Owners(k) # {}
    /\ barred' = barred \cup {k}
    /\ UNCHANGED owned

Unbar(k) ==
    /\ barred' = barred \ {k}
    /\ UNCHANGED owned

SlotInit == owned = [c \in Callers |-> NoKey] /\ barred = {}

SlotNext ==
    \/ \E c \in Callers : Return(c) \/ \E k \in Keys : Grant(c, k)
    \/ \E k \in Keys : Bar(k) \/ Unbar(k)

SlotSpec == SlotInit /\ [][SlotNext]_slotVars
=============================================================================
