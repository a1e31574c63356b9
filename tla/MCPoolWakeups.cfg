\* Two keys of one slot each and four callers that exclude any keys;
\* a quarantine expires or ends by Quarantine Release.
CONSTANTS
    Callers = {c1, c2, c3, c4}
    KeyCount = 2
    Cap = 1
    RoundRobin = FALSE
    AcquireDelay = TRUE
    AutoExpiry = TRUE
    Excludes <- AllExcludes
SPECIFICATION PoolSpec
SYMMETRY Symmetry
INVARIANT PoolTypeOK
INVARIANT SlotAccounting
INVARIANT CapRespected
INVARIANT WaitingAccounting
PROPERTY NoLostWakeup
PROPERTY ImplementsKeySlots
