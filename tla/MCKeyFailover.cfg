\* Two keys of one slot, rotating ties, quarantines that end by themselves;
\* two requests that queue and one that does not (a vcr-auto first pass).
CONSTANTS
    c1 = c1
    c2 = c2
    c3 = c3
    Callers = {c1, c2, c3}
    Queueing = {c1, c2}
    KeyCount = 2
    Cap = 1
    RoundRobin = TRUE
    AcquireDelay = FALSE
    AutoExpiry = TRUE
    Excludes <- AllExcludes
SPECIFICATION FairFailoverSpec
PROPERTY ImplementsPool
PROPERTY NeverSameKeyTwice
PROPERTY EveryRequestEnds
