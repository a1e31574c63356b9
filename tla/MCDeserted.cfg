\* One key: its holder finds it exhausted while two requests queue behind.
CONSTANTS
    c1 = c1
    c2 = c2
    c3 = c3
    Callers = {c1, c2, c3}
    Queueing = {c1, c2, c3}
    KeyCount = 1
    Cap = 1
    RoundRobin = FALSE
    AcquireDelay = FALSE
    AutoExpiry = FALSE
    Excludes <- AllExcludes
SPECIFICATION FailoverSpec
INVARIANT NobodyDeserted
