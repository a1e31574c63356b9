\* A stream, a plain call and a realtime lease over two pools and a provider
\* without keys; every key has one slot.
CONSTANTS
    call = call
    stream = stream
    lease = lease
    Callers = {call, stream, lease}
    Streams = {stream}
    Leases = {lease}
    Providers <- MCProviders
    Shelf <- MCShelf
    KeysOf <- MCKeysOf
    Keys <- MCKeys
    Cap = 1
    NoKey = NoKey
SPECIFICATION WalkSpec
INVARIANT QueuesOnlyWhenAllFull
INVARIANT NoHoldAndWait
INVARIANT RefusalExplains
PROPERTY OutputEndsWalk
PROPERTY EveryWalkEnds
CHECK_DEADLOCK FALSE
