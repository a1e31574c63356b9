CONSTANTS
    c1 = c1
    c2 = c2
    c3 = c3
    n1 = n1
    n2 = n2
    Conns = {c1, c2}
    Names = {n1, n2}
    TokensOf <- OwnTokens
    MaxMembers = 2
    None = None
    Host = Host
    Deleters = {d}
    GapTasks = {g1, g2}
    TurnTasks = {t1, t2}
    RoundRobin = TRUE
    TurnGaps = {TRUE, FALSE}
    MaxQueue = 1
    MaxUnderWay = 2
INIT EitherStart
CONSTRAINT StartBounds
NEXT RoomNext
SYMMETRY TaskSymmetry
INVARIANT IndexNamesOwner
INVARIANT TurnIsTimed
INVARIANT AwaitedTasksEnd
CHECK_DEADLOCK FALSE
