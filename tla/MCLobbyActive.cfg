CONSTANTS
    c1 = c1
    c2 = c2
    c3 = c3
    n1 = n1
    n2 = n2
    Conns = {c1, c2}
    Names = {n1, n2}
    TokensOf <- OwnTokens
    MaxMembers = 2
    None = None
    Host = Host
    Deleters = {}
    GapTasks = {g1, g2}
    TurnTasks = {t1, t2}
    RoundRobin = TRUE
    TurnGaps = {TRUE}
    MaxQueue = 0
    MaxUnderWay = 2
INIT TwoJoined
NEXT RoomNext
SYMMETRY TaskSymmetry
INVARIANT ActiveRoomHasTurn
CHECK_DEADLOCK FALSE
