CONSTANTS
    c1 = c1
    c2 = c2
    kc = kc
    kp = kp
    m1 = m1
    m2 = m2
    m3 = m3
    lo = lo
    hi = hi
    q1 = q1
    Calls = {c1, c2}
    Keys = {kc, kp}
    Personal = {kp}
    Models = {m1, m2, m3}
    VcrAuto = VcrAuto
    Tiers <- TierNames
    Documents <- ThreeDocuments
    Endpoints <- Called
    Questions = {q1}
    MaxEdits = 1
    MaxFaults = 1
    None = None
    r1 = r1
    r2 = r2
    r3 = r3
    Rows = {r1, r2, r3}
    SessionCap = 2
    Throttle = 2
    IdleLimit = 3
    AbsoluteLimit = 4
    Retention = 1
    Handoffs = {h1}
    HandoffLimit = 1
    NotYet = NotYet
    a1 = a1
    a2 = a2
    a3 = a3
    Requests = {a1, a2, a3}
    Cooldown = 2
    LockLimit = 2
    Never = Never
    p1 = p1
    p2 = p2
    credit = credit
    think = think
    Readers = {p1, p2}
    Figures = {credit, think}
    KeepsFailures = {think}
    TTL = 3
    Timeout = 2
    NoFigure = NoFigure
    k1 = k1
    k2 = k2
    Kinds = {k1, k2}
    FetchTimeout = 2
    Budget = 3
    Delays <- MCDelays
    MaxRounds = 2
    e1 = e1
    e2 = e2
    d1 = d1
    d2 = d2
    easy = easy
    hard = hard
    Sittings = {t1}
    TierIds = {easy, hard}
    Drafts <- Brought
    Files <- FromDisk
    DecisionIds = {d2}
    Starter <- Shipped
    Editors = {e1, e2}
    Missing = Missing
SPECIFICATION ServicesSpec
SYMMETRY AnyOrder
INVARIANT ServicesTypeOK
INVARIANT CountedIfKept
INVARIANT SelectionSound
INVARIANT LiveSessionsSound
PROPERTY LoginsEndAsPromised
INVARIANT AgentReleasesSpaced
INVARIANT FigureFresh
PROPERTY CatalogHolds
INVARIANT StoredDocumentsHold
CHECK_DEADLOCK FALSE
