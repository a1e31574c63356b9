CONSTANTS
    c1 = c1
    c2 = c2
    kc = kc
    kp = kp
    m1 = m1
    m2 = m2
    m3 = m3
    lo = lo
    hi = hi
    q1 = q1
    Calls = {c1, c2}
    Keys = {kc, kp}
    Personal = {kp}
    Models = {m1, m2, m3}
    VcrAuto = VcrAuto
    Tiers <- TierNames
    Documents <- ThreeDocuments
    Endpoints <- Called
    Questions = {q1}
    MaxEdits = 1
    MaxFaults = 1
    None = None
SPECIFICATION ApiSpec
SYMMETRY Symmetry
INVARIANT ServedIsCounted
CHECK_DEADLOCK FALSE
