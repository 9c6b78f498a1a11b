CONSTANTS
    s1 = s1
    s2 = s2
    s3 = s3
    p1 = p1
    p2 = p2
    c1 = c1
    c2 = c2
    NoSession = NoSession
    NoProfile = NoProfile
    Nobody = Nobody
    Sessions = {s1, s2, s3}
    Profiles = {p1}
    Clients = {c1}
    CommandCap = 1
SPECIFICATION Spec
INVARIANT OneSessionPerProfile
CHECK_DEADLOCK FALSE
