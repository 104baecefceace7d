CONSTANTS
    c1 = c1
    c2 = c2
    c3 = c3
    s1 = s1
    s2 = s2
    Connections = {c1, c2, c3}
    Servers = {s1, s2}
    ServerOf <- MCServerOf
    Nobody = Nobody
    NoServer = NoServer
    MaxPosted = 2
    MaxVisits = 1
SPECIFICATION SinkSpec
CHECK_DEADLOCK FALSE
INVARIANTS
    SinkTypeOK
    AttemptReported
    ActiveIsHeld
    OnePlays
    BesideAHolder
    LastWasHolder
PROPERTIES
    AttemptLeftAlone
SYMMETRY SameServer
