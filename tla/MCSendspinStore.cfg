CONSTANTS
    s1 = s1
    s2 = s2
    s3 = s3
    p1 = p1
    p2 = p2
    k1 = k1
    k2 = k2
    Servers = {s1, s2, s3}
    NoServer = NoServer
    Secrets = {p1, p2}
    Keys = {k1, k2}
    NoKey = NoKey
    Capacity = 2
SPECIFICATION Spec
INVARIANTS
    FlashFollows
    PairedIsKept
    RemovedIsGone
SYMMETRY Alike
