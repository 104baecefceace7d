CONSTANTS
    c1 = c1
    c2 = c2
    c3 = c3
    s1 = s1
    s2 = s2
    Connections = {c1, c2, c3}
    Servers = {s1, s2}
    ServerOf <- MCServerOf
    Nobody = Nobody
    NoServer = NoServer
    MaxConnections = 3
    Forgettable = {s1}
SPECIFICATION BoardSpec
INVARIANTS
    BoardTypeOK
    ActiveIsHeld
    OnePlays
    LastsAgree
    ForgottenLeaves
SYMMETRY SameServer
