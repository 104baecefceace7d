CONSTANTS
    c1 = c1
    c2 = c2
    Connections = {c1, c2}
    Nobody = Nobody
    Methods = {"dynamic", "static"}
    Dialect = "specification"
    RoundLimit = 2
    WindowFailures = 2
    MaxIndex = 2
    MaxRounds = 3
    MaxActs = 2
SPECIFICATION ClientSpec
INVARIANTS
    ClientTypeOK
    RoundsBounded
    FailuresBounded
SYMMETRY AnyConnection
