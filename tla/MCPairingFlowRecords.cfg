CONSTANTS
    c1 = c1
    Connections = {c1}
    Conn = c1
    Nobody = Nobody
    NoRecord = NoRecord
    Methods = {"psk"}
    Dialect = "specification"
    RoundLimit = 1
    WindowFailures = 1
    MaxIndex = 2
    MaxRounds = 1
    MaxActs = 0
SPECIFICATION FlowSpec
CHECK_DEADLOCK FALSE
INVARIANTS
    RecordsAgree
