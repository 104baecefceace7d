CONSTANTS
    c1 = c1
    Connections = {c1}
    Conn = c1
    Nobody = Nobody
    NoRecord = NoRecord
    Methods = {"dynamic", "static"}
    Dialect = "specification"
    RoundLimit = 2
    WindowFailures = 1
    MaxIndex = 2
    MaxRounds = 2
    MaxActs = 1
SPECIFICATION FlowSpec
CHECK_DEADLOCK FALSE
INVARIANTS
    FlowTypeOK
    RecordsAgree
    RecordIsProved
    NoProtocolError
PROPERTIES
    AttemptsEnd
