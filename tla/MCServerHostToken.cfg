CONSTANTS
    a = a
    u = u
    Clients = {a}
    Urls = {u}
    ClientAt <- MCClientAt
    NoClient = NoClient
    NoUrl = NoUrl
    MaxConnections = 2
    MaxPosted = 2
    MaxCalls = 2
SPECIFICATION Spec
CHECK_DEADLOCK FALSE
INVARIANTS
    TokenIsNamed
