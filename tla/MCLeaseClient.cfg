SPECIFICATION ClientSpec
CONSTANTS
    a = a
    b = b
    Clients = {a, b}
    NoClient = NoClient
    TTL = 1
    LastEpoch = 2
    MaxTime = 1
    MaxPending = 1
    MaxQueue = 0
    MaxConnects = 3
    MaxAdmin = 1
INVARIANTS
    SettledViewIsCurrent
PROPERTIES
    TakeoverAsConfirmed
SYMMETRY Browsers
CHECK_DEADLOCK FALSE
