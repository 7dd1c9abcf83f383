SPECIFICATION Spec
CONSTANTS
    a = a
    b = b
    a1 = a1
    a2 = a2
    b1 = b1
    Clients = {a, b}
    NoClient = NoClient
    TTL = 1
    Sessions = {a1, a2, b1}
    ClientOf <- MCClientOf
    NoOne = NoOne
    Expected <- MCExpected
    MaxEpoch = 2
    MaxClock = 1
PROPERTIES
    FencedForwarding
    KeepsPromise
    LeaseFramesInOrder
CHECK_DEADLOCK FALSE
