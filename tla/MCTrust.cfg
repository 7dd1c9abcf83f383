SPECIFICATION MCSpec
CONSTANTS
    Nodes = {n1}
    Clients = {c1}
    Pairings = {p1, p2}
    Deciders = {d1}
    NoNode = NoNode
    NoClient = NoClient
    Others = 1
    MaxSyncs = 2
    MaxLate = 1
    MaxCrashes = 1
INVARIANTS
    TrustIsBacked
PROPERTIES
    RevocationSticks
    RevocationReaches
