SPECIFICATION Spec
CONSTANTS
    n1 = n1
    n2 = n2
    c1 = c1
    c2 = c2
    e1 = e1
    e2 = e2
    Nodes = {n1, n2}
    Candidates = {c1, c2}
    Enrollments = {e1, e2}
    Invited = {n2}
    MaxActive = 2
    MaxConns = 2
    MaxRequests = 2
    MaxCreds = 2
    MaxFaults = 1
SYMMETRY Symmetric
INVARIANT OneNodeLeft
INVARIANT AdmittedAsSigned
PROPERTY RevokedIssuerAdmitsNobody
CHECK_DEADLOCK FALSE
