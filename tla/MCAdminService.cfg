SPECIFICATION MCSpec
CONSTANTS
    a = a
    b = b
    r1 = r1
    r2 = r2
    r3 = r3
    r4 = r4
    r5 = r5
    r6 = r6
    r7 = r7
    r8 = r8
    r9 = r9
    r10 = r10
    k1 = k1
    k2 = k2
    k3 = k3
    k4 = k4
    k5 = k5
    k6 = k6
    k7 = k7
    Clients = {a, b}
    Requests = {r1, r2, r3, r4, r5, r6, r7, r8, r9, r10}
    Ops <- MCOps
    OpOf <- MCOpOf
    KeyOf <- MCKeyOf
    MaxSessions = 2
    MaxRelays = 2
    MaxFaults = 2
INVARIANT NoLostUpdate
INVARIANT CarriedOutOnce
INVARIANT SuccessIsRecorded
INVARIANT RevokedIsLockedOut
CHECK_DEADLOCK FALSE
