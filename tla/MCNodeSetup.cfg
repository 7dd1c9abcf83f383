SPECIFICATION MCSpec
CONSTANTS
    m1 = m1
    m2 = m2
    m3 = m3
    m4 = m4
    j1 = j1
    j2 = j2
    j3 = j3
    j4 = j4
    j5 = j5
    i1 = i1
    i2 = i2
    Machines = {m1, m2, m3, m4}
    Jobs = {j1, j2, j3, j4, j5}
    Bundles = {j1, j2}
    JobOf <- MCJobOf
    Legacy = {m4}
    Invites = {i1, i2}
    InitialInvites = {i1}
    MaxSecrets = 1
    MaxNodes = 2
    MaxSeeds = 2
    MaxFailures = 1
SYMMETRY MCSymmetry
INVARIANT BoundToOwnRow
INVARIANT ConfigIsUsable
INVARIANT KeyMatchesRow
