SPECIFICATION Spec
CONSTANTS
    a = a
    b = b
    w1 = w1
    w2 = w2
    None = None
    Instances = {a, b}
    Default = a
    Workspaces = {w1, w2}
    Sessions = {s1}
    Tasks = {t1, t2}
    Configs <- MCConfigs
    Dirs = {d1, d2}
    Capacity = 1
    MaxEvents <- MCMaxEvents
    MaxTurns = 1
    MaxSwaps = 1
INVARIANTS
    EventsInOrder
    TaskIsItsSession
    UncertainHasTask
    StopNotStuck
CHECK_DEADLOCK FALSE
SYMMETRY TaskSymmetry
