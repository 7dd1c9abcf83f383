SPECIFICATION Spec
CONSTANTS
    Times = {0, 2}
    Sizes = {1, 2}
    MaxFrame = 2
    MaxSequence = 4
    Retentions <- MCRetentions
    ReplayLimit = 2
    Cursors = {0, 1, 2}
    MaxLog = 4
INVARIANTS
    RetainedSuffix
    GapIsReal
PROPERTIES
    ReplayUninterrupted
