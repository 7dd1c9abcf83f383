SPECIFICATION Spec
CONSTANTS
    Requests = {r1}
    MaxControls = 3
    MaxTurns = 2
    MaxGens = 2
    MaxBoots = 2
    Faults = {"drop", "deny", "refuse"}
INVARIANTS
    ExecutedOnce
    IdleIsReal
    AnsweredOnce
PROPERTY
    DecisionIsFinal
CHECK_DEADLOCK FALSE
