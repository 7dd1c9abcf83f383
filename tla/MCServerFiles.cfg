SPECIFICATION FilesSpec
CONSTANTS
    Budgets <- AllScenarios
    Life = 2
    Renew = 1
    Nothing = Nothing
INVARIANTS
    CANotLost
    CAContinuity
    ServedChains
    RestoreIsExact
    AccountMatches
CHECK_DEADLOCK FALSE
