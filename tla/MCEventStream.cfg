SPECIFICATION StreamSpec
CONSTANTS
    Keep = 6
    PageSize = 2
    PendingLimit = 4
    LogBound = 11
    Budgets <- MCBudgets
INVARIANT
    CursorConsistent
    GapsClose
CHECK_DEADLOCK FALSE
