SPECIFICATION SweepSpec
CONSTANTS
    s1 = s1
    SessionIds = {s1}
    Passages = 2
    ScanBound = 2
    JudgeBudget = 3
    OpenCeiling = 2
    ErrorBudget = 2
    Erring <- MCErring
    Backlog = 2
    MaxUserEvents = 3
    MaxFaults = 1
CHECK_DEADLOCK FALSE
INVARIANTS
    NothingSkipped
    OpenOnce
PROPERTY EventuallySettled
