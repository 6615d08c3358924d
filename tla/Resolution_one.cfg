CONSTANTS
    i1 = i1
    i2 = i2
    Issue <- OneIssue
    MaxAttempts = 1
    MaxApprovals = 1
    Concurrency = 1
    MaxRestarts = 1
    MaxFailures = 1
    EarlyRun = TRUE
SPECIFICATION SweepSpec
INVARIANTS
    NoOrphan
PROPERTIES
    ImplementsCase
    AttemptsEnd
    ClosedIsCancelled
CHECK_DEADLOCK FALSE
