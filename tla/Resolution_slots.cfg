CONSTANTS
    i1 = i1
    i2 = i2
    Issue <- TwoIssues
    MaxAttempts = 2
    MaxApprovals = 0
    Concurrency = 1
    MaxRestarts = 1
    MaxFailures = 1
    EarlyRun = FALSE
SPECIFICATION ResSpec
INVARIANTS
    RunnerOwnsAttempt
SYMMETRY Symmetry
PROPERTIES
    ImplementsService
CHECK_DEADLOCK FALSE
