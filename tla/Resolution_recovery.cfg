CONSTANTS
    i1 = i1
    i2 = i2
    Issue <- OneIssue
    MaxAttempts = 2
    MaxApprovals = 2
    Concurrency = 1
    MaxRestarts = 0
    MaxFailures = 0
    EarlyRun = TRUE
SPECIFICATION ResSpec
PROPERTIES
    RecoveryEndsOnlyPrevious
CHECK_DEADLOCK FALSE
