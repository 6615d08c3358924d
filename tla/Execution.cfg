CONSTANTS
    MaxTurns = 3
SPECIFICATION FairExecSpec
INVARIANTS
    StopIsTrue
    WorkIsReachable
PROPERTIES
    PullRequestsAreClean
    OutcomeIsKept
    AttemptReturns
CHECK_DEADLOCK FALSE
