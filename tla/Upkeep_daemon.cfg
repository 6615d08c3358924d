CONSTANTS
    Pull <- MCPull
    Sha <- ThreeCommits
    NoSha = 0
    RoundCap = 1
    MaxRetries = 0
    MaxRestarts = 1
    MaxFailures = 1
SPECIFICATION FairSpec
INVARIANTS
    RoundsAreAttended
    AnswerLands
PROPERTIES
    ImplementsBump
    PushesReplaceFailures
    NothingWaitsForEver
CHECK_DEADLOCK FALSE
