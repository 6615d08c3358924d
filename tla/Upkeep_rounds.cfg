CONSTANTS
    Pull <- MCPull
    Sha <- TwoCommits
    NoSha = 0
    RoundCap = 2
    MaxRetries = 1
    MaxRestarts = 2
    MaxFailures = 0
SPECIFICATION UpkeepSpec
INVARIANTS
    Loadable
    CapHolds
    RoundsAreJustified
CHECK_DEADLOCK FALSE
