CONSTANTS
    Issue <- MCIssue
    MaxAttempts = 2
    MaxApprovals = 1
    GiveUp = 2
    MaxFailures = 1
    MaxRestarts = 1
SPECIFICATION FairOutboxSpec
INVARIANTS
    CallsAreBounded
    Loadable
    RunsAreJustified
    GateHolds
    ApprovedRunsArePaid
PROPERTIES
    ImplementsNotice
    EveryIssueIsSized
    EveryReportIsPosted
CHECK_DEADLOCK FALSE
