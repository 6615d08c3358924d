CONSTANTS
    Issue <- MCIssue
    MaxAttempts = 1
    MaxApprovals = 3
    MaxDeliveries = 3
    MaxFailures = 1
    Trusted = {}
SPECIFICATION FairInboxSpec
INVARIANTS
    NoLostWakeup
    FollowsLog
    OneApprovalPerLabel
PROPERTIES
    EveryDeliveryIsProcessed
CHECK_DEADLOCK FALSE
