CONSTANTS
    a1 = a1
    a2 = a2
    r1 = r1
    case = case
    bump = bump
    Attempt <- AndARound
    Round <- OneRound
    Branch <- BothBranches
    BranchOf <- OnBoth
    Outsider = {o1}
    Markers = markers
    Absent = absent
    Nobody = nobody
    MaxEvents = 1
SPECIFICATION FairSpec
INVARIANTS
    HostGitAlone
PROPERTIES
    ImplementsExclusion
    PushOnlyAdds
    NoMarkersReported
    EveryoneIsServed
CHECK_DEADLOCK FALSE
