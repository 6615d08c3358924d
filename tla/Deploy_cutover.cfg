CONSTANTS
    a1 = a1
    r1 = r1
    d1 = d1
    d2 = d2
    Attempt = {a1}
    Round = {r1}
    Delivery = {d1, d2}
    Tag <- Tags
    Odd <- OddTags
    NoTag = 0
    First = 1
    Nobody = nobody
SPECIFICATION FairSpec
INVARIANTS
    NotBehindInstalled
    RestartsArePaid
PROPERTIES
    AbortsAreLate
    DeferralIsServed
CHECK_DEADLOCK FALSE
