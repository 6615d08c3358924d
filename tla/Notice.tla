------------------------------- MODULE Notice -------------------------------
(***************************************************************************)
(* What the outbox promises of the comments: one that was queued is on the *)
(* issue before it is settled, nothing is posted after that, and every     *)
(* repeated copy is paid for by a failure or a crash.                      *)
(***************************************************************************)
EXTENDS Naturals

CONSTANT Item       \* the comments there may be

VARIABLES
    queued,     \* the comments asked for
    onIssue,    \* the comments GitHub shows at least once
    settled,    \* the comments nobody posts any more
    repeats,    \* copies of comments GitHub showed already
    slips       \* failures and crashes so far

Init ==
    /\ queued = {} /\ onIssue = {} /\ settled = {}
    /\ repeats = 0 /\ slips = 0

Queue(x) ==
    /\ x \notin queued
    /\ queued' = queued \cup {x}
    /\ slips' >= slips
    /\ UNCHANGED <<onIssue, settled, repeats>>

Post(x) ==
    /\ x \in queued \ settled
    /\ onIssue' = onIssue \cup {x}
    /\ repeats' = repeats + (IF x \in onIssue THEN 1 ELSE 0)
    /\ repeats' <= slips
    /\ slips' >= slips
    /\ UNCHANGED <<queued, settled>>

Settle(x) ==
    /\ x \in queued \cap onIssue
    /\ settled' = settled \cup {x}
    /\ slips' >= slips
    /\ UNCHANGED <<queued, onIssue, repeats>>

Slip ==
    /\ slips' > slips
    /\ UNCHANGED <<queued, onIssue, settled, repeats>>

Next == Slip \/ \E x \in Item : Queue(x) \/ Post(x) \/ Settle(x)

NoticeSpec == Init /\ [][Next]_<<queued, onIssue, settled, repeats, slips>>
=============================================================================
