------------------------------ MODULE Service ------------------------------
(***************************************************************************)
(* What the scheduler promises across cases, without saying how: jobs      *)
(* become ready, at most Slots of them run at once, a run ends by putting  *)
(* the job back, aside or away, and a job that is over stays over.  A run  *)
(* the store lost track of is stranded until somebody ends it; it is the   *)
(* only thing that is not counted.                                         *)
(***************************************************************************)
EXTENDS Naturals, FiniteSets

CONSTANTS
    Job,    \* the jobs
    Slots   \* how many may run at once

VARIABLE status     \* status[j]: where job j is

Status == {"idle", "ready", "running", "stranded", "over"}

Running == {j \in Job : status[j] = "running"}

Init == status = [j \in Job |-> "idle"]

Goes(j, from, to) == status[j] \in from /\ status' = [status EXCEPT ![j] = to]

Ready(j) == Goes(j, {"idle"}, "ready")

Start(j) == Cardinality(Running) < Slots /\ Goes(j, {"ready"}, "running")

\* The run begins, or goes on, without anybody to end it.
Strand(j) == Goes(j, {"ready", "running"}, "stranded")

End(j) == \E to \in {"idle", "ready", "over"} : Goes(j, {"running", "stranded"}, to)

Withdraw(j) == Goes(j, {"idle", "ready"}, "over")

Next == \E j \in Job : Ready(j) \/ Start(j) \/ Strand(j) \/ End(j) \/ Withdraw(j)

ServiceSpec == Init /\ [][Next]_status
=============================================================================
