------------------------------- MODULE Outbox -------------------------------
(***************************************************************************)
(* The way out: the triage service, which sizes the received cases with a  *)
(* paid model call, and the commenter, which queues a comment for every    *)
(* Large triage and every outcome a human should hear of, and posts it.    *)
(* Both are steps of the dispatcher's sweep.                               *)
(*                                                                         *)
(* The case's other commands come from where they come from in Resolution: *)
(* the translator's between the steps modelled here, an attempt's and the  *)
(* operator's at any moment.  A list is visited in any order.              *)
(***************************************************************************)
EXTENDS Case

CONSTANTS
    GiveUp,         \* triageGiveUp: failed sizings that park a case
    MaxFailures,    \* bound on store, GitHub and connection failures
    MaxRestarts     \* bound on crashes of the daemon

ASSUME OutboxAssumption ==
    /\ GiveUp \in Nat \ {0}
    /\ MaxFailures \in Nat
    /\ MaxRestarts \in Nat

VARIABLES
    enrolled,   \* the cases' repository is not removed
    refuses,    \* refuses[i], GitHub for good: "nothing", "posts" (the issue is
                \* locked) or "all" requests about the issue (it is deleted)
    up,         \* the daemon runs
    hung,       \* a call of the sweep never answers
    step,       \* the sweep: "idle", "triage", "enqueue" or "post"
    todo,       \* what the step listed and has not visited: cases or comments
    tries,      \* tries[i]: failed sizings since the boot
    waiting,    \* waiting[i]: the backoff after one has not passed
    sizing,     \* the size triage has for a case and has not recorded, if any
    calls,      \* calls[i]: paid model calls so far
    queued,     \* the comments in the outbox
    settled,    \* the comments whose post is recorded
    sent,       \* the comment GitHub took and whose post is not recorded, if any
    onIssue,    \* GitHub: the comments the issue shows at least once
    repeats,    \* GitHub: further copies of a comment
    failures,   \* failures so far
    restarts    \* crashes so far

triageVars == <<tries, waiting, sizing, calls>>
outboxVars == <<queued, settled, sent, onIssue, repeats>>
budgetVars == <<failures, restarts>>
vars == <<caseVars, enrolled, refuses, up, hung, step, todo, triageVars, outboxVars, budgetVars>>

-----------------------------------------------------------------------------

\* <<i, 0>> is the comment on a case's triage, <<i, n>> the one on attempt n.
Comment == Issue \X (Ordinal \cup {0})

\* The outcomes a human should hear of.
Reported == {"budget_exhausted", "failed", "operator_stop"}

NeedsComment(x) ==
    IF x[2] = 0 THEN triage[x[1]] = "large" ELSE attempt[x[1]][x[2]] \in Reported

\* What the queries of the steps list; nothing of a removed repository is.
Listed(c) == IF enrolled THEN c ELSE {}

\* Faulty: a case the model refused once is not listed again.
ToSizeOnce == Listed({i \in Issue : state[i] = "received" /\ tries[i] = 0})

ToSize == Listed({i \in Issue : state[i] = "received"})

ToEnqueue == {x \in Comment \ queued : NeedsComment(x)}

TriagesToEnqueue == Listed({x \in ToEnqueue : x[2] = 0})

\* Faulty: a case gets one comment.
OutcomesToEnqueueOnce ==
    Listed({x \in ToEnqueue : x[2] # 0 /\ \A n \in Ordinal \cup {0} : <<x[1], n>> \notin queued})

OutcomesToEnqueue == Listed({x \in ToEnqueue : x[2] # 0})

\* Faulty: the posts are not joined.
ToPostAgain == Listed(queued)

ToPost == Listed(queued \ settled)

OutboxInit ==
    /\ Init
    /\ enrolled = TRUE
    /\ refuses = [i \in Issue |-> "nothing"]
    /\ up = TRUE /\ hung = FALSE
    /\ step = "idle" /\ todo = {}
    /\ tries = [i \in Issue |-> 0]
    /\ waiting = [i \in Issue |-> FALSE]
    /\ sizing = {}
    /\ calls = [i \in Issue |-> 0]
    /\ queued = {} /\ settled = {} /\ sent = {}
    /\ onIssue = {} /\ repeats = 0
    /\ failures = 0 /\ restarts = 0

Fails ==
    /\ failures < MaxFailures
    /\ failures' = failures + 1
    /\ UNCHANGED restarts

-----------------------------------------------------------------------------
\* The rest of the daemon.

CaseOnly ==
    UNCHANGED <<enrolled, refuses, up, hung, step, todo, triageVars, outboxVars, budgetVars>>

\* The translate step, and the schedule step behind the commenter's.
BetweenSteps(i) ==
    /\ up /\ ~hung
    /\ step = "idle"
    /\ NewCase(i) \/ Close(i) \/ StartAttempt(i)
    /\ CaseOnly

\* The operator's and a label's approval, the runner, its backstop and recovery.
AtAnyMoment(i) ==
    /\ up
    /\ \/ RecordApproval(i)
       \/ \E n \in Ordinal : RecordRun(i, n)
       \/ \E n \in Ordinal, o \in Outcome : RecordOutcome(i, n, o)
    /\ CaseOnly

\* A removal is translated or found out by enrollment, before the triage step;
\* the repository comes back then or when a runner refreshes its branch.
Enrollment ==
    /\ up
    /\ (step = "idle" /\ ~hung) \/ ~enrolled
    /\ enrolled' = ~enrolled
    /\ UNCHANGED <<caseVars, refuses, up, hung, step, todo, triageVars, outboxVars, budgetVars>>

\* Somebody locks the issue or deletes it.  GitHub tells nobody here.
Refuse(i) ==
    /\ \/ refuses[i] = "nothing" /\ refuses' = [refuses EXCEPT ![i] = "posts"]
       \/ refuses[i] # "all" /\ refuses' = [refuses EXCEPT ![i] = "all"]
    /\ UNCHANGED <<caseVars, enrolled, up, hung, step, todo, triageVars, outboxVars, budgetVars>>

Boot ==
    /\ ~up
    /\ up' = TRUE
    /\ UNCHANGED <<caseVars, enrolled, refuses, hung, step, todo, triageVars, outboxVars, budgetVars>>

\* The failure counts and the backoffs are in memory only.
Crash ==
    /\ up
    /\ restarts < MaxRestarts
    /\ restarts' = restarts + 1
    /\ up' = FALSE /\ hung' = FALSE
    /\ step' = "idle" /\ todo' = {}
    /\ tries' = [i \in Issue |-> 0]
    /\ waiting' = [i \in Issue |-> FALSE]
    /\ sizing' = {} /\ sent' = {}
    /\ UNCHANGED <<caseVars, enrolled, refuses, calls, queued, settled, onIssue, repeats, failures>>

\* A call of the sweep never answers: those to GitHub, to the model and to the
\* store run on the daemon's context, which has no deadline, and the mutex is
\* held.  Only the end of the process ends that.
SweepHangs ==
    /\ up /\ ~hung
    /\ hung' = TRUE
    /\ UNCHANGED <<caseVars, enrolled, refuses, up, step, todo, triageVars, outboxVars, budgetVars>>

\* A step begins with its list; the commenter runs three of them.
GoTo(from, to, list) ==
    /\ up
    /\ step = from
    /\ todo = {}
    /\ step' = to
    /\ todo' = list
    /\ UNCHANGED <<caseVars, enrolled, refuses, up, hung, triageVars, outboxVars, budgetVars>>

StartSweep == GoTo("idle", "triage", ToSize)
TriageDone == GoTo("triage", "triages", TriagesToEnqueue)
TriagesDone == GoTo("triages", "outcomes", OutcomesToEnqueue)
OutcomesDone == GoTo("outcomes", "post", ToPost)
PostDone == GoTo("post", "idle", {})

\* Without its list the triage step does nothing, the commenter ends.
ListFails ==
    /\ up
    /\ todo = {}
    /\ \/ step = "idle" /\ step' = "triage"
       \/ step \in {"triage", "triages", "outcomes"} /\ step' = "idle"
    /\ Fails
    /\ UNCHANGED <<caseVars, enrolled, refuses, up, hung, todo, triageVars, outboxVars>>

Visited(x) == todo' = todo \ {x}

-----------------------------------------------------------------------------
\* The triage step.

\* The step is at case i and has made no call for it.
AtCase(i) == step = "triage" /\ i \in todo /\ sizing = {}

TriageUnchanged == UNCHANGED <<enrolled, refuses, up, hung, step, outboxVars>>

\* eligible
SkipWaiting(i) ==
    /\ AtCase(i)
    /\ waiting[i]
    /\ Visited(i)
    /\ UNCHANGED <<caseVars, triageVars, budgetVars>>
    /\ TriageUnchanged

\* GetIssue fails: no call was paid, and nothing backs off.
GetIssueFails(i) ==
    /\ AtCase(i)
    /\ ~waiting[i]
    /\ Fails
    /\ Visited(i)
    /\ UNCHANGED <<caseVars, triageVars>>
    /\ TriageUnchanged

\* The same for good: the next sweep asks again, and the one after it.
GetIssueRefused(i) ==
    /\ AtCase(i)
    /\ ~waiting[i]
    /\ refuses[i] = "all"
    /\ Visited(i)
    /\ UNCHANGED <<caseVars, triageVars, budgetVars>>
    /\ TriageUnchanged

Call(i) ==
    /\ AtCase(i)
    /\ ~waiting[i]
    /\ refuses[i] # "all"
    /\ calls' = [calls EXCEPT ![i] = @ + 1]
    /\ UNCHANGED <<caseVars, budgetVars>>
    /\ TriageUnchanged

Classify(i) ==
    /\ Call(i)
    /\ \E size \in {"small", "large"} : sizing' = {[issue |-> i, size |-> size]}
    /\ UNCHANGED <<todo, tries, waiting>>

\* fail, and the park once that is often enough: a Large triage.
ClassifyFails(i) ==
    /\ Call(i)
    /\ tries' = [tries EXCEPT ![i] = @ + 1]
    /\ waiting' = [waiting EXCEPT ![i] = TRUE]
    /\ IF tries[i] + 1 < GiveUp
       THEN Visited(i) /\ UNCHANGED sizing
       ELSE sizing' = {[issue |-> i, size |-> "large"]} /\ UNCHANGED todo

\* UpdateCase, then clear.
RecordSize(s) ==
    /\ s \in sizing
    /\ RecordTriage(s.issue, s.size)
    /\ tries' = [tries EXCEPT ![s.issue] = 0]
    /\ waiting' = [waiting EXCEPT ![s.issue] = FALSE]
    /\ sizing' = {}
    /\ Visited(s.issue)
    /\ UNCHANGED <<calls, budgetVars>>
    /\ TriageUnchanged

\* The store fails, before or after it committed: the failures are remembered.
RecordSizeFails(s) ==
    /\ s \in sizing
    /\ RecordTriage(s.issue, s.size) \/ UNCHANGED caseVars
    /\ Fails
    /\ sizing' = {}
    /\ Visited(s.issue)
    /\ UNCHANGED <<tries, waiting, calls>>
    /\ TriageUnchanged

\* Faulty: an elapsed backoff is dropped from the map.
BackoffEndsForgets(i) ==
    /\ waiting[i]
    /\ waiting' = [waiting EXCEPT ![i] = FALSE]
    /\ tries' = [tries EXCEPT ![i] = 0]
    /\ UNCHANGED <<caseVars, todo, sizing, calls, budgetVars>>
    /\ TriageUnchanged

BackoffEnds(i) ==
    /\ waiting[i]
    /\ waiting' = [waiting EXCEPT ![i] = FALSE]
    /\ UNCHANGED <<caseVars, todo, tries, sizing, calls, budgetVars>>
    /\ TriageUnchanged

-----------------------------------------------------------------------------
\* The comment step.

CommentUnchanged == UNCHANGED <<caseVars, enrolled, refuses, up, hung, step, triageVars>>

\* EnqueueTriageComment and EnqueueOutcomeComment: one row for each.
Enqueue(x) ==
    /\ step \in {"triages", "outcomes"}
    /\ x \in todo
    /\ queued' = queued \cup {x}
    /\ Visited(x)
    /\ UNCHANGED <<settled, sent, onIssue, repeats, budgetVars>>
    /\ CommentUnchanged

EnqueueFails(x) ==
    /\ step \in {"triages", "outcomes"}
    /\ x \in todo
    /\ Fails
    /\ queued' \in {queued, queued \cup {x}}
    /\ Visited(x)
    /\ UNCHANGED <<settled, sent, onIssue, repeats>>
    /\ CommentUnchanged

\* The step is at comment x and has not sent it.
AtComment(x) == step = "post" /\ x \in todo /\ sent = {}

Lands(x) ==
    /\ refuses[x[1]] = "nothing"
    /\ onIssue' = onIssue \cup {x}
    /\ repeats' = repeats + (IF x \in onIssue THEN 1 ELSE 0)

Post(x) ==
    /\ AtComment(x)
    /\ Lands(x)
    /\ sent' = {x}
    /\ UNCHANGED <<todo, queued, settled, budgetVars>>
    /\ CommentUnchanged

\* The request or its answer is lost.
PostFails(x) ==
    /\ AtComment(x)
    /\ Lands(x) \/ UNCHANGED <<onIssue, repeats>>
    /\ Fails
    /\ Visited(x)
    /\ UNCHANGED <<queued, settled, sent>>
    /\ CommentUnchanged

\* A refused post is tried again in every sweep.
PostRefused(x) ==
    /\ AtComment(x)
    /\ refuses[x[1]] # "nothing"
    /\ Visited(x)
    /\ UNCHANGED <<queued, settled, sent, onIssue, repeats, budgetVars>>
    /\ CommentUnchanged

RecordPost(x) ==
    /\ x \in sent
    /\ settled' = settled \cup {x}
    /\ sent' = {}
    /\ Visited(x)
    /\ UNCHANGED <<queued, onIssue, repeats, budgetVars>>
    /\ CommentUnchanged

RecordPostFails(x) ==
    /\ x \in sent
    /\ Fails
    /\ settled' \in {settled, settled \cup {x}}
    /\ sent' = {}
    /\ Visited(x)
    /\ UNCHANGED <<queued, onIssue, repeats>>
    /\ CommentUnchanged

-----------------------------------------------------------------------------

Size(i) ==
    \/ SkipWaiting(i) \/ GetIssueFails(i) \/ GetIssueRefused(i)
    \/ Classify(i) \/ ClassifyFails(i)
    \/ \E s \in sizing : RecordSize(s) \/ RecordSizeFails(s)

Comments(x) ==
    \/ Enqueue(x) \/ EnqueueFails(x)
    \/ Post(x) \/ PostFails(x) \/ PostRefused(x)
    \/ RecordPost(x) \/ RecordPostFails(x)

SweepNext ==
    /\ ~hung
    /\ \/ StartSweep \/ TriageDone \/ TriagesDone \/ OutcomesDone \/ PostDone \/ ListFails
       \/ \E i \in Issue : Size(i)
       \/ \E x \in Comment : Comments(x)

OutboxNext ==
    \/ \E i \in Issue : BetweenSteps(i) \/ AtAnyMoment(i) \/ BackoffEnds(i) \/ Refuse(i)
    \/ Enrollment \/ Boot \/ Crash \/ SweepHangs
    \/ SweepNext

OutboxSpec == OutboxInit /\ [][OutboxNext]_vars

\* Fairness.  The daemon is restarted, backoffs pass, the ticker starts sweeps
\* and a sweep that does not hang goes on.  Nothing is assumed of attempts and
\* approvals, nor that the calls of a sweep are answered: SweepHangs may come
\* first at any step, and the properties below say what it costs.
\* The start of the process and the steps of its sweep are never possible at once.
FairOutboxSpec ==
    /\ OutboxSpec
    /\ \A i \in Issue : WF_vars(BackoffEnds(i))
    /\ WF_vars(Boot \/ SweepNext)

-----------------------------------------------------------------------------

Slips == failures + restarts

\* Type invariant of the sweep's, the outbox's and GitHub's state.
OutboxTypeOK ==
    /\ TypeOK
    /\ enrolled \in BOOLEAN /\ up \in BOOLEAN /\ hung \in BOOLEAN
    /\ refuses \in [Issue -> {"nothing", "posts", "all"}]
    /\ step \in {"idle", "triage", "triages", "outcomes", "post"}
    /\ todo \subseteq (IF step = "triage" THEN Issue ELSE Comment)
    /\ step = "idle" => todo = {}
    /\ tries \in [Issue -> Nat] /\ calls \in [Issue -> Nat]
    /\ waiting \in [Issue -> BOOLEAN]
    /\ sizing \subseteq [issue : Issue, size : {"small", "large"}]
    /\ queued \subseteq Comment
    /\ settled \subseteq onIssue /\ onIssue \subseteq queued
    /\ sent \subseteq onIssue \ settled
    /\ repeats \in Nat
    /\ failures \in 0..MaxFailures /\ restarts \in 0..MaxRestarts

\* A case the model refuses costs a bounded number of paid calls: what the
\* give-up allows in every life of the daemon, which forgets its count in a
\* crash, and one for each answer the store would not take.
CallsAreBounded == \A i \in Issue : calls[i] <= GiveUp * (1 + restarts) + failures

\* Every case of an enrolled repository is sized or parked, though the model
\* may fail every call: again and again none is left received where nothing
\* surfaces it.  But for two ways: one GitHub refuses to show for good, which
\* never counts toward the give-up, and all of them behind a sweep that hangs.
EveryIssueIsSized ==
    []<>(\A i \in Issue : state[i] = "received" => ~enrolled \/ refuses[i] = "all" \/ hung)

\* A human hears of every Large triage and every reported outcome, whatever
\* was lost on the way: again and again none is left to post, unless the
\* repository is removed, GitHub refuses posts to the issue for good, or a
\* sweep hangs.
EveryReportIsPosted ==
    []<>(\A x \in Comment :
            NeedsComment(x) => x \in onIssue \/ ~enrolled \/ refuses[x[1]] # "nothing" \/ hung)

N == INSTANCE Notice WITH Item <- Comment, slips <- Slips

\* The outbox keeps its promise: nothing that was not queued is posted, nothing
\* is settled that is not on the issue, and every repeated copy is paid for by
\* a failure or a crash.
ImplementsNotice == N!NoticeSpec
=============================================================================
