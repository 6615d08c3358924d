------------------------------ MODULE Execution ------------------------------
(***************************************************************************)
(* One attempt from the inside: execute of the runner, the pipeline from   *)
(* the token to the pull request, and in the middle of it RunAttempt, the  *)
(* budgeted run of the agent.  Resolution has it as one choice of answers, *)
(* Workspace has what it does to the checkout.                             *)
(*                                                                         *)
(* At once with it go the agent's loop, a library's, the wall clock,       *)
(* whoever cancels the attempt and the daemon's shutdown.                  *)
(***************************************************************************)
EXTENDS Naturals

CONSTANT MaxTurns       \* the budget's turns

ASSUME ExecutionAssumption == MaxTurns \in Nat \ {0}

VARIABLES
    step,       \* where execute is, "returned" in the end
    reason,     \* the reason Cancel left in the slot
    shutdown,   \* the daemon's context, the caller's, is done
    callerDone, \* execute's snapshot of it
    loop,       \* the agent: "off", in a "model" call, in a "tool", or "over"
    end,        \* why its loop is over
    turns,      \* turnsSeen
    expired,    \* the run's context met its deadline before anything else ended it
    flag,       \* stopFlag is set
    stop,       \* the report's Stop
    work,       \* the branch's head is not its base
    marks,      \* conflict markers are in the tree
    pushed,     \* CommitAndPush returned no error and a moved branch
    pr,         \* GitHub: the branch has an open pull request
    named,      \* the outcome carries its number
    outcome     \* what execute returns, "none" before

callerVars == <<reason, shutdown>>
loopVars == <<loop, end, turns>>
budgetVars == <<expired, flag>>
treeVars == <<work, marks>>
resultVars == <<pushed, pr, named, outcome>>
vars == <<step, callerVars, callerDone, loopVars, budgetVars, stop, treeVars, resultVars>>

-----------------------------------------------------------------------------

Reason == {"operator_stop", "issue_closed"}

Limit == {"turns", "wall_clock", "diff_lines"}

\* The steps a failure of which ends the attempt before the agent ran.
Follows ==
    [repository |-> "token", token |-> "prepare", prepare |-> "start", start |-> "tools",
     tools |-> "model", model |-> "run"]

Setup == DOMAIN Follows

\* Those that wait on the attempt's context alone: the store, GitHub (twice),
\* the workspace lock, the dial into the container and the routing.  None has
\* a deadline; starting the container has one.
Unbounded == Setup \ {"start"}

\* The attempt's context is done: Cancel cancels it, and so does the caller's.
Cancelled == reason # "none" \/ shutdown

\* The branch may be an earlier attempt's, with its commits, its markers and
\* its pull request.
ExecInit ==
    /\ step = "repository"
    /\ reason = "none" /\ shutdown = FALSE /\ callerDone = FALSE
    /\ loop = "off" /\ end = "none" /\ turns = 0
    /\ expired = FALSE /\ flag = FALSE
    /\ stop = "none"
    /\ work \in BOOLEAN /\ marks \in BOOLEAN
    /\ pushed = FALSE /\ pr \in BOOLEAN /\ named = FALSE
    /\ outcome = "none"

Cancel(r) ==
    /\ step # "returned"
    /\ reason' = r
    /\ UNCHANGED <<step, shutdown, callerDone, loopVars, budgetVars, stop, treeVars, resultVars>>

Shutdown ==
    /\ ~shutdown
    /\ shutdown' = TRUE
    /\ UNCHANGED <<step, reason, callerDone, loopVars, budgetVars, stop, treeVars, resultVars>>

Return(o) ==
    /\ outcome' = o
    /\ step' = "returned"

-----------------------------------------------------------------------------
\* Before the agent runs.

SetUp ==
    /\ step \in Setup
    /\ step' = Follows[step]
    /\ IF step = "model"
       THEN callerDone' = shutdown /\ loop' = "model"
       ELSE UNCHANGED <<callerDone, loop>>
    /\ UNCHANGED <<callerVars, end, turns, budgetVars, stop, treeVars, resultVars>>

\* setup: the context at the point of failure decides, not the error.
SetUpFails ==
    /\ step \in Setup
    /\ Return(IF reason # "none" THEN reason ELSE IF shutdown THEN "shutdown" ELSE "infra")
    /\ UNCHANGED <<callerVars, callerDone, loopVars, budgetVars, stop, treeVars, pushed, pr, named>>

-----------------------------------------------------------------------------
\* The agent's loop.  It notices an end of its context, or an abort, when it
\* does; until then it goes on.

LoopUnchanged == UNCHANGED <<step, callerVars, callerDone, stop, resultVars>>

LoopEnds(why) ==
    /\ loop' = "over"
    /\ end' = why

\* onMessage, in the loop's own goroutine: the turn is counted.
ModelAnswers ==
    /\ loop = "model"
    /\ turns < MaxTurns
    /\ turns' = turns + 1
    /\ \/ loop' = "tool" /\ UNCHANGED end
       \/ LoopEnds("stop")
    /\ UNCHANGED <<budgetVars, treeVars>>
    /\ LoopUnchanged

\* A tool that wrote: the diff is and one over the limit sets the
\* flag, once, and aborts the agent.
ToolWrites ==
    /\ loop = "tool"
    /\ loop' = "model"
    /\ work' \in BOOLEAN /\ marks' \in BOOLEAN
    /\ flag' \in {flag, TRUE}
    /\ UNCHANGED <<end, turns, expired>>
    /\ LoopUnchanged

\* A read-only tool, or a text that a wrap-up in the queue answers.
ToolReads ==
    /\ loop = "tool"
    /\ loop' = "model"
    /\ UNCHANGED <<end, turns, budgetVars, treeVars>>
    /\ LoopUnchanged

LoopOutOfTurns ==
    /\ loop = "model"
    /\ turns = MaxTurns
    /\ LoopEnds("max_turns")
    /\ UNCHANGED <<turns, budgetVars, treeVars>>
    /\ LoopUnchanged

\* Faulty: the run has no deadline of its own.
LoopAbortedNoDeadline ==
    /\ loop \in {"model", "tool"}
    /\ Cancelled \/ flag
    /\ LoopEnds("aborted")
    /\ UNCHANGED <<turns, budgetVars, treeVars>>
    /\ LoopUnchanged

LoopAborted ==
    /\ loop \in {"model", "tool"}
    /\ Cancelled \/ expired \/ flag
    /\ LoopEnds("aborted")
    /\ UNCHANGED <<turns, budgetVars, treeVars>>
    /\ LoopUnchanged

\* The model fails, or too many tools do.
LoopFails ==
    /\ loop \in {"model", "tool"}
    /\ LoopEnds("error")
    /\ UNCHANGED <<turns, budgetVars, treeVars>>
    /\ LoopUnchanged

\* There is no summary of a run that never began.
LoopNeverBegan ==
    /\ loop = "model"
    /\ turns = 0
    /\ LoopEnds("none")
    /\ UNCHANGED <<turns, budgetVars, treeVars>>
    /\ LoopUnchanged

-----------------------------------------------------------------------------
\* The wall clock.

Deadline ==
    /\ step \in {"run", "judge"}
    /\ ~Cancelled
    /\ ~expired
    /\ expired' = TRUE
    /\ UNCHANGED <<step, callerVars, callerDone, loopVars, flag, stop, treeVars, resultVars>>

-----------------------------------------------------------------------------
\* RunAttempt, once the loop is over.

RunEnds ==
    /\ step = "run"
    /\ loop = "over"
    /\ step' = "judge"
    /\ UNCHANGED <<callerVars, callerDone, loopVars, budgetVars, stop, treeVars, resultVars>>

\* Faulty: an abort is the caller's or the clock's, also the budget's own.
StopReasonAborts ==
    IF end = "error" THEN "model_error"
    ELSE IF end = "aborted" THEN IF expired /\ ~Cancelled THEN "wall_clock" ELSE "cancelled"
    ELSE IF flag THEN "diff_lines"
    ELSE IF end = "max_turns" THEN "turns"
    ELSE "none"

\* The run's context is done: by a cancellation, or by its deadline.
ContextStop ==
    IF Cancelled THEN "cancelled" ELSE IF expired THEN "wall_clock" ELSE "none"

\* The model's error beats the flag, the flag beats the rest; an abort that
\* nothing else explains counts as a cancellation.
StopReason ==
    IF end = "error" THEN "model_error"
    ELSE IF flag THEN "diff_lines"
    ELSE IF end = "max_turns" THEN "turns"
    ELSE IF end = "aborted" /\ ContextStop = "none" THEN "cancelled"
    ELSE IF end \in {"aborted", "none"} THEN ContextStop
    ELSE "none"

\* The summary turn is skipped if the last text has its shape already, after a
\* model error and after a cancellation.
Judge ==
    /\ step = "judge"
    /\ stop' = StopReason
    /\ \/ step' = "report"
       \/ /\ stop' # "model_error"
          /\ ~(stop' = "cancelled" /\ Cancelled)
          /\ step' = "summary"
    /\ UNCHANGED <<callerVars, callerDone, loopVars, budgetVars, treeVars, resultVars>>

\* On a context of its own, with five minutes.
Summarise ==
    /\ step = "summary"
    /\ step' = "report"
    /\ UNCHANGED <<callerVars, callerDone, loopVars, budgetVars, stop, treeVars, resultVars>>

-----------------------------------------------------------------------------
\* execute, once the run is back.

Unreturned == UNCHANGED <<callerVars, loopVars, budgetVars, stop, treeVars>>

\* Faulty: the caller is asked again, whatever ended the run.
ReportLive ==
    /\ step = "report"
    /\ step' = "push"
    /\ callerDone' = (callerDone \/ shutdown)
    /\ UNCHANGED resultVars
    /\ Unreturned

Report ==
    /\ step = "report"
    /\ step' = "push"
    /\ callerDone' = (callerDone \/ (stop = "cancelled" /\ shutdown))
    /\ UNCHANGED resultVars
    /\ Unreturned

\* Detached from every context, with a new token or the old one.
CommitAndPush ==
    /\ step = "push"
    /\ step' = "settle"
    /\ pushed' \in BOOLEAN
    /\ UNCHANGED <<callerDone, pr, named, outcome>>
    /\ Unreturned

\* shuttingDown
CutShort == callerDone /\ reason = "none"

\* What the run's end means, without a pull request to open.
Verdict ==
    IF CutShort THEN "shutdown"
    ELSE IF ~pushed THEN "infra"
    ELSE IF stop = "model_error" THEN "model"
    ELSE IF stop = "cancelled" THEN IF reason = "none" THEN "operator_stop" ELSE reason
    ELSE IF stop \in Limit THEN "budget_exhausted"
    ELSE "agent"

\* Faulty: a limit's outcome does not need the push.
ReviewableUnpushed == ~CutShort /\ stop \in Limit \cup {"none"} /\ work

Reviewable == ~CutShort /\ pushed /\ stop \in Limit \cup {"none"} /\ work

Settle ==
    /\ step = "settle"
    /\ IF Reviewable
       THEN step' = "markers" /\ UNCHANGED outcome
       ELSE Return(Verdict)
    /\ UNCHANGED <<callerDone, pushed, pr, named>>
    /\ Unreturned

\* A partial pull request is best effort: a limit stays one without it.
WithoutOne(o) == Return(IF stop \in Limit THEN "budget_exhausted" ELSE o)

\* Faulty: partial work is shown as it is.
CheckMarkersOfFinished ==
    /\ step = "markers"
    /\ \/ WithoutOne("infra")
       \/ marks /\ stop = "none" /\ WithoutOne("agent")
       \/ (marks => stop # "none") /\ step' = "open" /\ UNCHANGED outcome
    /\ UNCHANGED <<callerDone, pushed, pr, named>>
    /\ Unreturned

\* The check itself may fail.
CheckMarkers ==
    /\ step = "markers"
    /\ \/ WithoutOne("infra")
       \/ marks /\ WithoutOne("agent")
       \/ ~marks /\ step' = "open" /\ UNCHANGED outcome
    /\ UNCHANGED <<callerDone, pushed, pr, named>>
    /\ Unreturned

\* The one just opened, or one that was there, also one whose opening was not
\* acknowledged; or GitHub answers neither question.
OpenPullRequest ==
    /\ step = "open"
    /\ \/ /\ pr' = TRUE
          /\ named' = TRUE
          /\ Return(IF stop \in Limit THEN "budget_exhausted" ELSE "pull_request_opened")
       \/ /\ pr' \in {pr, TRUE}
          /\ UNCHANGED named
          /\ WithoutOne("infra")
    /\ UNCHANGED <<callerDone, pushed>>
    /\ Unreturned

-----------------------------------------------------------------------------

AgentNext ==
    \/ ModelAnswers \/ ToolWrites \/ ToolReads
    \/ LoopOutOfTurns \/ LoopAborted \/ LoopFails \/ LoopNeverBegan

RunNext == RunEnds \/ Judge \/ Summarise

FinishNext == Report \/ CommitAndPush \/ Settle \/ CheckMarkers \/ OpenPullRequest

ExecuteNext == SetUp \/ SetUpFails \/ FinishNext

ExecNext ==
    \/ \E r \in Reason : Cancel(r)
    \/ Shutdown
    \/ AgentNext \/ Deadline \/ RunNext \/ ExecuteNext

ExecSpec == ExecInit /\ [][ExecNext]_vars

\* Fairness.  Time passes, the calls after the run and the container's start
\* have their timeouts, and the loop gives up on a context that is done.
\* Neither the model nor a tool need ever answer, nor an unbounded call of the
\* setup, unless the attempt's context ends it.
SetupAnswers == (step \in Unbounded => Cancelled) /\ (SetUp \/ SetUpFails)

FairExecSpec ==
    /\ ExecSpec
    /\ WF_vars(Deadline) /\ WF_vars(LoopAborted)
    /\ WF_vars(RunNext) /\ WF_vars(SetupAnswers) /\ WF_vars(FinishNext)

-----------------------------------------------------------------------------

\* Type invariant of execute, RunAttempt and what they leave on GitHub.
ExecTypeOK ==
    /\ step \in Setup \cup {"run", "judge", "summary", "report", "push", "settle", "markers", "open",
                            "returned"}
    /\ reason \in Reason \cup {"none"}
    /\ shutdown \in BOOLEAN /\ callerDone \in BOOLEAN
    /\ loop \in {"off", "model", "tool", "over"}
    /\ end \in {"none", "stop", "max_turns", "aborted", "error"}
    /\ turns \in 0..MaxTurns
    /\ expired \in BOOLEAN /\ flag \in BOOLEAN
    /\ stop \in Limit \cup {"none", "cancelled", "model_error"}
    /\ work \in BOOLEAN /\ marks \in BOOLEAN
    /\ pushed \in BOOLEAN /\ pr \in BOOLEAN /\ named \in BOOLEAN
    /\ outcome \in Reason \cup {"none", "shutdown", "infra", "model", "agent", "budget_exhausted",
                                "pull_request_opened"}

\* Whatever raced, the stop reason is a fact: a limit that was not reached is
\* never reported, and a run nobody cancelled is never a cancelled one, so that
\* an operator stop always has an operator.
StopIsTrue ==
    /\ stop = "turns" => turns = MaxTurns
    /\ stop = "wall_clock" => expired
    /\ stop = "cancelled" => Cancelled
    /\ outcome \in Reason => reason # "none"

\* What the daemon says of an attempt is on the branch: but for an
\* infrastructure failure, an outcome of an attempt whose agent ran is given
\* only with its work pushed, and a pull request it names is there.
WorkIsReachable ==
    /\ loop = "over" /\ outcome \notin {"none", "shutdown", "infra"} => pushed
    /\ named => pr

\* A pull request is opened only for work that is pushed, is some, and has no
\* conflict markers, whichever limit or end brought the run there.
PullRequestsAreClean == [][pr' /\ ~pr => pushed /\ work /\ ~marks]_vars

\* A run that ended for a reason of its own before the shutdown began keeps
\* its outcome: a daemon going down a moment later does not erase it.
EndedItself == loop = "over" /\ (end \in {"stop", "max_turns", "error"} \/ flag)

OutcomeIsKept == [](EndedItself /\ ~shutdown => [](outcome # "shutdown"))

\* Every attempt comes back, also when the model or a tool hangs for ever, but
\* for one: whose setup waits for a call that is never answered, before the
\* wall clock runs, and that nobody cancels.
AttemptReturns == <>(step = "returned") \/ <>[](step \in Unbounded /\ ~Cancelled)
=============================================================================
