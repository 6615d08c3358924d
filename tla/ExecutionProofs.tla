-------------------------- MODULE ExecutionProofs --------------------------
(***************************************************************************)
(* Proofs about Execution, for every budget of turns.  The inductive       *)
(* invariant ties the steps of execute to what the loop left behind: after *)
(* the run the loop is over and nothing it owns moves any more, so what    *)
(* the judgement, the push and the marker check saw still holds when the   *)
(* outcome is given.                                                       *)
(***************************************************************************)
EXTENDS Execution, TLAPS

AfterRun == {"judge", "summary", "report", "push", "settle", "markers", "open"}

\* What the loop's end is evidence of.
EndIsTrue ==
    /\ end # "none" => loop = "over"
    /\ end = "max_turns" => turns = MaxTurns
    /\ end = "aborted" => Cancelled \/ expired \/ flag

\* Where execute is, and what that says of the loop, of the caller and of the
\* checks that were passed on the way.
StepIsTrue ==
    /\ step \in Setup => loop = "off"
    /\ step \in AfterRun => loop = "over"
    /\ step \in Setup \cup {"run", "judge"} => stop = "none"
    /\ loop = "off" => step \in Setup \cup {"returned"} /\ stop = "none"
    /\ loop \in {"model", "tool"} => step = "run"
    /\ step \in {"push", "settle", "markers", "open"} /\ stop = "cancelled"
          => reason # "none" \/ callerDone
    /\ step \in {"markers", "open"} => pushed /\ work /\ stop \in Limit \cup {"none"}
    /\ step = "open" => ~marks
    /\ step # "returned" => outcome = "none"

\* Only the caller's end makes it done.
CallerIsTrue ==
    /\ callerDone => shutdown
    /\ outcome = "shutdown" => shutdown

ExecInv == ExecTypeOK /\ EndIsTrue /\ StepIsTrue /\ CallerIsTrue /\ StopIsTrue /\ WorkIsReachable

-----------------------------------------------------------------------------

\* The reasons, limits and set-up steps are strings of their own.
LEMMA SetupSteps == Setup = {"repository", "token", "prepare", "start", "tools", "model"}
  BY DEF Setup, Follows

LEMMA FollowsStays == ASSUME NEW s \in Setup PROVE Follows[s] \in (Setup \ {"repository"}) \cup {"run"}
  BY DEF Setup, Follows

LEMMA FollowsModel == ASSUME NEW s \in Setup PROVE (Follows[s] = "run") <=> (s = "model")
  BY DEF Setup, Follows

\* A stop reason and what it is taken from.
LEMMA StopReasonResult ==
  /\ StopReason = "turns" => end = "max_turns"
  /\ StopReason = "wall_clock" => expired
  /\ StopReason = "cancelled" => Cancelled \/ (end = "aborted" /\ ~expired /\ ~flag)
  BY DEF StopReason, ContextStop

\* A verdict and what it is taken from.
LEMMA VerdictResult ==
  /\ Verdict \in Reason => reason # "none" \/ (stop = "cancelled" /\ ~callerDone)
  /\ Verdict = "shutdown" => callerDone \/ reason = "shutdown"
  /\ Verdict \in {"shutdown", "infra"} \/ pushed
  BY DEF Verdict, CutShort, Reason

LEMMA InitInv == ExecInit => ExecInv
  <1> USE ExecutionAssumption
  <1> SUFFICES ASSUME ExecInit PROVE ExecInv
    OBVIOUS
  <1> USE DEF ExecInit
  <1>1. ExecTypeOK
    <2>1. step \in Setup
      BY SetupSteps
    <2>2. turns \in 0..MaxTurns
      BY DEF ExecutionAssumption
    <2> QED
      BY <2>1, <2>2 DEF ExecTypeOK, Reason, Limit
  <1>2. EndIsTrue /\ CallerIsTrue /\ StopIsTrue /\ WorkIsReachable
    BY DEF EndIsTrue, CallerIsTrue, StopIsTrue, WorkIsReachable, Reason
  <1>3. StepIsTrue
    BY SetupSteps DEF StepIsTrue, AfterRun
  <1> QED
    BY <1>1, <1>2, <1>3 DEF ExecInv

\* Every step keeps the types.
LEMMA TypeStep == ASSUME ExecTypeOK, [ExecNext]_vars PROVE ExecTypeOK'
  <1> USE ExecutionAssumption DEF ExecTypeOK, Limit, loopVars, budgetVars, callerVars, treeVars, resultVars
  <1>1. CASE \E r \in Reason : Cancel(r)
    BY <1>1 DEF Cancel
  <1>2. CASE Shutdown
    BY <1>2 DEF Shutdown
  <1>3. CASE SetUp
    BY <1>3, SetupSteps, FollowsStays DEF SetUp
  <1>4. CASE SetUpFails
    BY <1>4, SetupSteps, FollowsStays DEF SetUpFails, Return
  <1>5. CASE ModelAnswers
    BY <1>5, SetupSteps, FollowsStays DEF ModelAnswers, LoopEnds, LoopUnchanged
  <1>6. CASE ToolWrites
    <2>1. flag' \in BOOLEAN
      BY <1>6, Zenon DEF ToolWrites
    <2> QED
      BY <1>6, <2>1 DEF ToolWrites, LoopUnchanged
  <1>7. CASE ToolReads
    BY <1>7 DEF ToolReads, LoopUnchanged
  <1>8. CASE LoopOutOfTurns
    BY <1>8, SetupSteps, FollowsStays DEF LoopOutOfTurns, LoopEnds, LoopUnchanged
  <1>9. CASE LoopAborted
    BY <1>9, SetupSteps, FollowsStays DEF LoopAborted, LoopEnds, LoopUnchanged
  <1>10. CASE LoopFails
    BY <1>10, SetupSteps, FollowsStays DEF LoopFails, LoopEnds, LoopUnchanged
  <1>11. CASE LoopNeverBegan
    BY <1>11, SetupSteps, FollowsStays DEF LoopNeverBegan, LoopEnds, LoopUnchanged
  <1>12. CASE Deadline
    BY <1>12, SetupSteps, FollowsStays DEF Deadline
  <1>13. CASE RunEnds
    BY <1>13, SetupSteps, FollowsStays DEF RunEnds
  <1>14. CASE Judge
    <2>1. stop' \in Limit \cup {"none", "cancelled", "model_error"}
      BY <1>14 DEF Judge, StopReason, ContextStop
    <2>2. step' \in {"report", "summary"}
      BY <1>14 DEF Judge
    <2> QED
      BY <1>14, <2>1, <2>2 DEF Judge
  <1>15. CASE Summarise
    BY <1>15, SetupSteps, FollowsStays DEF Summarise
  <1>16. CASE Report
    BY <1>16, SetupSteps, FollowsStays DEF Report, Unreturned
  <1>17. CASE CommitAndPush
    BY <1>17, SetupSteps, FollowsStays DEF CommitAndPush, Unreturned
  <1>18. CASE Settle
    <2>1. Verdict \in Reason \cup {"shutdown", "infra", "model", "agent", "budget_exhausted"}
      BY DEF Verdict, Reason
    <2>2. \/ step' = "markers" /\ UNCHANGED outcome
          \/ step' = "returned" /\ outcome' = Verdict
      BY <1>18 DEF Settle, Return
    <2> QED
      BY <1>18, <2>1, <2>2 DEF Settle, Unreturned
  <1>19. CASE CheckMarkers
    BY <1>19, SetupSteps, FollowsStays DEF CheckMarkers, Unreturned, Return, WithoutOne
  <1>20. CASE OpenPullRequest
    <2>1. pr' \in BOOLEAN /\ named' \in BOOLEAN
      BY <1>20, Zenon DEF OpenPullRequest
    <2>2. /\ step' = "returned"
          /\ outcome' \in {"budget_exhausted", "pull_request_opened", "infra"}
      BY <1>20 DEF OpenPullRequest, WithoutOne, Return
    <2> QED
      BY <1>20, <2>1, <2>2 DEF OpenPullRequest, Unreturned
  <1>21. CASE UNCHANGED vars
    BY <1>21 DEF vars
  <1> QED
    BY <1>1, <1>2, <1>3, <1>4, <1>5, <1>6, <1>7, <1>8, <1>9, <1>10, <1>11, <1>12, <1>13, <1>14, <1>15, <1>16, <1>17, <1>18, <1>19, <1>20, <1>21 DEF ExecNext, AgentNext, RunNext, ExecuteNext, FinishNext

\* Every step keeps the rest of the invariant.
LEMMA InvStep == ASSUME ExecInv, [ExecNext]_vars PROVE ExecInv'
  <1>0. ExecTypeOK'
    BY TypeStep DEF ExecInv
  <1> USE ExecutionAssumption, SetupSteps, <1>0 DEF ExecInv, ExecTypeOK, Limit, Reason, AfterRun, Cancelled,
      EndIsTrue, StepIsTrue, CallerIsTrue, StopIsTrue, WorkIsReachable,
      loopVars, budgetVars, callerVars, treeVars, resultVars
  <1>1. CASE \E r \in Reason : Cancel(r)
    BY <1>1 DEF Cancel
  <1>2. CASE Shutdown
    BY <1>2 DEF Shutdown
  <1>3. CASE SetUp
    BY <1>3, FollowsStays, FollowsModel DEF SetUp
  <1>4. CASE SetUpFails
    BY <1>4 DEF SetUpFails, Return
  <1>5. CASE ModelAnswers
    BY <1>5 DEF ModelAnswers, LoopEnds, LoopUnchanged
  <1>6. CASE ToolWrites
    BY <1>6 DEF ToolWrites, LoopUnchanged
  <1>7. CASE ToolReads
    BY <1>7 DEF ToolReads, LoopUnchanged
  <1>8. CASE LoopOutOfTurns
    BY <1>8 DEF LoopOutOfTurns, LoopEnds, LoopUnchanged
  <1>9. CASE LoopAborted
    BY <1>9 DEF LoopAborted, LoopEnds, LoopUnchanged
  <1>10. CASE LoopFails
    BY <1>10 DEF LoopFails, LoopEnds, LoopUnchanged
  <1>11. CASE LoopNeverBegan
    BY <1>11 DEF LoopNeverBegan, LoopEnds, LoopUnchanged
  <1>12. CASE Deadline
    BY <1>12 DEF Deadline
  <1>13. CASE RunEnds
    BY <1>13 DEF RunEnds
  <1>14. CASE Judge
    <2>1. /\ stop' = "turns" => turns = MaxTurns
          /\ stop' = "wall_clock" => expired
          /\ stop' = "cancelled" => Cancelled
      BY <1>14, StopReasonResult DEF Judge
    <2>2. step' \in {"report", "summary"}
      BY <1>14 DEF Judge
    <2> QED
      BY <1>14, <2>1, <2>2 DEF Judge
  <1>15. CASE Summarise
    BY <1>15 DEF Summarise
  <1>16. CASE Report
    BY <1>16 DEF Report, Unreturned
  <1>17. CASE CommitAndPush
    BY <1>17 DEF CommitAndPush, Unreturned
  <1>18. CASE Settle
    <2>1. CASE Reviewable
      BY <1>18, <2>1 DEF Settle, Unreturned, Reviewable
    <2>2. CASE ~Reviewable
      <3>1. step' = "returned" /\ outcome' = Verdict
        BY <1>18, <2>2 DEF Settle, Return
      <3>2. /\ Verdict \in Reason => reason # "none"
            /\ Verdict = "shutdown" => shutdown
            /\ Verdict \in {"shutdown", "infra"} \/ pushed
        BY <1>18, VerdictResult DEF Settle
      <3> QED
        BY <1>18, <3>1, <3>2 DEF Settle, Unreturned
    <2> QED
      BY <2>1, <2>2
  <1>19. CASE CheckMarkers
    BY <1>19 DEF CheckMarkers, Unreturned, Return, WithoutOne
  <1>20. CASE OpenPullRequest
    BY <1>20 DEF OpenPullRequest, Unreturned, Return, WithoutOne
  <1>21. CASE UNCHANGED vars
    BY <1>21 DEF vars
  <1> QED
    BY <1>1, <1>2, <1>3, <1>4, <1>5, <1>6, <1>7, <1>8, <1>9, <1>10, <1>11, <1>12, <1>13, <1>14, <1>15, <1>16, <1>17, <1>18, <1>19, <1>20, <1>21 DEF ExecNext, AgentNext, RunNext, ExecuteNext, FinishNext

\* The inductive invariant holds of every attempt: what execute, RunAttempt
\* and the agent's loop know of each other at every step.
THEOREM ExecInvariant == ExecSpec => []ExecInv
  BY InitInv, InvStep, PTL DEF ExecSpec

\* execute's variables, the clock's and what is on GitHub keep their types.
THEOREM TypeCorrect == ExecSpec => []ExecTypeOK
  BY ExecInvariant, PTL DEF ExecInv

\* RunAttempt's stop reason is a fact, whatever raced for it: no limit that was
\* not reached, no cancellation that nobody gave.
THEOREM StopReasonTrue == ExecSpec => []StopIsTrue
  BY ExecInvariant, PTL DEF ExecInv

\* execute names no outcome but an infrastructure failure without the push, and
\* no pull request that is not there.
THEOREM Reachable == ExecSpec => []WorkIsReachable
  BY ExecInvariant, PTL DEF ExecInv

\* execute opens a pull request only for pushed work without conflict markers.
THEOREM Clean == ExecSpec => PullRequestsAreClean
  <1>1. ASSUME ExecInv, [ExecNext]_vars, pr', ~pr
        PROVE  pushed /\ work /\ ~marks
    <2>1. OpenPullRequest
      BY <1>1 DEF ExecNext, AgentNext, RunNext, ExecuteNext, FinishNext, Cancel, Shutdown,
          SetUp, SetUpFails, ModelAnswers, ToolWrites, ToolReads, LoopOutOfTurns, LoopAborted,
          LoopFails, LoopNeverBegan, LoopUnchanged, Deadline, RunEnds,
          Judge, Summarise, Report, CommitAndPush, Settle,
          CheckMarkers, vars, resultVars
    <2> QED
      BY <1>1, <2>1 DEF OpenPullRequest, ExecInv, StepIsTrue
  <1>2. ASSUME ExecInv, [ExecNext]_vars
        PROVE  [pr' /\ ~pr => pushed /\ work /\ ~marks]_vars
    BY <1>1, <1>2
  <1> QED
    BY ExecInvariant, <1>2, PTL DEF ExecSpec, PullRequestsAreClean

\* The loop that is over stays as it ended.
LEMMA LoopStays == ASSUME ExecInv, [ExecNext]_vars, loop = "over" PROVE UNCHANGED <<loop, end, flag>>
  BY DEF ExecInv, StepIsTrue, AfterRun, Setup, Follows, ExecNext, AgentNext, RunNext,
      ExecuteNext, FinishNext, Cancel, Shutdown, SetUp, SetUpFails, ModelAnswers, ToolWrites, ToolReads,
      LoopOutOfTurns, LoopAborted, LoopFails, LoopNeverBegan, Deadline, RunEnds,
      Judge, Summarise, Report, CommitAndPush, Settle, CheckMarkers,
      OpenPullRequest, Unreturned, vars, loopVars, budgetVars

\* A run that ended itself is not judged a cancelled one.
NotCancelled == EndedItself => stop # "cancelled"

LEMMA NotCancelledStep == ASSUME ExecInv, NotCancelled, [ExecNext]_vars PROVE NotCancelled'
  <1>1. CASE Judge
    <2>1. EndedItself' => EndedItself
      BY <1>1, LoopStays DEF Judge, ExecInv, StepIsTrue, AfterRun, EndedItself
    <2>2. EndedItself => StopReason # "cancelled"
      BY DEF EndedItself, StopReason, ContextStop
    <2> QED
      BY <1>1, <2>1, <2>2 DEF Judge, NotCancelled
  <1>2. CASE ~Judge
    <2>1. stop' = stop
      BY <1>2 DEF ExecNext, AgentNext, RunNext, ExecuteNext, FinishNext, Cancel, Shutdown,
          SetUp, SetUpFails, ModelAnswers, ToolWrites, ToolReads, LoopOutOfTurns, LoopAborted,
          LoopFails, LoopNeverBegan, LoopUnchanged, Deadline, RunEnds,
          Summarise, Report, CommitAndPush, Settle, CheckMarkers,
          OpenPullRequest, Unreturned, vars
    <2>2. CASE loop = "over"
      BY <2>1, <2>2, LoopStays DEF NotCancelled, EndedItself
    <2>3. CASE loop # "over"
      BY <2>1, <2>3 DEF ExecInv, StepIsTrue, ExecTypeOK, NotCancelled, EndedItself
    <2> QED
      BY <2>2, <2>3
  <1> QED
    BY <1>1, <1>2

\* What a run that ended itself keeps while execute finishes with it.
Kept == EndedItself /\ callerDone = FALSE /\ outcome # "shutdown"

LEMMA KeptStep == ASSUME ExecInv, NotCancelled, Kept, [ExecNext]_vars PROVE Kept'
  <1>1. EndedItself'
    BY LoopStays DEF Kept, EndedItself
  <1>2. /\ step \notin Setup
        /\ step # "returned" => outcome = "none"
    BY DEF ExecInv, StepIsTrue, Kept, EndedItself
  <1>3. stop # "cancelled"
    BY DEF Kept, NotCancelled
  <1>4. CASE Settle
    <2>1. Verdict # "shutdown"
      BY DEF Verdict, CutShort, Kept, ExecInv, ExecTypeOK, Reason
    <2> QED
      BY <1>1, <1>2, <1>4, <2>1 DEF Settle, Return, Unreturned, Kept
  <1>5. CASE Judge
    BY <1>1, <1>2, <1>3, <1>5 DEF Judge, resultVars, Kept
  <1>6. CASE CheckMarkers \/ OpenPullRequest
    BY <1>1, <1>2, <1>6 DEF CheckMarkers, OpenPullRequest, WithoutOne, Return, Unreturned, Kept
  <1>7. CASE Report \/ CommitAndPush
    BY <1>1, <1>2, <1>3, <1>7 DEF Report, CommitAndPush, Unreturned, resultVars, Kept
  <1>8. CASE ~(Settle \/ Judge \/ CheckMarkers \/ OpenPullRequest \/ Report \/ CommitAndPush)
    BY <1>1, <1>2, <1>8 DEF ExecNext, AgentNext, RunNext, ExecuteNext, FinishNext, Cancel, Shutdown,
        SetUp, SetUpFails, ModelAnswers, ToolWrites, ToolReads, LoopOutOfTurns, LoopAborted,
        LoopFails, LoopNeverBegan, LoopUnchanged, Deadline, RunEnds, Summarise, vars, resultVars, Kept
  <1> QED
    BY <1>4, <1>5, <1>6, <1>7, <1>8

\* An outcome survives a shutdown that comes after the agent ended by itself:
\* execute's snapshot of the caller is refreshed for a cancelled run only.
THEOREM OutcomeKept == ExecSpec => OutcomeIsKept
  <1>1. ExecInit => NotCancelled
    BY DEF ExecInit, NotCancelled
  <1>2. ExecInv /\ EndedItself /\ ~shutdown => Kept
    BY DEF ExecInv, ExecTypeOK, CallerIsTrue, Kept
  <1>3. Kept => outcome # "shutdown"
    BY DEF Kept
  <1> QED
    BY ExecInvariant, NotCancelledStep, KeptStep, <1>1, <1>2, <1>3, PTL DEF ExecSpec, OutcomeIsKept
=============================================================================
