-------------------------------- MODULE Upkeep --------------------------------
(***************************************************************************)
(* The daemon around the bumps: the translation of pull request and check  *)
(* deliveries, the repair scheduler, the repairer goroutine of each round  *)
(* with its backstop, the stale-check sweeper, the boot scan, the          *)
(* operator's API, and the branch on GitHub they work against.             *)
(*                                                                         *)
(* Commits are numbered in the order the branch pointed at them.  The      *)
(* sweep's steps share a mutex, so between two visits of the scheduler any *)
(* of them may come next; slots are Resolution's matter.                   *)
(***************************************************************************)
EXTENDS Bump

CONSTANTS
    MaxRestarts,    \* bound on shutdowns and crashes of the daemon
    MaxFailures     \* bound on failed writes and reads, and on lost deliveries

ASSUME UpkeepAssumption ==
    /\ 1 \in Sha
    /\ Sha \subseteq Nat \ {0}
    /\ NoSha = 0
    /\ MaxRestarts \in Nat
    /\ MaxFailures \in Nat

VARIABLES
    daemon,     \* the process: "down", "booting", "up", "hung", "stopping"
    restarts,   \* shutdowns and crashes so far
    failures,   \* failed writes and reads and lost deliveries so far
    watched,    \* watched[p]: the pull request's repository has a watch
    pr,         \* pr[p]: the pull request on GitHub, "none", "open", "closed",
                \* "foreign" (not dependabot's any more) or "gone"
    tip,        \* tip[p]: the commit the branch on GitHub points at
    inbox,      \* inbox[p]: opened (1) and synchronize deliveries not processed yet
    visiting,   \* the bump the scheduler has checked against GitHub, if any
    runner,     \* runner[p][n]: where the goroutine of round n is
    reason,     \* reason[p][n]: why the repairer's registered slot was cancelled
    work,       \* work[p][n]: what its commit and push came to
    answer,     \* answer[p][n]: the outcome it came back with
    recovery,   \* the open rounds the boot scan listed and has not ended
    lost        \* the rounds a failed write left without anybody to end them

processVars == <<daemon, restarts, failures>>
githubVars == <<pr, tip, inbox>>
runnerVars == <<runner, reason, work, answer>>
vars == <<bumpVars, processVars, watched, githubVars, visiting, runnerVars, recovery, lost>>

-----------------------------------------------------------------------------

RoundId == Pull \X Round

OpenRepairs == {r \in RoundId : IsOpen(r[1], r[2])}

\* Serving processes requests and runs goroutines; a live daemon's context is
\* not cancelled yet.  A hung one is up, but its sweep holds the mutex in a call
\* that nobody answers.
Live == {"booting", "up", "hung"}
Serving == Live \cup {"stopping"}

\* "spawned": registered and loading; "running": the agent works; "pushed":
\* CommitAndPush is behind it; "writing": out of the registry; "returning": Run
\* has returned, the deferred backstop has not.
Registered == {"spawned", "running", "pushed"}
RunnerPc == {"idle", "writing", "returning"} \cup Registered

Fill(v) == [p \in Pull |-> [n \in Round |-> v]]

UpkeepInit ==
    /\ Init
    /\ daemon = "up"
    /\ restarts = 0
    /\ failures = 0
    /\ watched = [p \in Pull |-> TRUE]
    /\ pr = [p \in Pull |-> "none"]
    /\ tip = [p \in Pull |-> NoSha]
    /\ inbox = [p \in Pull |-> {}]
    /\ visiting = {}
    /\ runner = Fill("idle")
    /\ reason = Fill("none")
    /\ work = Fill(NoSha)
    /\ answer = Fill("none")
    /\ recovery = {}
    /\ lost = {}

-----------------------------------------------------------------------------
\* The pull request on GitHub, outside the repository's code.

DependabotOpens(p) ==
    /\ pr[p] = "none"
    /\ pr' = [pr EXCEPT ![p] = "open"]
    /\ tip' = [tip EXCEPT ![p] = 1]
    /\ inbox' = [inbox EXCEPT ![p] = {1}]
    /\ UNCHANGED <<bumpVars, processVars, watched, visiting, runnerVars, recovery, lost>>

\* A rebase, or anybody else's push.  The translator ignores the deliveries of a
\* pull request that is not dependabot's.
DependabotPushes(p) ==
    /\ pr[p] \in {"open", "foreign"}
    /\ tip[p] + 1 \in Sha
    /\ tip' = [tip EXCEPT ![p] = @ + 1]
    /\ inbox' = [inbox EXCEPT ![p] = IF pr[p] = "open" THEN @ \cup {tip[p] + 1} ELSE @]
    /\ UNCHANGED <<bumpVars, processVars, watched, pr, visiting, runnerVars, recovery, lost>>

PullRequestCloses(p) ==
    /\ pr[p] = "open"
    /\ pr' = [pr EXCEPT ![p] = "closed"]
    /\ UNCHANGED <<bumpVars, processVars, watched, tip, inbox, visiting, runnerVars, recovery, lost>>

\* Without a delivery: the author's login is another's now, or the pull request
\* is not found.
PullRequestLeaves(p) ==
    /\ pr[p] = "open"
    /\ \E s \in {"foreign", "gone"} : pr' = [pr EXCEPT ![p] = s]
    /\ UNCHANGED <<bumpVars, processVars, watched, tip, inbox, visiting, runnerVars, recovery, lost>>

\* A webhook that meets no daemon, or is answered with an error.
DeliveryLost(p, s) ==
    /\ s \in inbox[p]
    /\ failures < MaxFailures
    /\ failures' = failures + 1
    /\ inbox' = [inbox EXCEPT ![p] = @ \ {s}]
    /\ UNCHANGED <<bumpVars, daemon, restarts, watched, pr, tip, visiting, runnerVars, recovery, lost>>

-----------------------------------------------------------------------------
\* The process.

Boot ==
    /\ daemon = "down"
    /\ daemon' = "booting"
    /\ recovery' = OpenRepairs
    /\ UNCHANGED <<bumpVars, restarts, failures, watched, githubVars, visiting, runnerVars, lost>>

RecoveryOutcome(p) == IF state[p] = "closed" THEN "pull_request_closed" ELSE "daemon_restart"

\* BumpRecovery.one
RecoverOne(p, n) ==
    /\ daemon = "booting"
    /\ <<p, n>> \in recovery
    /\ recovery' = recovery \ {<<p, n>>}
    /\ \/ RecordOutcome(p, n, RecoveryOutcome(p), NoSha)
       \/ ~IsTarget(p, n) /\ UNCHANGED bumpVars
    /\ UNCHANGED <<processVars, watched, githubVars, visiting, runnerVars, lost>>

RecoverOneFails(p, n) ==
    /\ daemon = "booting"
    /\ <<p, n>> \in recovery
    /\ failures < MaxFailures
    /\ failures' = failures + 1
    /\ recovery' = recovery \ {<<p, n>>}
    /\ lost' = lost \cup {<<p, n>>}
    /\ UNCHANGED <<bumpVars, daemon, restarts, watched, githubVars, visiting, runnerVars>>

RecoveryDone ==
    /\ daemon = "booting"
    /\ recovery = {}
    /\ daemon' = "up"
    /\ UNCHANGED <<bumpVars, restarts, failures, watched, githubVars, visiting, runnerVars,
                   recovery, lost>>

\* The context is cancelled; the process stays up for the rounds it waits for.
Shutdown ==
    /\ daemon \in Live
    /\ restarts < MaxRestarts
    /\ restarts' = restarts + 1
    /\ daemon' = "stopping"
    /\ UNCHANGED <<bumpVars, failures, watched, githubVars, visiting, runnerVars, recovery, lost>>

Die ==
    /\ daemon' = "down"
    /\ visiting' = {}
    /\ runner' = Fill("idle")
    /\ reason' = Fill("none")
    /\ work' = Fill(NoSha)
    /\ answer' = Fill("none")
    /\ recovery' = {}
    /\ UNCHANGED <<bumpVars, failures, watched, githubVars, lost>>

Exit == daemon = "stopping" /\ Die /\ UNCHANGED restarts

\* A call of the sweep is never answered: they run on the daemon's own context,
\* without a deadline, and with the mutex held.
SweepHangs ==
    /\ daemon = "up"
    /\ daemon' = "hung"
    /\ UNCHANGED <<bumpVars, restarts, failures, watched, githubVars, visiting, runnerVars,
                   recovery, lost>>

Crash ==
    /\ daemon \in Live
    /\ restarts < MaxRestarts
    /\ restarts' = restarts + 1
    /\ Die

-----------------------------------------------------------------------------
\* The sweep: deliveries, oldest first, then the services.

InSweep == daemon = "up" /\ visiting = {}

IsOldest(p, s) == s \in inbox[p] /\ \A t \in inbox[p] : s <= t

\* opened: an unwatched repository's delivery is ignored.
TranslateOpened(p) ==
    /\ InSweep
    /\ IsOldest(p, 1)
    /\ inbox' = [inbox EXCEPT ![p] = @ \ {1}]
    /\ IF watched[p] THEN NewBump(p, 1) ELSE UNCHANGED bumpVars
    /\ UNCHANGED <<processVars, watched, pr, tip, visiting, runnerVars, recovery, lost>>

\* synchronize: a refusal, and a bump nobody knows, consume the delivery too.
Synchronize(p, s) ==
    /\ InSweep
    /\ s # 1
    /\ inbox' = [inbox EXCEPT ![p] = @ \ {s}]
    /\ \/ AdvanceHead(p, s)
       \/ (state[p] \in {"absent", "closed", "abandoned"} \/ s = head[p]) /\ UNCHANGED bumpVars
    /\ UNCHANGED <<daemon, restarts, watched, pr, tip, visiting, runnerVars, recovery, lost>>

TranslateSynchronize(p, s) ==
    /\ IsOldest(p, s)
    /\ Synchronize(p, s)
    /\ UNCHANGED failures

\* The store failed for the older ones, and the sweep went on without them:
\* they are translated in a later one, behind this one.
TranslateSynchronizeFirst(p, s) ==
    /\ s \in inbox[p]
    /\ ~IsOldest(p, s)
    /\ Synchronize(p, s)
    /\ failures < MaxFailures
    /\ failures' = failures + 1

\* The command committed and its processing row did not: the delivery is
\* processed again in the next sweep.
TranslateSynchronizeAgain(p, s) ==
    /\ InSweep
    /\ failures < MaxFailures
    /\ failures' = failures + 1
    /\ s # 1
    /\ IsOldest(p, s)
    /\ AdvanceHead(p, s)
    /\ UNCHANGED <<daemon, restarts, watched, githubVars, visiting, runnerVars, recovery, lost>>

\* A check event of any commit, and what GitHub answers for it at that moment.
TranslateChecks(p, s, c) ==
    /\ InSweep
    /\ s <= tip[p]
    /\ RecordVerdict(p, s, c)
    /\ UNCHANGED <<processVars, watched, githubVars, visiting, runnerVars, recovery, lost>>

TranslateClosed(p) ==
    /\ InSweep
    /\ pr[p] = "closed"
    /\ Close(p)
    /\ UNCHANGED <<processVars, watched, githubVars, visiting, runnerVars, recovery, lost>>

\* Faulty: a bump that was repaired once is never stale.
SweepStaleUntried(p) ==
    /\ InSweep
    /\ state[p] = "awaiting_checks"
    /\ rounds[p] = 0
    /\ Abandon(p)
    /\ UNCHANGED <<processVars, watched, githubVars, visiting, runnerVars, recovery, lost>>

\* StaleCheckSweeper: the window has passed since the latest transition.
SweepStale(p) ==
    /\ InSweep
    /\ state[p] = "awaiting_checks"
    /\ Abandon(p)
    /\ UNCHANGED <<processVars, watched, githubVars, visiting, runnerVars, recovery, lost>>

\* Faulty: every open round is told its pull request closed.
CancelClosedBumpsAny(p, n) ==
    /\ InSweep
    /\ IsOpen(p, n)
    /\ runner[p][n] \in Registered
    /\ reason' = [reason EXCEPT ![p][n] = "pull_request_closed"]
    /\ UNCHANGED <<bumpVars, processVars, watched, githubVars, visiting, runner, work, answer,
                   recovery, lost>>

\* cancelClosedBumps: the last reason given wins.
CancelClosedBumps(p, n) ==
    /\ InSweep
    /\ state[p] = "closed"
    /\ IsOpen(p, n)
    /\ runner[p][n] \in Registered
    /\ reason' = [reason EXCEPT ![p][n] = "pull_request_closed"]
    /\ UNCHANGED <<bumpVars, processVars, watched, githubVars, visiting, runner, work, answer,
                   recovery, lost>>

\* RepairScheduler.start, first half: the watch, then the pull request and its
\* author, then the bump are read, each on its own.  Every other answer leaves
\* the bump queued.
Visit(p) ==
    /\ InSweep
    /\ state[p] = "queued"
    /\ watched[p]
    /\ pr[p] = "open"
    /\ tip[p] = head[p]
    /\ visiting' = {p}
    /\ UNCHANGED <<bumpVars, processVars, watched, githubVars, runnerVars, recovery, lost>>

\* The brief is refused without a failing verdict of the current head.
HasBrief(p) == CurrentVerdict(p) = "failure"

OpenRound(p) ==
    /\ daemon = "up"
    /\ p \in visiting
    /\ HasBrief(p)
    /\ StartRepair(p)
    /\ visiting' = {}
    /\ runner' = [runner EXCEPT ![p][rounds[p] + 1] = "spawned"]
    /\ UNCHANGED <<processVars, watched, githubVars, reason, work, answer, recovery, lost>>

\* The round's row committed, the scheduler was told it did not.
OpenRoundUnacknowledged(p) ==
    /\ daemon = "up"
    /\ p \in visiting
    /\ HasBrief(p)
    /\ StartRepair(p)
    /\ failures < MaxFailures
    /\ failures' = failures + 1
    /\ lost' = lost \cup {<<p, rounds[p] + 1>>}
    /\ visiting' = {}
    /\ UNCHANGED <<daemon, restarts, watched, githubVars, runnerVars, recovery>>

\* The brief or the bump refuses.
LeaveQueued(p) ==
    /\ daemon = "up"
    /\ p \in visiting
    /\ ~HasBrief(p) \/ state[p] # "queued" \/ OpenRounds(p) # {} \/ rounds[p] >= Cap(p)
    /\ visiting' = {}
    /\ UNCHANGED <<bumpVars, processVars, watched, githubVars, runnerVars, recovery, lost>>

-----------------------------------------------------------------------------
\* The repairer of one round and the scheduler's backstop around it.

Move(p, n, from, to) ==
    /\ daemon \in Serving
    /\ runner[p][n] \in from
    /\ runner' = [runner EXCEPT ![p][n] = to]

\* Run returns; its slot and its outcome are gone.
Return(p, n, from) ==
    /\ Move(p, n, from, "returning")
    /\ reason' = [reason EXCEPT ![p][n] = "none"]
    /\ work' = [work EXCEPT ![p][n] = NoSha]
    /\ answer' = [answer EXCEPT ![p][n] = "none"]

\* The branch is where the round found it.
AtBase(p) == tip[p] = base[p] /\ pr[p] # "gone"

\* PrepareHead checks out the round's base if the branch is still there.
Prepare(p, n) ==
    /\ IsTarget(p, n)
    /\ AtBase(p)
    /\ Move(p, n, {"spawned"}, "running")
    /\ UNCHANGED <<bumpVars, processVars, watched, githubVars, visiting, reason, work, answer,
                   recovery, lost>>

\* Any step before the agent ran fails, for instance because it was stopped;
\* with nobody having stopped it, the shutdown leaves the round to recovery.
SetupFails(p, n) ==
    /\ Move(p, n, {"spawned"}, "writing")
    /\ answer' = [answer EXCEPT ![p][n] =
          IF reason[p][n] # "none" THEN reason[p][n]
          ELSE IF daemon = "stopping" THEN "none" ELSE "failed_infra"]
    /\ UNCHANGED <<bumpVars, processVars, watched, githubVars, visiting, reason, work, recovery, lost>>

\* The round is not open any more, the bump cannot be read, or the repairer
\* panics: Run returns empty-handed.
Bail(p, n) ==
    /\ Return(p, n, Registered)
    /\ UNCHANGED <<bumpVars, processVars, watched, githubVars, visiting, recovery, lost>>

\* OnRunBegan's best-effort write.
RunBegan(p, n) ==
    /\ daemon \in Serving
    /\ runner[p][n] = "running"
    /\ RecordRun(p, n)
    /\ UNCHANGED <<processVars, watched, githubVars, visiting, runnerVars, recovery, lost>>

\* Faulty: a plain force push.
PushForced(p, n) ==
    /\ Move(p, n, {"running"}, "pushed")
    /\ tip[p] + 1 \in Sha
    /\ tip' = [tip EXCEPT ![p] = @ + 1]
    /\ work' = [work EXCEPT ![p][n] = tip[p] + 1]
    /\ UNCHANGED <<bumpVars, processVars, watched, pr, inbox, visiting, reason, answer, recovery, lost>>

\* CommitAndPush, whatever ended the agent.  The lease is the commit the round
\* started from, and GitHub sends the synchronize event back with the daemon's
\* own bot as sender, which the translator ignores.  Without a commit the push
\* of the base itself must pass the lease too.
Push(p, n) ==
    /\ Move(p, n, {"running"}, "pushed")
    /\ AtBase(p)
    /\ \/ /\ tip[p] + 1 \in Sha
          /\ tip' = [tip EXCEPT ![p] = @ + 1]
          /\ work' = [work EXCEPT ![p][n] = tip[p] + 1]
       \/ /\ work' = [work EXCEPT ![p][n] = tip[p]]
          /\ UNCHANGED tip
    /\ UNCHANGED <<bumpVars, processVars, watched, pr, inbox, visiting, reason, answer, recovery, lost>>

\* The lease is refused, or git fails, possibly after GitHub took the push.
PushFails(p, n) ==
    /\ Move(p, n, {"running"}, "pushed")
    /\ \/ ~AtBase(p) /\ UNCHANGED <<tip, failures>>
       \/ /\ failures < MaxFailures
          /\ failures' = failures + 1
          /\ tip' \in {tip, [tip EXCEPT ![p] = IF AtBase(p) /\ @ + 1 \in Sha THEN @ + 1 ELSE @]}
    /\ work' = [work EXCEPT ![p][n] = NoSha]
    /\ UNCHANGED <<bumpVars, daemon, restarts, watched, pr, inbox, visiting, reason, answer,
                   recovery, lost>>

\* What execute may come back with after the push.  Work that did not reach
\* GitHub is an infrastructure failure whatever ended the run; so is a conflict
\* check that fails.  Without commits the agent's own end is no_change.
Answers(p, n) ==
    (IF work[p][n] = NoSha THEN {"failed_infra"}
     ELSE {"failed", "budget_exhausted"}
            \cup (IF reason[p][n] # "none" THEN {reason[p][n]} ELSE {})
            \cup (IF work[p][n] = base[p] THEN {"no_change"} ELSE {"pushed", "failed_infra"}))
    \cup (IF daemon = "stopping" /\ reason[p][n] = "none" THEN {"none"} ELSE {})

Decide(p, n, o) ==
    /\ Move(p, n, {"pushed"}, "writing")
    /\ o \in Answers(p, n)
    /\ answer' = [answer EXCEPT ![p][n] = o]
    /\ UNCHANGED <<bumpVars, processVars, watched, githubVars, visiting, reason, work, recovery, lost>>

Refused(p, n, o) ==
    \/ ~IsTarget(p, n)
    \/ o = "pull_request_closed" /\ state[p] # "closed"
    \/ o = "pushed" /\ work[p][n] = base[p]

\* Faulty: the outcome moves the bump as it was loaded before the run.
WriteStale(p, n) ==
    /\ Return(p, n, {"writing"})
    /\ answer[p][n] # "none"
    /\ round' = [round EXCEPT ![p][n] = answer[p][n]]
    /\ state' = [state EXCEPT ![p] = OutcomeMove(p, n, answer[p][n])[1]]
    /\ UNCHANGED <<head, verdict, rounds, base, grants, abandonment>>
    /\ UNCHANGED <<processVars, watched, githubVars, visiting, recovery, lost>>

\* RecordOutcome on a detached context; without an answer nothing is written.
Write(p, n) ==
    /\ Return(p, n, {"writing"})
    /\ \/ answer[p][n] # "none" /\ RecordOutcome(p, n, answer[p][n], work[p][n])
       \/ (answer[p][n] = "none" \/ Refused(p, n, answer[p][n])) /\ UNCHANGED bumpVars
    /\ UNCHANGED <<processVars, watched, githubVars, visiting, recovery, lost>>

WriteFails(p, n) ==
    /\ Return(p, n, {"writing"})
    /\ answer[p][n] # "none"
    /\ failures < MaxFailures
    /\ failures' = failures + 1
    /\ UNCHANGED <<bumpVars, daemon, restarts, watched, githubVars, visiting, recovery, lost>>

\* Faulty: the supervisor only logs.
BackstopLogs(p, n) ==
    /\ Move(p, n, {"returning"}, "idle")
    /\ UNCHANGED <<bumpVars, processVars, watched, githubVars, visiting, reason, work, answer,
                   recovery, lost>>

\* The deferred supervisor: stands down once the context is done, and else
\* fails a round the repairer left open.
Backstop(p, n) ==
    /\ Move(p, n, {"returning"}, "idle")
    /\ \/ daemon \in Live /\ RecordOutcome(p, n, "failed_infra", NoSha)
       \/ (daemon = "stopping" \/ ~IsTarget(p, n)) /\ UNCHANGED bumpVars
    /\ UNCHANGED <<processVars, watched, githubVars, visiting, reason, work, answer, recovery, lost>>

BackstopFails(p, n) ==
    /\ Move(p, n, {"returning"}, "idle")
    /\ daemon \in Live
    /\ IsTarget(p, n)
    /\ failures < MaxFailures
    /\ failures' = failures + 1
    /\ lost' = lost \cup {<<p, n>>}
    /\ UNCHANGED <<bumpVars, daemon, restarts, watched, githubVars, visiting, reason, work, answer,
                   recovery>>

-----------------------------------------------------------------------------
\* The operator.

ApiRetry(p) ==
    /\ daemon \in Serving
    /\ Retry(p)
    /\ UNCHANGED <<processVars, watched, githubVars, visiting, runnerVars, recovery, lost>>

ApiStop(p, n) ==
    /\ daemon \in Serving
    /\ IsTarget(p, n)
    /\ runner[p][n] \in Registered
    /\ reason' = [reason EXCEPT ![p][n] = "operator_stop"]
    /\ UNCHANGED <<bumpVars, processVars, watched, githubVars, visiting, runner, work, answer,
                   recovery, lost>>

\* watch and unwatch
ApiWatch(p) ==
    /\ daemon \in Serving
    /\ watched' = [watched EXCEPT ![p] = ~@]
    /\ UNCHANGED <<bumpVars, processVars, githubVars, visiting, runnerVars, recovery, lost>>

-----------------------------------------------------------------------------

ProcessNext == Boot \/ RecoveryDone \/ Shutdown \/ Exit \/ Crash \/ SweepHangs

PullNext(p) ==
    \/ DependabotOpens(p) \/ DependabotPushes(p) \/ PullRequestCloses(p) \/ PullRequestLeaves(p)
    \/ TranslateOpened(p)
    \/ \E s \in Sha :
          \/ DeliveryLost(p, s)
          \/ TranslateSynchronize(p, s)
          \/ TranslateSynchronizeAgain(p, s)
          \/ TranslateSynchronizeFirst(p, s)
    \/ \E s \in Sha, c \in Conclusion : TranslateChecks(p, s, c)
    \/ TranslateClosed(p)
    \/ SweepStale(p)
    \/ Visit(p) \/ OpenRound(p) \/ OpenRoundUnacknowledged(p) \/ LeaveQueued(p)
    \/ ApiRetry(p) \/ ApiWatch(p)

RoundNext(p, n) ==
    \/ RecoverOne(p, n) \/ RecoverOneFails(p, n)
    \/ CancelClosedBumps(p, n)
    \/ Prepare(p, n) \/ SetupFails(p, n) \/ Bail(p, n) \/ RunBegan(p, n)
    \/ Push(p, n) \/ PushFails(p, n)
    \/ \E o \in Outcome \cup {"none"} : Decide(p, n, o)
    \/ Write(p, n) \/ WriteFails(p, n)
    \/ Backstop(p, n) \/ BackstopFails(p, n)
    \/ ApiStop(p, n)

UpkeepNext ==
    \/ ProcessNext
    \/ \E p \in Pull : PullNext(p)
    \/ \E p \in Pull, n \in Round : RoundNext(p, n)

UpkeepSpec == UpkeepInit /\ [][UpkeepNext]_vars

\* Fairness of the daemon's own loop: the ticker wakes the sweep again, the
\* process is restarted, and a sweep that does not hang comes to its deliveries,
\* to the stale bumps and to the end of a start.  A closing need not arrive, and
\* of GitHub, the checks and the operator nothing is assumed.
FairSpec ==
    /\ UpkeepSpec
    /\ WF_vars(Boot) /\ WF_vars(RecoveryDone) /\ WF_vars(Exit)
    /\ \A p \in Pull :
          /\ WF_vars(TranslateOpened(p))
          /\ \A s \in Sha : WF_vars(TranslateSynchronize(p, s))
          /\ WF_vars(SweepStale(p))
          /\ WF_vars(OpenRound(p) \/ OpenRoundUnacknowledged(p) \/ LeaveQueued(p))
    /\ \A p \in Pull, n \in Round : WF_vars(RecoverOne(p, n) \/ RecoverOneFails(p, n))

\* What NothingWaitsForEver assumes beyond the code.  The sandbox slots are
\* shared with the issues' attempts, which the sweep starts first: a repair gets
\* one in the end only if those leave it one.
SlotsCome == \A p \in Pull : WF_vars(Visit(p))

\* And a repairer's calls, of which those of the setup have no deadline, are
\* answered some time.
RepairerFairness ==
    \A p \in Pull, n \in Round :
        /\ WF_vars(Prepare(p, n) \/ SetupFails(p, n) \/ Bail(p, n))
        /\ WF_vars(Push(p, n) \/ PushFails(p, n))
        /\ WF_vars(\E o \in Outcome \cup {"none"} : Decide(p, n, o))
        /\ WF_vars(Write(p, n) \/ WriteFails(p, n))
        /\ WF_vars(Backstop(p, n) \/ BackstopFails(p, n))

-----------------------------------------------------------------------------

\* Type invariant of the daemon's and GitHub's state.
UpkeepTypeOK ==
    /\ TypeOK
    /\ daemon \in Serving \cup {"down"}
    /\ restarts \in 0..MaxRestarts
    /\ failures \in 0..MaxFailures
    /\ watched \in [Pull -> BOOLEAN]
    /\ pr \in [Pull -> {"none", "open", "closed", "foreign", "gone"}]
    /\ tip \in [Pull -> Sha \cup {NoSha}]
    /\ inbox \in [Pull -> SUBSET Sha]
    /\ visiting \in SUBSET Pull
    /\ runner \in [Pull -> [Round -> RunnerPc]]
    /\ reason \in [Pull -> [Round -> {"none", "operator_stop", "pull_request_closed"}]]
    /\ work \in [Pull -> [Round -> Sha \cup {NoSha}]]
    /\ answer \in [Pull -> [Round -> Outcome \cup {"none"}]]
    /\ recovery \in SUBSET RoundId
    /\ lost \in SUBSET RoundId

\* The daemon reaches the bumps through the commands of the aggregate only.
ImplementsBump == BumpSpec

\* Nothing but its repairer, its backstop or the next boot scan ends a round, so
\* in a daemon that is up an open round has a goroutine, except for those a
\* failed write abandoned.
RoundsAreAttended ==
    daemon \in {"up", "hung"} => \A r \in OpenRepairs \ lost : runner[r[1]][r[2]] # "idle"

\* A repairer works on, and pushes for, the latest round of its bump, which is
\* still open; two never work on one branch.
RepairerOwnsRound ==
    \A p \in Pull, n \in Round :
        runner[p][n] \in Registered \cup {"writing"} => IsTarget(p, n) /\ n = rounds[p]

\* The outcome a repairer brings to the store is never refused there: a pushed
\* head is new, and only a closed bump is told that its pull request closed.
AnswerLands ==
    \A p \in Pull, n \in Round : runner[p][n] = "writing" => ~Refused(p, n, answer[p][n])

\* Whatever dependabot pushes, and whenever the retry, the scheduler's reads and
\* the push fall: autophage replaces only commits whose checks failed.
PushesReplaceFailures ==
    [][\A p \in Pull, n \in Round :
          runner[p][n] = "running" /\ runner'[p][n] = "pushed" /\ tip'[p] # tip[p]
              => verdict[p][tip[p]] = "failure"]_vars

\* A bump queued on a commit the branch has left, with no event to tell it so
\* and no round to end.
Stranded(p) ==
    /\ state[p] = "queued"
    /\ OpenRounds(p) = {}
    /\ head[p] # tip[p]
    /\ inbox[p] = {}

\* A bump queued for a pull request that the scheduler leaves alone for good: not
\* dependabot's any more, not found, or closed without the delivery.
Forsaken(p) ==
    /\ state[p] = "queued"
    /\ OpenRounds(p) = {}
    /\ pr[p] # "open"

\* Provided that slots come free for repairs and that the repairers' calls are
\* answered, no bump waits for ever on checks, on the queue or on its round,
\* unless it is stranded, forsaken or unwatched, its round was lost to a failed
\* write, or the sweep hangs.
NothingWaitsForEver ==
    SlotsCome /\ RepairerFairness =>
        \A p \in Pull :
            state[p] \in {"awaiting_checks", "queued", "repairing"}
                ~> \/ state[p] \in {"green", "abandoned", "closed"}
                   \/ Stranded(p)
                   \/ Forsaken(p)
                   \/ ~watched[p]
                   \/ \E n \in OpenRounds(p) : <<p, n>> \in lost
                   \/ daemon = "hung"


=============================================================================
