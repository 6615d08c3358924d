----------------------------- MODULE Resolution -----------------------------
(***************************************************************************)
(* The daemon around the cases: the dispatcher's sweep, the scheduler, the *)
(* runner goroutine of each attempt with its supervisor, the boot recovery *)
(* and the operator's API, over the store that serialises the commands of  *)
(* a case.  Everything outside the store dies with the process.            *)
(*                                                                         *)
(* A store write either commits or does nothing; MaxFailures bounds how    *)
(* often one fails.  The scheduler's opening write may also commit and     *)
(* still report an error, when the connection dies under the COMMIT.       *)
(***************************************************************************)
EXTENDS Case, Integers

CONSTANTS
    Concurrency,    \* sandbox.concurrency: how many attempts may run at once
    MaxRestarts,    \* bound on shutdowns and crashes of the daemon
    MaxFailures,    \* bound on store writes that fail
    EarlyRun        \* may the operator ask for a run before recovery is done?

ASSUME ResolutionAssumption ==
    /\ Concurrency \in Nat \ {0}
    /\ MaxRestarts \in Nat
    /\ MaxFailures \in Nat
    /\ EarlyRun \in BOOLEAN

VARIABLES
    daemon,     \* the process: "down", "booting", "recovering", "up", "stopping"
    restarts,   \* shutdowns and crashes so far
    failures,   \* failed store writes so far
    enrolled,   \* enrolled[i]: the issue's repository is not removed
    step,       \* the step of the sweep that holds the sweep mutex, "idle", or
                \* "hung": a call of the sweep never answers
    queue,      \* the queued cases the schedule step has still to visit
    slots,      \* the slots the schedule step has still to give away
    apiSweep,   \* a sweep the operator's run request spawned is waiting
    runner,     \* runner[i][n]: where the goroutine of attempt n is
    reason,     \* reason[i][n]: why the runner's registered slot was cancelled
    answer,     \* answer[i][n]: the outcome the runner came back with
    recovery,   \* the open attempts the boot scan listed and has not ended
    lost        \* the attempts a failed write left without anybody to end them

daemonVars == <<daemon, restarts, failures, enrolled>>
sweepVars == <<step, queue, slots, apiSweep>>
runnerVars == <<runner, reason, answer>>
vars == <<caseVars, daemonVars, sweepVars, runnerVars, recovery, lost>>

-----------------------------------------------------------------------------

Attempt == Issue \X Ordinal

OpenAttempts == {a \in Attempt : IsOpen(a[1], a[2])}

\* Serving processes requests and runs goroutines; a live daemon's context is
\* not cancelled yet.
Serving == {"booting", "recovering", "up", "stopping"}
Live == Serving \ {"stopping"}

\* "spawned": go statement executed; "loading": in the registry, case not read
\* yet; "running": in execute; "teardown": execute has decided, the deferred
\* Teardown is running; "writing": out of the registry; "returning": Run has
\* returned, the deferred backstop has not.
Registered == {"loading", "running", "teardown"}
Executing == {"spawned"} \cup Registered
RunnerPc == {"idle", "writing", "returning"} \cup Executing

\* The runners that hold or will hold a sandbox.
ExecutingAttempts == {a \in Attempt : runner[a[1]][a[2]] \in Executing}

\* Faulty: an open attempt does not take a slot.
FreeSlotsAll == Concurrency

FreeSlots == Concurrency - Cardinality(OpenAttempts)

Fill(v) == [i \in Issue |-> [n \in Ordinal |-> v]]

ResInit ==
    /\ Init
    /\ daemon = "booting"
    /\ restarts = 0
    /\ failures = 0
    /\ enrolled = [i \in Issue |-> TRUE]
    /\ step = "idle"
    /\ queue = {}
    /\ slots = 0
    /\ apiSweep = FALSE
    /\ runner = Fill("idle")
    /\ reason = Fill("none")
    /\ answer = Fill("none")
    /\ recovery = {}
    /\ lost = {}

-----------------------------------------------------------------------------
\* The process: boot, recovery, shutdown and crash.

Boot ==
    /\ daemon = "down"
    /\ daemon' = "booting"
    /\ UNCHANGED <<caseVars, restarts, failures, enrolled, sweepVars, runnerVars, recovery, lost>>

\* Faulty: the boot scan runs again on every reconnect of the listener.
RecoveryListAgain ==
    /\ daemon \in {"booting", "up"}
    /\ daemon' = "recovering"
    /\ recovery' = OpenAttempts
    /\ UNCHANGED <<caseVars, restarts, failures, enrolled, sweepVars, runnerVars, lost>>

\* Recovery.Run lists every open attempt, whoever opened it.
RecoveryList ==
    /\ daemon = "booting"
    /\ daemon' = "recovering"
    /\ recovery' = OpenAttempts
    /\ UNCHANGED <<caseVars, restarts, failures, enrolled, sweepVars, runnerVars, lost>>

RecoveryOutcome(i) == IF state[i] = "closed" THEN "issue_closed" ELSE "daemon_restart"

RecoverOne(i, n) ==
    /\ daemon = "recovering"
    /\ <<i, n>> \in recovery
    /\ recovery' = recovery \ {<<i, n>>}
    /\ \/ RecordOutcome(i, n, RecoveryOutcome(i))
       \/ ~IsTarget(i, n) /\ UNCHANGED caseVars
    /\ UNCHANGED <<daemonVars, sweepVars, runnerVars, lost>>

RecoverOneFails(i, n) ==
    /\ daemon = "recovering"
    /\ <<i, n>> \in recovery
    /\ failures < MaxFailures
    /\ failures' = failures + 1
    /\ recovery' = recovery \ {<<i, n>>}
    /\ lost' = lost \cup {<<i, n>>}
    /\ UNCHANGED <<caseVars, daemon, restarts, enrolled, sweepVars, runnerVars>>

RecoveryDone ==
    /\ daemon = "recovering"
    /\ recovery = {}
    /\ daemon' = "up"
    /\ UNCHANGED <<caseVars, restarts, failures, enrolled, sweepVars, runnerVars, recovery, lost>>

\* SIGTERM, a deploy or a failed boot scan cancels the daemon's context; the
\* process stays up for the runners it waits for.
Shutdown ==
    /\ daemon \in Live
    /\ restarts < MaxRestarts
    /\ restarts' = restarts + 1
    /\ daemon' = "stopping"
    /\ UNCHANGED <<caseVars, failures, enrolled, sweepVars, runnerVars, recovery, lost>>

Die ==
    /\ daemon' = "down"
    /\ step' = "idle"
    /\ queue' = {}
    /\ slots' = 0
    /\ apiSweep' = FALSE
    /\ runner' = Fill("idle")
    /\ reason' = Fill("none")
    /\ answer' = Fill("none")
    /\ recovery' = {}
    /\ UNCHANGED <<caseVars, failures, enrolled, lost>>

\* The wait for the runners is bounded, so an exit may cut them off.
Exit == daemon = "stopping" /\ Die /\ UNCHANGED restarts

Crash ==
    /\ daemon \in Live
    /\ restarts < MaxRestarts
    /\ restarts' = restarts + 1
    /\ Die

-----------------------------------------------------------------------------
\* The sweep.  One mutex holder at a time walks the steps in this order.

\* The dispatcher sweeps on a wake-up or on its ticker, once recovery is done;
\* the goroutine of a run request sweeps whenever it gets the mutex.
StartSweep ==
    /\ step = "idle"
    /\ daemon = "up" \/ (daemon \in Live /\ apiSweep)
    /\ step' = "translate"
    /\ apiSweep' = FALSE
    /\ UNCHANGED <<caseVars, daemonVars, queue, slots, runnerVars, recovery, lost>>

InStep(s) == daemon \in Live /\ step = s

\* translate: one delivery, one command.
TranslateOpened(i) ==
    /\ InStep("translate")
    /\ enrolled[i]
    /\ NewCase(i)
    /\ UNCHANGED <<daemonVars, sweepVars, runnerVars, recovery, lost>>

\* The label delivery creates the missing case first (TranslateOpened).
TranslateLabeled(i) ==
    /\ InStep("translate")
    /\ enrolled[i]
    /\ RecordApproval(i)
    /\ UNCHANGED <<daemonVars, sweepVars, runnerVars, recovery, lost>>

TranslateClosed(i) ==
    /\ InStep("translate")
    /\ Close(i)
    /\ UNCHANGED <<daemonVars, sweepVars, runnerVars, recovery, lost>>

\* Installation deliveries.  Enrollment removes an archived repository later
\* in the same sweep, also before anything is triaged or scheduled.
TranslateEnrollment(i) ==
    /\ InStep("translate")
    /\ enrolled' = [enrolled EXCEPT ![i] = ~@]
    /\ UNCHANGED <<caseVars, daemon, restarts, failures, sweepVars, runnerVars, recovery, lost>>

TranslateDone ==
    /\ InStep("translate")
    /\ step' = "cancel"
    /\ UNCHANGED <<caseVars, daemonVars, queue, slots, apiSweep, runnerVars, recovery, lost>>

\* Faulty: the step is not wired.
CancelClosedUnwired ==
    /\ InStep("cancel")
    /\ step' = "triage"
    /\ UNCHANGED <<caseVars, daemonVars, queue, slots, apiSweep, runnerVars, recovery, lost>>

\* Canceller.Cancel reaches the runners that are registered; the last reason
\* given wins.
CancelClosed ==
    /\ InStep("cancel")
    /\ step' = "triage"
    /\ reason' = [i \in Issue |-> [n \in Ordinal |->
          IF state[i] = "closed" /\ IsOpen(i, n) /\ runner[i][n] \in Registered
          THEN "issue_closed" ELSE reason[i][n]]]
    /\ UNCHANGED <<caseVars, daemonVars, queue, slots, apiSweep, runner, answer, recovery, lost>>

Triage(i, size) ==
    /\ InStep("triage")
    /\ enrolled[i]
    /\ RecordTriage(i, size)
    /\ UNCHANGED <<daemonVars, sweepVars, runnerVars, recovery, lost>>

\* Scheduler.Run reads the free slots, then the queued cases.
ListQueue ==
    /\ InStep("triage")
    /\ IF FreeSlots <= 0
       THEN step' = "idle" /\ UNCHANGED <<queue, slots>>
       ELSE /\ step' = "schedule"
            /\ slots' = FreeSlots
            /\ queue' = {i \in Issue : state[i] = "queued" /\ enrolled[i]}
    /\ UNCHANGED <<caseVars, daemonVars, apiSweep, runnerVars, recovery, lost>>

Visit(i) ==
    /\ InStep("schedule")
    /\ slots > 0
    /\ i \in queue
    /\ queue' = queue \ {i}

Start(i) ==
    /\ Visit(i)
    /\ StartAttempt(i)
    /\ slots' = slots - 1
    /\ runner' = [runner EXCEPT ![i][attempts[i] + 1] = "spawned"]
    /\ UNCHANGED <<daemonVars, step, apiSweep, reason, answer, recovery, lost>>

\* The attempt row committed, the scheduler was told it did not: no runner,
\* and the slot is given away again.
StartUnacknowledged(i) ==
    /\ Visit(i)
    /\ StartAttempt(i)
    /\ failures < MaxFailures
    /\ failures' = failures + 1
    /\ lost' = lost \cup {<<i, attempts[i] + 1>>}
    /\ UNCHANGED <<daemon, restarts, enrolled, step, slots, apiSweep, runnerVars, recovery>>

\* The issue is closed on GitHub, a read failed, or the case refused.
Skip(i) ==
    /\ Visit(i)
    /\ UNCHANGED <<caseVars, daemonVars, step, slots, apiSweep, runnerVars, recovery, lost>>

SweepDone ==
    /\ InStep("schedule")
    /\ slots = 0 \/ queue = {}
    /\ step' = "idle"
    /\ queue' = {}
    /\ slots' = 0
    /\ UNCHANGED <<caseVars, daemonVars, apiSweep, runnerVars, recovery, lost>>

\* The list a step starts from cannot be read: the sweep logs it and goes on.
\* (A translate step without its list is TranslateDone at once.)
ListFails ==
    /\ \/ InStep("cancel") /\ step' = "triage"
       \/ InStep("triage") /\ step' = "idle"
    /\ failures < MaxFailures
    /\ failures' = failures + 1
    /\ UNCHANGED <<caseVars, daemon, restarts, enrolled, queue, slots, apiSweep, runnerVars,
                   recovery, lost>>

\* The calls of a sweep, to GitHub, to the model and to the store, run on the
\* daemon's context: no deadline, and the mutex is held.  One that is never
\* answered ends with the process, and no step of a sweep comes before that.
SweepHangs ==
    /\ daemon \in Live
    /\ step \notin {"idle", "hung"}
    /\ step' = "hung"
    /\ UNCHANGED <<caseVars, daemonVars, queue, slots, apiSweep, runnerVars, recovery, lost>>

-----------------------------------------------------------------------------
\* The runner of one attempt and the scheduler's backstop around it.

Move(i, n, from, to) ==
    /\ daemon \in Serving
    /\ runner[i][n] \in from
    /\ runner' = [runner EXCEPT ![i][n] = to]

\* Run returns; its slot and its outcome are gone.
Return(i, n, from) ==
    /\ Move(i, n, from, "returning")
    /\ reason' = [reason EXCEPT ![i][n] = "none"]
    /\ answer' = [answer EXCEPT ![i][n] = "none"]

Register(i, n) ==
    /\ Move(i, n, {"spawned"}, "loading")
    /\ UNCHANGED <<caseVars, daemonVars, sweepVars, reason, answer, recovery, lost>>

Load(i, n) ==
    /\ daemon \in Live
    /\ IsTarget(i, n)
    /\ Move(i, n, {"loading"}, "running")
    /\ UNCHANGED <<caseVars, daemonVars, sweepVars, reason, answer, recovery, lost>>

\* The attempt is not open any more, the case cannot be read, or the runner
\* panics: Run returns empty-handed.
Bail(i, n) ==
    /\ Return(i, n, {"loading", "running"})
    /\ UNCHANGED <<caseVars, daemonVars, sweepVars, recovery, lost>>

\* OnRunBegan's best-effort write.
RunBegan(i, n) ==
    /\ daemon \in Serving
    /\ runner[i][n] = "running"
    /\ RecordRun(i, n)
    /\ UNCHANGED <<daemonVars, sweepVars, runnerVars, recovery, lost>>

\* What execute may come back with.  A run may end on its own terms whatever
\* happens around it, and work that could not be pushed is a failure whatever
\* ended the run.  A cancelled run reports the reason the slot holds; one the
\* shutdown cut short and nobody stopped has no answer.
Answers(i, n) ==
    {"pull_request_opened", "budget_exhausted", "failed"}
        \cup (IF reason[i][n] # "none" THEN {reason[i][n]}
              ELSE IF daemon = "stopping" THEN {"none"} ELSE {})

Decide(i, n, o) ==
    /\ Move(i, n, {"running"}, "teardown")
    /\ o \in Answers(i, n)
    /\ answer' = [answer EXCEPT ![i][n] = o]
    /\ UNCHANGED <<caseVars, daemonVars, sweepVars, reason, recovery, lost>>

\* Teardown is done and the slot leaves the registry, before the write.
\* Without an answer there is nothing to write.
Unregister(i, n) ==
    /\ IF answer[i][n] = "none"
       THEN Return(i, n, {"teardown"})
       ELSE Move(i, n, {"teardown"}, "writing") /\ UNCHANGED <<reason, answer>>
    /\ UNCHANGED <<caseVars, daemonVars, sweepVars, recovery, lost>>

Refused(i, n, o) == ~IsTarget(i, n) \/ (o = "issue_closed" /\ state[i] # "closed")

\* Faulty: the outcome is written for the case as it was loaded before the run.
WriteStale(i, n) ==
    /\ Return(i, n, {"writing"})
    /\ attempt' = [attempt EXCEPT ![i][n] = answer[i][n]]
    /\ state' = [state EXCEPT ![i] = OutcomeMove(i, n, answer[i][n])]
    /\ UNCHANGED <<trust, triage, approvals, approvedSince, attempts, kind>>
    /\ UNCHANGED <<daemonVars, sweepVars, recovery, lost>>

\* RecordOutcome on a detached context: a shutdown does not stop it.
Write(i, n) ==
    /\ Return(i, n, {"writing"})
    /\ \/ RecordOutcome(i, n, answer[i][n])
       \/ Refused(i, n, answer[i][n]) /\ UNCHANGED caseVars
    /\ UNCHANGED <<daemonVars, sweepVars, recovery, lost>>

WriteFails(i, n) ==
    /\ Return(i, n, {"writing"})
    /\ failures < MaxFailures
    /\ failures' = failures + 1
    /\ UNCHANGED <<caseVars, daemon, restarts, enrolled, sweepVars, recovery, lost>>

\* Faulty: the supervisor only logs.
BackstopLogs(i, n) ==
    /\ Move(i, n, {"returning"}, "idle")
    /\ UNCHANGED <<caseVars, daemonVars, sweepVars, reason, answer, recovery, lost>>

\* The deferred supervisor: stands down once the context is done, and else
\* fails an attempt the runner left open.
Backstop(i, n) ==
    /\ Move(i, n, {"returning"}, "idle")
    /\ \/ daemon \in Live /\ RecordOutcome(i, n, "failed")
       \/ (daemon = "stopping" \/ ~IsTarget(i, n)) /\ UNCHANGED caseVars
    /\ UNCHANGED <<daemonVars, sweepVars, reason, answer, recovery, lost>>

BackstopFails(i, n) ==
    /\ Move(i, n, {"returning"}, "idle")
    /\ daemon \in Live
    /\ IsTarget(i, n)
    /\ failures < MaxFailures
    /\ failures' = failures + 1
    /\ lost' = lost \cup {<<i, n>>}
    /\ UNCHANGED <<caseVars, daemon, restarts, enrolled, sweepVars, reason, answer, recovery>>

-----------------------------------------------------------------------------
\* The operator.

ApiOpen == daemon \in Serving /\ (EarlyRun \/ daemon \in {"up", "stopping"})

\* run, first transaction: the case GitHub knows and the store does not.
ApiRunCreate(i) ==
    /\ ApiOpen
    /\ NewCase(i)
    /\ UNCHANGED <<daemonVars, sweepVars, runnerVars, recovery, lost>>

\* run, second transaction, and the sweep it spawns.  Whether the repository
\* is enrolled was read before and may be stale by now.
ApiRun(i) ==
    /\ ApiOpen
    /\ state[i] \notin {"queued", "attempting", "done", "closed"}
    /\ RecordApproval(i)
    /\ apiSweep' = TRUE
    /\ UNCHANGED <<daemonVars, step, queue, slots, runnerVars, recovery, lost>>

ApiStop(i, n) ==
    /\ daemon \in Serving
    /\ IsTarget(i, n)
    /\ runner[i][n] \in Registered
    /\ reason' = [reason EXCEPT ![i][n] = "operator_stop"]
    /\ UNCHANGED <<caseVars, daemonVars, sweepVars, runner, answer, recovery, lost>>

-----------------------------------------------------------------------------

ProcessNext == Boot \/ RecoveryList \/ RecoveryDone \/ Shutdown \/ Exit \/ Crash

SweepNext(i) ==
    \/ TranslateOpened(i)
    \/ TranslateLabeled(i)
    \/ TranslateClosed(i)
    \/ TranslateEnrollment(i)
    \/ \E size \in {"small", "large"} : Triage(i, size)
    \/ Start(i)
    \/ StartUnacknowledged(i)
    \/ Skip(i)
    \/ ApiRunCreate(i)
    \/ ApiRun(i)

AttemptNext(i, n) ==
    \/ RecoverOne(i, n)
    \/ RecoverOneFails(i, n)
    \/ Register(i, n)
    \/ Load(i, n)
    \/ Bail(i, n)
    \/ RunBegan(i, n)
    \/ \E o \in Outcome \cup {"none"} : Decide(i, n, o)
    \/ Unregister(i, n)
    \/ Write(i, n)
    \/ WriteFails(i, n)
    \/ Backstop(i, n)
    \/ BackstopFails(i, n)
    \/ ApiStop(i, n)

ResNext ==
    \/ ProcessNext
    \/ StartSweep \/ TranslateDone \/ CancelClosed \/ ListQueue \/ SweepDone
    \/ ListFails \/ SweepHangs
    \/ \E i \in Issue : SweepNext(i)
    \/ \E i \in Issue, n \in Ordinal : AttemptNext(i, n)

ResSpec == ResInit /\ [][ResNext]_vars

\* Fairness of the daemon's loop: the listener's ticker wakes the dispatcher at
\* least once a minute, a shutdown waits a bounded time, the service manager
\* restarts the daemon, and a sweep takes its next step unless it hangs
\* (SweepHangs is always a choice, and nothing is fair about it).  Only the
\* boot's own reads and writes are assumed to be answered.
SweepFairness ==
    /\ WF_vars(Boot) /\ WF_vars(RecoveryList) /\ WF_vars(RecoveryDone) /\ WF_vars(Exit)
    /\ WF_vars(StartSweep) /\ WF_vars(TranslateDone) /\ WF_vars(CancelClosed)
    /\ WF_vars(ListQueue) /\ WF_vars(SweepDone)
    /\ \A i \in Issue : WF_vars(Start(i) \/ StartUnacknowledged(i) \/ Skip(i))
    /\ \A i \in Issue, n \in Ordinal : WF_vars(RecoverOne(i, n) \/ RecoverOneFails(i, n))

\* What AttemptsEnd assumes of the runners, whose setup and store calls have no
\* deadline either: each of them is answered some time.
RunnerFairness ==
    \A i \in Issue, n \in Ordinal :
        /\ WF_vars(Register(i, n))
        /\ WF_vars(Load(i, n) \/ Bail(i, n))
        /\ WF_vars(\E o \in Outcome \cup {"none"} : Decide(i, n, o))
        /\ WF_vars(Unregister(i, n))
        /\ WF_vars(Write(i, n) \/ WriteFails(i, n))
        /\ WF_vars(Backstop(i, n) \/ BackstopFails(i, n))

\* The runs may take for ever: only the daemon's own loop is fair.
SweepSpec == ResSpec /\ SweepFairness

-----------------------------------------------------------------------------

\* Type invariant of the daemon's own state.
ResTypeOK ==
    /\ TypeOK
    /\ daemon \in Serving \cup {"down"}
    /\ restarts \in 0..MaxRestarts
    /\ failures \in 0..MaxFailures
    /\ enrolled \in [Issue -> BOOLEAN]
    /\ step \in {"idle", "translate", "cancel", "triage", "schedule", "hung"}
    /\ queue \in SUBSET Issue
    /\ slots \in 0..Concurrency
    /\ apiSweep \in BOOLEAN
    /\ runner \in [Issue -> [Ordinal -> RunnerPc]]
    /\ reason \in [Issue -> [Ordinal -> {"none", "operator_stop", "issue_closed"}]]
    /\ answer \in [Issue -> [Ordinal -> Outcome \cup {"none"}]]
    /\ recovery \in SUBSET Attempt
    /\ lost \in SUBSET Attempt

\* The scheduler's promise: at most Concurrency attempts are open over all
\* cases, however sweeps, run requests, restarts and runners interleave.  Only
\* an attempt whose opening write was reported as failed goes uncounted.
SlotsRespected == Cardinality(OpenAttempts \ lost) <= Concurrency

\* Nothing but its runner, its backstop or the next boot scan ends an attempt
\* in a live daemon, so while the daemon is up an open attempt has a goroutine,
\* except for those a failed write abandoned.
NoOrphan ==
    daemon = "up" => \A a \in OpenAttempts \ lost : runner[a[1]][a[2]] # "idle"

\* Provided no run was requested during the boot: a runner works on an attempt
\* that is still open.  It never goes on after somebody else ended the attempt.
RunnerOwnsAttempt ==
    \A i \in Issue, n \in Ordinal :
        runner[i][n] \in Executing \cup {"writing"} => IsTarget(i, n)

\* Provided no run was requested during the boot: the sandboxes in use are
\* bounded by the pool, which counts open rows and not runners.
PoolRespected == Cardinality(ExecutingAttempts) <= Concurrency

\* Provided no run was requested during the boot: the answer a runner brings to
\* the store is never refused there.  In particular issue_closed, which
\* RecordOutcome takes from a Closed case only, is told to nobody else.
AnswerLands ==
    \A i \in Issue, n \in Ordinal :
        runner[i][n] = "writing" => ~Refused(i, n, answer[i][n])

\* The daemon reaches the cases through the commands of the aggregate only.
ImplementsCase == CaseSpec

\* An issue as a job of the service: its attempt is what runs.
jobStatus ==
    [i \in Issue |->
        IF \E n \in Ordinal : IsOpen(i, n)
        THEN IF \E n \in Ordinal : IsOpen(i, n) /\ <<i, n>> \notin lost
             THEN "running" ELSE "stranded"
        ELSE IF state[i] = "queued" THEN "ready"
        ELSE IF state[i] \in Terminal THEN "over"
        ELSE "idle"]

Svc == INSTANCE Service WITH Job <- Issue, Slots <- Concurrency, status <- jobStatus

\* The daemon implements the scheduler's promise: no start without a free slot,
\* whatever crashes, failed writes and second sweeps come in between, and no
\* run of a job that is over.
ImplementsService == Svc!ServiceSpec

\* No attempt starts for a removed repository, though the queue was read
\* earlier: removals happen under the mutex of the same sweep.
NoStartWhenRemoved ==
    [][\A i \in Issue : attempts'[i] > attempts[i] => enrolled[i]]_vars

\* recovery.go: "Recovery ends every attempt the previous daemon left open."
\* So it ends none that a runner of this daemon is working on.
RecoveryEndsOnlyPrevious ==
    [][\A i \in Issue, n \in Ordinal :
          IsOpen(i, n) /\ attempt'[i][n] = "daemon_restart" => runner[i][n] = "idle"]_vars

\* Every attempt ends: with its runner's answer, with the backstop's, or at the
\* latest in the scan of the next boot.  Only a failed write can keep it open,
\* or a run that does not end.
AttemptsEnd ==
    RunnerFairness =>
        \A i \in Issue, n \in Ordinal : IsOpen(i, n) ~> (~IsOpen(i, n) \/ <<i, n>> \in lost)

\* An attempt whose issue closed under it is told so even if its run would
\* never end by itself: it stops executing, or its context is cancelled.  The
\* one way to miss it is a sweep that hangs, in this step or in any other.
ClosedIsCancelled ==
    \A i \in Issue, n \in Ordinal :
        state[i] = "closed" /\ IsOpen(i, n) /\ runner[i][n] = "running"
            ~> ~IsOpen(i, n) \/ runner[i][n] # "running" \/ reason[i][n] # "none"
               \/ step = "hung"
=============================================================================
