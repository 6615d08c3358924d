# A verification project for autophage

autophage is a daemon that watches GitHub repositories. For an issue it opens a
*case*, has a model size it, and runs agents on it in sandboxes (the Resolution
context). For a dependabot pull request it opens a *bump*, watches its checks and
repairs the failing ones (the Upkeep context). Everything that must survive the
process is in Postgres; everything else is goroutines of one process.

The modules here are written from the Go code, and each definition's place in it
is in `PROJECT.json` under `map`. TLC checks small instances; TLAPS proves the
safety results for every value of the constants.

## 1. The system

| part | state it keeps | operations | talks to |
|---|---|---|---|
| Case (`resolution/case.go`) | state, triage, approvals, attempts with run and outcome, transitions, closure | NewCase, RecordTriage, RecordApproval, StartAttempt, RecordRun, RecordOutcome, Close, and the check on load | only through `store.UpdateCase` / `CreateCase`, one transaction under the case's row lock |
| Bump (`upkeep/bump.go`) | state, head sha, verdicts, repair rounds, retry grants, abandonment, closure | NewBump, RecordVerdict, AdvanceHead, StartRepair, RecordRun, RecordOutcome, Abandon, Retry, Close | the same, `store.UpdateBump` |
| Store (`store`) | the tables; NOTIFY on every commit | transactions, queries, Listen | everybody |
| Delivery inbox (`github/webhook.go`, `store/deliveries.go`) | deliveries and their processing rows | StoreDelivery, UnprocessedDeliveries, RecordProcessing | GitHub in, translator out |
| Translator (`github/translate.go`, `github/bumps.go`) | none | one command per delivery; failures retry on the next sweep | inbox, Case, Bump, repositories |
| Dispatcher (`app/dispatcher.go`) | the sweep mutex, a wake-up channel of one | Run: listen, recover, sweep, loop; Sweep: translate, cancel, enroll, triage, comment, schedule, stale-checks, cancel-repairs, repair | calls all services in that order |
| Recovery, BumpRecovery | none | end every open attempt or round at boot | Case, Bump |
| Scheduler, RepairScheduler | the goroutines and the set of running ids | count free slots, read the queue, open, spawn, backstop, bounded wait | Runner, Repairer; one pool of slots for both |
| Runner, Repairer (`agent`) | a registry id -> (cancel, reason) | Run/execute, Stop, Cancel | Sandbox, GitHub, models, Case/Bump |
| Agent loop (`agent/run.go`) | turns, clock, diff size | RunAttempt | model, toolbox, ledger |
| Sandbox (`sandbox`) | workspace directory with a lock and its lease, podman containers | Prepare, PrepareHead, Start, Tools, CommitAndPush, Teardown | git, podman |
| Triage (`app/triage.go`) | failure counters with backoff, in memory | Run, one | model, Case |
| Commenter (`app/commenter.go`) | the comment outbox | enqueue, post, record | GitHub |
| Enrollment (`app/enrollment.go`) | default branch, label set-up, removals | Run | GitHub |
| StaleCheckSweeper | none | abandon bumps whose checks never end | Bump |
| Routing (`routing/router.go`) | none: the registry is read for every use | Choose | catalogue |
| Deploy (`deploy/deploy.go`) | the tag installed, a pending restart, a mutex; the binaries on disk | ServeHTTP, install, cutOver, MaybeRestart at an idle moment | GitHub in; the schedulers' running sets; SIGTERM to itself |
| API, CLI, config, auth, metrics, toolbox server | none of the protocol's | run, stop, retry, watch; reads | Case, Bump, Runner |

**What is hard.** The sweep is serial, but the runners, the operator's requests
(which also spawn sweeps), the webhook and the shutdown are concurrent with it. A
runner loads a case, works for up to hours, and writes on a row others changed
meanwhile. Its end has three windows: decided but not torn down, torn down but not
written, written but the backstop not run. A process may die anywhere; the next
one ends what it finds open. Slots are counted on open rows once per sweep. A
store write may fail, or commit and be reported as failed. Deliveries come late,
twice and out of order. And a sweep holds the dispatcher's mutex while it calls
the store, GitHub and the triage model on the daemon's own context, with no
deadline (`dispatcher.go` 164-215, `github/client.go` 63, `agent/triage.go` 63): one
call that is never answered ends all sweeps of the process. What makes each part
correct:

- Case: no sequence of commands makes a row the next load refuses; the gate and
  the budget tiers cannot be opened by odd orders; history is append-only.
- Scheduler, runner, recovery: no more attempts than slots; every open attempt has
  somebody to end it; nobody ends an attempt under its runner; every attempt ends
  whose calls are answered, or is one that a failed write abandoned.
- Bump: rounds are capped; a push replaces a failed head only; no bump waits for
  ever, but for a list of named reasons.
- Inbox: a wake-up is lost only to a list that cannot be read; every stored delivery
  is done with while sweeps go on; a label approves once; the store follows the log
  in its order unless a delivery was passed.
- Triage and outbox: paid calls are bounded; while sweeps go on and GitHub does not
  refuse the issue, every case is sized or parked and every report reaches it; a
  repeated comment has a failure to blame.
- Execution: what an attempt reports is true and on the branch; it returns unless
  its setup waits for an answer that never comes.
- Workspace: one run per workspace; no pushed work is overwritten.
- Deploy: a process never falls behind what it installed; restarts wait for the runs.

`PROJECT.json` lists the hazards, each with its line and the properties that
would catch it.

## 2. The modules

### Case.tla

The aggregate. Each command is an action for any issue at any moment, which is
what the row lock gives: the guards are the refusals, the primed variables the
facts it appends. Domain data is reduced to what the aggregate reads back:
`approvals[i]` counts them, `approvedSince[i]` says whether one is not before the
latest attempt's start (`NextAttemptKind` counts an approval of the same instant
as later, hence the choice in `StartAttempt`), `triage[i]` is the size.
`attempt[i][n]` merges Run and Outcome of attempt `n`: none, open, running, or one
of the six ends the state machine tells apart (the classes of a failure and the
limits of an exhaustion do not move the case differently). Clocks, briefs, budgets,
texts and ids are left out, and so are the argument checks that refuse malformed
input.

### Resolution.tla

The daemon over the cases: it EXTENDS Case and every action that touches a case
does so by one of the aggregate's actions.

| variables | code |
|---|---|
| `daemon`, `restarts` | the process: booting until Recovery has listed, recovering, up, stopping once its context is cancelled, down |
| `enrolled` | `repository_removals` of the issue's repository |
| `step`, `queue`, `slots` | the sweep holding `Dispatcher.mu` (`hung`: in a call that is never answered), and the scheduler's locals |
| `apiSweep` | the goroutine a run request spawned and that waits for the mutex (one stands for any number: they all do the same) |
| `runner`, `reason`, `answer` | the goroutine of `Scheduler.start`: spawned, loading (registered), running, teardown (execute has returned a value, its deferred Teardown runs), writing (unregistered), returning (the backstop is next); the reason in its registry slot; the outcome it decided on |
| `recovery` | the list of `Recovery.Run` |
| `failures`, `lost` | failed store writes; the attempts such a failure left without anybody to end them before the next boot |

The enroll and comment steps take no step of their own: enrollment's removal
happens in the same sweep before the queue is read, as `TranslateEnrollment` does,
and comments change nothing a case reads. `Skip` stands for all the reasons for
which `Scheduler.start` opens nothing. A list that cannot be read ends its step
(`ListFails`), and any step may wait for ever (`SweepHangs`): the mutex is held then,
no sweep comes any more, and only the end of the process ends that. `Answers` is the set of outcomes `execute`
can return in a given situation; the pipeline in between is not modelled.

The scheduler's opening write is the one where a COMMIT that lands but is not
acknowledged makes a difference (`StartUnacknowledged`); everywhere else a retry
or a refusal hides it. `EarlyRun` says whether a run request may arrive before
recovery is done. In the code it may; with FALSE the results are those of a
daemon whose operator waits, and they say exactly what the early request costs.

### Service.tla

What the scheduler promises without saying how: jobs with a status, at most `Slots`
running, a run that the store lost track of is stranded. Resolution refines it
under `jobStatus`.

### Bump.tla

The other aggregate, in the manner of Case. `head[p]` is `headSha`, `verdict[p]`
maps a commit to what its checks concluded (a verdict per head is what
`RecordVerdict` and `LoadBump` enforce), `round[p][n]` merges Run and Outcome of
round `n` as in Case, `base[p]` is the `baseSha` of the latest round, `grants[p]`
the number of operator retries the code counts in the transition log, and
`abandonment[p]` the reason in the abandonment's row. A `Close` keeps the row, as
the code does. `OutcomeMove` is `outcomeMove` with the state it goes to and the
abandonment it records. Left out: budgets, briefs, the transition log, closures'
kinds, and the refusals of malformed input.

### Upkeep.tla

The daemon over the bumps and the branch on GitHub: it EXTENDS Bump, and every
action that touches a bump does so by one of the aggregate's actions, which is the
property `ImplementsBump`. Commits are numbered in the order in which the branch
pointed at them, so `tip[p]` names the branch and `t <= tip[p]` a commit that
existed.

| variables | code |
|---|---|
| `daemon`, `restarts` | the process: booting while `BumpRecovery` runs, up, hung (up, but its sweep waits for an answer that never comes, with the mutex held), stopping once its context is cancelled, down |
| `watched` | `upkeep_watches` |
| `pr`, `tip` | the pull request and its branch on GitHub; dependabot opens, anybody pushes or closes; it may be `foreign` (its author's login is not dependabot's any more) or `gone` (not found), for which `RepairScheduler.start` leaves the bump queued |
| `inbox` | the opened (commit 1) and synchronize deliveries that wait to be processed |
| `visiting` | the bump that `RepairScheduler.start` has compared with GitHub and not yet opened a round for |
| `runner`, `reason`, `work`, `answer` | the goroutine of each round: spawned, running (head checked out), pushed (`CommitAndPush` is behind it), writing, returning; the reason in its registry slot; the commit it has on GitHub (the base itself when it committed nothing); the outcome it came back with |
| `recovery` | the list of `BumpRecovery.Run` |
| `failures`, `lost` | failed writes and reads and lost deliveries; the rounds such a failure left without anybody to end them before the next boot |

How it abstracts:

- Deliveries of a pull request are processed in the order they came, as
  `UnprocessedDeliveries` reads them. A synchronize delivery may be processed twice
  (`TranslateSynchronizeAgain`), and any may meet no daemon or an error and be lost
  (`DeliveryLost`); the closed event need not come either. Check events and the closed event need no inbox:
  they may come at any moment, and a check event asks GitHub what the checks say at
  that moment. The events of autophage's own pushes are dropped, as `translate` does.
- The sweep is one mutex: `InSweep` lets any of its steps come next, which covers
  the code's fixed order. What happens between the scheduler's reads and its write
  (`Visit`, then `OpenRound` or `LeaveQueued`) is modelled step by step, because
  the operator and the goroutines do not take the mutex. The other services read a
  list and act on it with nothing in between that could change the listed state.
- `SweepStale` may come at any moment: the window is longer than anything else, and
  no property depends on how long.
- An early repair (a sweep spawned by the API before recovery is done) is what
  `EarlyRun` of Resolution studies; here the sweep starts after recovery. The
  window between the decision and the teardown is Resolution's too. Slots are shared
  with the attempts, which a sweep schedules first, and the code leaves contention
  unsolved (`repairs.go` 34-38, ADR 0007): a visit may find no slot, and that one is
  free some time is a hypothesis (`SlotsCome`).
- What the agent does is the choice between a commit and none, and of the answer.

### Workspace.tla

One repository's checkout, on which every attempt and every repair round of the
repository takes turns, with its lock, the podman containers and the remote.
Repositories share none of it, so there is one.

| variables | code |
|---|---|
| `pc` | the sandbox call an attempt is in, from `Prepare` or `PrepareHead` to `Teardown`, in the fixed order of the runners |
| `locked`, `holder` | the capacity-1 channel, and `Manager.holders`; they are written one after the other (`Acquire`, `Hold`), and cleared together by `unlock` |
| `record`, `containers` | `Manager.containers`; the containers podman has on the workspace: the warmer's, the agent's while nothing runs in it (`Idle`), and once the agent does (`Agent`) |
| `remote`, `local`, `tree` | the branches on the remote and in the checkout, and the working tree |
| `base`, `remoteHead` | `Workspace.BaseSha` and `RemoteHead` of the attempt |
| `answer` | whether the runner reported the branch as the attempt's work |

How it abstracts:

- A commit is the set of contributions it holds: the agents', others', and
  `Markers` for unresolved conflict markers. A rebase keeps them; one that
  conflicts becomes the merge that leaves markers in the tree. The agent adds its
  own contribution or resolves markers; it does not delete others' work, which no
  code could tell from an edit.
- Every podman and git command may fail. A client that is killed (every command
  has a timeout, and the attempt's context may end) may have done its work: a
  container may be there, the remote may have taken the push. What a failed
  checkout leaves behind is not modelled: the next checkout replaces all of it.
- A crash empties the daemon's memory and leaves containers, checkout and remote.
  Agents of earlier daemons go on writing and committing.
- The agent's own refs and configuration are not modelled: host git reads the
  remote head the workspace recorded and names every ref in full.
- The runners call `Teardown` once; `TeardownAgain` is what the interface allows
  (`TestTeardownReleasesOnlyItsOwnLease`). A malformed attempt id, for which
  `Start` returns before its unlock, cannot come from the database.

### Exclusion.tla

What the lock promises: one attempt has the workspace until it leaves. Workspace
refines it with `inside <- Inside`.

### Deploy.tla

The release webhook beside the runs of both schedulers, from one process to the next.

| variables | code |
|---|---|
| `pc` | where a delivery's handler is (waiting for the mutex, downloading the first or the second binary, looking at the running sets, cutting over or deferring), and where a run is (opened by a sweep, in its scheduler's set, in `MaybeRestart`) |
| `tag` | the release a delivery announces; tags are ordered, `Odd` ones do not parse |
| `mu`, `installed`, `pending` | the fields of `Handler`; gone with the process |
| `version`, `disk` | the tag the process was built from; the release of each binary in the install directory |
| `running` | the two schedulers' sets |
| `signals` | the goroutines that are about to SIGTERM the daemon |
| `late` | a history variable: the runs that were marked after an idle check had read their set, or with a signal on its way |

How it abstracts:

- A delivery here has passed the handler's checks (signature, event, repository).
  Signatures, URLs and checksums decide only whether a download succeeds.
- `Idle` is two reads: first the attempts (`Look`), then the rounds (`LookAgain`),
  each under its scheduler's own lock. Nobody holds `Handler.mu` meanwhile.
- A run is opened by its transaction and put into the set by `mark` after it; what
  it does in between is the other modules'. `OnDone` runs after it left the set.
- A failed install is followed by the cut-over all the same, as in the code.
- `Terminate` is the SIGTERM, the shutdown and the start of the next process in one
  step: runs are cancelled, and handlers are over in any state, which includes
  those that the server's shutdown lets finish.

### Inbox.tla

The way in, for one repository: it EXTENDS Case, and its translation issues the
aggregate's commands.

| variables | code |
|---|---|
| `installed`, `installs`, `onGitHub` | GitHub: the App's installation and how many there were, what happened to an issue |
| `log`, `arriving`, `stored` | the deliveries in the order of `received_at`, which the handler stamps before its transaction; those whose handler is between the two; the rows of `webhook_deliveries` |
| `processed` | the processing rows |
| `approvedBy` | `case_approval_deliveries` |
| `enrollment`, `installation`, `stale`, `labelled` | the repository's row with its removal, its installation id, whether its default branch is GitHub's, and its label set-up |
| `daemon`, `listening`, `notified`, `wake` | the process, the LISTEN connection, a notification on its way, the wake channel of capacity 1 |
| `step`, `todo`, `recording` | the sweep: translating, enrolling, or hung in a call that is never answered; the list it read; the delivery whose command has committed and whose row has not |
| `refresh` | the row a runner read for `refreshDefaultBranch` |
| `owed`, `missed`, `listed` | history: what was announced and not listed since; what of it a sweep took the token for and could not list; what was ever listed |
| `overruled`, `skipped` | history: that a refresh or an archived repository changed the row against the log; that a failure, or a handler slower than a sweep, let a later delivery go first |

How it abstracts:

- A delivery's command and its processing row are two transactions (`Translate`,
  `Record`), with a crash or a failure between them. A label's command is itself
  two: `OpenForLabel` creates the missing case, `Approve` approves it.
- A label delivery whose approval was recorded without its row fails on the unique
  delivery id in every later sweep until the case is over (`Poisoned`): the code
  takes the violation for a store failure, so there is no row.
- A redelivery of a stored delivery changes nothing and has no step. A webhook that
  meets no daemon, or a failing store, is lost for good: GitHub does not repeat it.
- `ready` is called at every reconnect, but read only at boot: a reconnect wakes
  nobody. What was on its way to the lost connection is gone.
- The sweep of an operator's run request (`ApiSweep`) takes the same mutex.
- `failures` counts every kind of failure, the end of the process included.
- The commands of others (triage, scheduler, runners) do not matter to what the
  translator writes, except that they end a case; they are Outbox's and Resolution's.
- `webhook.go` reads the clock before its transaction, and handlers run concurrently,
  so deliveries may be stored in any order of their stamps (`Receive`, then
  `StoreDelivery`, `StoreFails` or the process's end). Two deliveries of the same
  instant, which the code orders by id, and a clock that steps back are left out.
- The wake token is taken before the list is read (`StartSweep`). A list that fails
  loses it, and the sweep goes on with enrollment (`ListFails`); one that is never
  answered, like any later call of the sweep, hangs with the mutex held.

### Outbox.tla

The way out: the triage and comment steps of the sweep. It EXTENDS Case, whose
other commands come when the code lets them: the translator's and the scheduler's
between these steps (`BetweenSteps`), the runner's, the backstop's and the
operator's at any moment (`AtAnyMoment`). So it also is where the aggregate's own
invariants are checked.

| variables | code |
|---|---|
| `enrolled`, `up`, `hung` | the repository is not removed; the process; a call of its sweep is never answered |
| `refuses` | GitHub: the issue takes no comment any more (it is locked), or no request about it succeeds (it is deleted) |
| `step`, `todo` | triage, the two enqueue lists, post; the list the step read |
| `tries`, `waiting`, `sizing` | `Triage.failures` (count, and whether `next` is in the future), and the size that `one` holds between the model's answer and its write |
| `calls` | the model calls paid for a case |
| `queued`, `settled`, `sent` | rows of `github_comments` and of `github_comment_posts`; the comment that GitHub took and whose row is next |
| `onIssue`, `repeats` | GitHub: the comments shown at least once, and the copies beyond |

A comment is known by the case and the attempt it reports on, 0 for the triage. A
failing write or post may have taken effect (`RecordSizeFails`, `EnqueueFails`,
`PostFails`, `RecordPostFails`). What GitHub refuses for good it refuses in every
sweep (`GetIssueRefused`, `PostRefused`): neither counts toward anything in the code,
so neither costs one of the bounded `failures`. A backoff is over when it is, which is at any
moment after the failure; a list is visited in any order, which covers the
queries' own.

### Notice.tla

What the outbox promises: a comment that was queued is on the issue before it is
settled, nothing is posted after that, and every repeated copy has a failure or a
crash of its own. Outbox refines it with `slips <- failures + restarts`.

### Execution.tla

One attempt from the inside: `execute` from the token to the pull request, and
`RunAttempt` in the middle. Resolution has all of it as one choice of answers.

| variables | code |
|---|---|
| `step` | where `execute` is; inside RunAttempt `run`, `judge` (the stop reason), `summary`, `report` |
| `reason`, `shutdown`, `callerDone` | the reason in the registry slot, the daemon's context, and the snapshot of it |
| `loop`, `end`, `turns` | the library's agent: in a model call, in a tool, or over, and why; `turnsSeen` |
| `expired`, `flag`, `stop` | the run's own deadline came before any cancellation; `stopFlag`; `RunReport.Stop` |
| `work`, `marks` | the branch is ahead of its base, conflict markers are in the tree |
| `pushed`, `pr`, `named`, `outcome` | `CommitAndPush` succeeded and moved the branch; GitHub has an open pull request for it; the outcome names it; what execute returns |

How it abstracts:

- The agent's library is modelled from how `RunAttempt` uses it: it notices a
  cancelled context, an abort or the turn limit when it does, and it may fail or end
  at any point, before its first turn included.
- Every step before the run may fail, for its own reasons or because the context
  was cancelled under it: `setup` looks at the context and never at the error. All
  of them but the container's start wait on the attempt's context alone
  (`Unbounded`; the wall clock starts inside `RunAttempt`), so they need not end.
- Push, conflict check and pull request run detached from all contexts and under
  timeouts. An opening that GitHub took and did not acknowledge is found by
  `PullRequestForBranch`.
- The branch may be an earlier attempt's, with commits, markers and a pull request.
- Usage figures, summaries and messages are data, and so are the wrap-up warnings at
  80 percent of the turns and of the clock: they put a message in the model's queue
  and end nothing.

### CaseProofs, ResolutionProofs, UpkeepProofs, WorkspaceProofs, DeployProofs, InboxProofs, OutboxProofs, ExecutionProofs

The theorems, see section 4.

### MCResolution.tla, MCUpkeep.tla, MCWorkspace.tla, MCDeploy.tla, MCInbox.tla, MCOutbox.tla, MCExecution.tla

Instances for TLC. The two aggregates have none of their own: their invariants are
checked where the daemon drives them, in the runs of Outbox and Upkeep.

## 3. The runs

| run | instance | shows |
|---|---|---|
| Resolution_one | 1 issue, 1 attempt, 1 approval, 1 restart, 1 failed write or list, early run requests, fairness on the daemon's loop | open attempts have a goroutine; the daemon implements Case; a run whose issue closed is cancelled even if it never ends by itself, unless a sweep hangs; if the runners' calls are answered too, every attempt ends |
| Resolution_slots | 2 issues, 1 slot, 2 attempts each, 1 restart, 1 failed write, symmetry over the issues | nobody ends an attempt under its runner; the daemon implements Service, and with it keeps to its slots |
| Resolution_recovery | early run request, no restart, no failure | violation: recovery ends an attempt of its own daemon |
| Upkeep_daemon | 3 commits, cap 1, no retry, 1 restart, 1 failure, fairness | every open round has its one goroutine, which answers what the bump accepts; the daemon implements Bump; autophage replaces only commits whose checks failed, whoever pushes when; provided that repairs get slots and the repairers' calls are answered, no bump waits for ever, but for the named exceptions |
| Upkeep_rounds | 2 commits, cap 2, 1 retry, 2 restarts, no failure | bumps stay loadable and within the cap; every round is paid for |
| Upkeep_stranded | 2 commits, cap 2, 1 restart | violation: autophage's own push may move a branch that no delivery announces |
| Upkeep_late | 3 commits, cap 1, nothing else | violation: the verdict of a replaced commit may move the bump |
| Workspace_turns | 2 attempts of one case, 1 repair round, 1 crash or 1 push of somebody else, fairness | no host git beside a container, the lock implements Exclusion, a push only adds, no markers reach a pull request, everybody gets through |
| Deploy_cutover | 2 deliveries of any 2 of 4 tags (one of them odd), 1 attempt, 1 repair round, fairness | the daemon's binary is not behind the release last installed as a whole; a restart for a delivery and no more; only runs that started behind the idle check are aborted; a deferral is served by the runs that are listed |
| Inbox | 1 issue, 3 deliveries, 1 failure or crash, fairness | a wake-up is lost only to a list that cannot be read; the store follows the log unless a delivery was passed or overruled; a label approves once; every delivery is done with unless a sweep hangs |
| Outbox | 1 issue, 2 attempts, 1 approval, give-up after 2, 1 failure, 1 crash, fairness | cases stay loadable, the gate, runs and approved runs are paid for; paid calls are bounded; the outbox implements Notice; every case is sized or parked and every report posted, unless GitHub refuses the issue for good or a sweep hangs |
| Execution | 1 attempt, 3 turns, fairness | stop reasons are true; outcomes point to pushed work; pull requests are clean; a shutdown erases no finished run; every attempt returns, unless a call of its setup is never answered and nobody cancels it |

**Bounds.** Cases do not share state but for slots, so one issue covers a case's
own interleavings, and two issues with one slot cover competition. Resolution_one
has one attempt, which leaves room for the fairness; the two of Resolution_slots are
what a restart requeue needs (`Aborted{DaemonRestart}` and the attempt after it), and
so are the two of Outbox, where any attempt may end in any way, as if restarted
twice too. One restart lets a crash or a shutdown fall on
every step. One failed write
reaches runner-then-backstop only together with the runner's panic or refusal
(`Bail`), which needs no failure. The proofs need none of these bounds.

A bump needs three commits for dependabot and the repairer to move the branch both
before and after a round (Upkeep_daemon), and two for one of them (Upkeep_rounds,
where what counts is the rounds). Two rounds are enough for one that overlaps the
next verdict, for a retry behind the cap and for the requeue that a second restart
must not get. A failed write together with a retry is left to the proofs. Bumps share
only slots and the mutex, so there is one.

A workspace needs two attempts of one branch for a resume and a third client on
another branch for a checkout that moves; three clients also make a late Teardown,
a holder and a waiter. One event per behaviour is a crash or a move of others; the
proofs cover any number, the commit chain of several crashes included. Attempts are
not symmetric there because they differ in branch and kind.

Two deliveries hold the mutex against each other and redeliver, race their
cut-overs or defer twice; four tags are an old one, two newer ones and one out of
order. One run of each scheduler is what the two halves of `Idle` tell apart; they
end together beside a handler, which are three that may restart. A run is opened
once, so restarts need no bound: at most one per delivery.

Three deliveries are an installation, a label and one more: a second label, an
overtaken opening, a removal or a closing, stored in any order; the one failure or
crash falls between any two transactions of them, on the list, on the connection or on
the way in. Two failures together are left to the proofs. A notification and the one
token of the channel need no more.
In Outbox a give-up after two failures has one below it; the case has up to three
comments (its triage and two outcomes), so that one is settled while another waits.
Three turns let a run end before, at and after a write, below the limit and at it.

No run checks deadlock, because the system may stop: a closed issue or pull request
takes no command, attempts, runs and deliveries that are over do nothing more, and a
daemon whose sweep hangs waits for a restart that the bound may not leave.

**Fairness.** It is what the daemon's own loop owes: systemd restarts the process, the
ticker wakes the dispatcher at least once a minute (`defaultFloor`), and a sweep takes
its next step. The last is not taken for granted. A sweep runs on the daemon's context
with the mutex held, and nothing in `internal/app`, `internal/github`'s client and
translators or `agent/triage.go` sets a deadline, so a call may never be answered.
Each of the four modules with a sweep has that as an action (`SweepHangs`, in Inbox
`ListFails` too), which may come first at any step and about which nothing is fair;
weak fairness of the other steps then says only that a sweep which does not hang goes
on. Every liveness property names the hung sweep as its exception, and the proofs of
safety cover it. Each fairness condition pairs a step with the failures that may take
its place, so no write is assumed to succeed, and nothing is assumed of webhooks, the
operator, crashes or failures.

- Resolution: `SweepFairness` is the above. Only the boot's own reads and writes are
  assumed to be answered. `ClosedIsCancelled` needs no more, and no runner that ever
  ends. `AttemptsEnd` needs no sweep at all, but it has `RunnerFairness` as its
  hypothesis: that a runner's calls are answered some time, which for its setup and
  its store calls no deadline guarantees.
- Upkeep: `FairSpec` is the loop, the process and the boot, with the deliveries that
  are stored, and with `SweepStale` (the clock passes the window; the stale-check
  sweeper alone ends a wait on checks which never conclude). Not with the visit of a
  queued bump, nor with a closing's delivery, which may be lost. `NothingWaitsForEver`
  has two hypotheses: `SlotsCome`, for the slots are shared with attempts that are
  scheduled first and the code leaves contention unsolved; and `RepairerFairness`, as
  in Resolution. Its exceptions are a stranded bump (see the findings), a forsaken one
  (queued for a pull request that is closed, gone or not dependabot's, which
  `RepairScheduler.start` passes over without a word to the bump), an unwatched
  repository, a round lost to a failed write, and the hung sweep.
- Inbox: `FairInboxSpec` is the ticker and the loop's thread from boot to enrollment;
  the listener, the handlers, the operator and GitHub owe nothing, so
  `EveryDeliveryIsProcessed` is the ticker's doing.
- Outbox: `FairOutboxSpec` is the process and its sweeps, and the passing of
  backoffs. The model may fail every call. `EveryIssueIsSized` and
  `EveryReportIsPosted` except an issue that GitHub refuses for good: `GetIssue`'s
  failure neither backs off nor counts toward the give-up (`triage.go` 86-89), and a
  refused post is repeated in every sweep.
- Execution: `FairExecSpec` has the clock, a loop that gives up on a context that is
  done, and the timeouts of the calls behind the run and of the container's start. The
  other calls of the setup (`Unbounded`: the repository's row, the token and the default
  branch, the workspace lock, the dial, the routing; `runner.go` 342-390) come back for
  certain only when the attempt is cancelled, and `AttemptReturns` excepts one that
  nobody cancels. Neither the model nor a tool ever has to answer.
- Workspace: taking the lock (a channel serves its senders in order; at most finitely
  many attempts wait) and the attempt that has it. Its podman and git commands run
  under timeouts and the run under the wall clock of its budget; the dial into the
  container and the choice of a model, which the runner does with the lock held, have
  no deadline, and that they end is assumed. The agent, others, crashes and
  cancellations owe nothing.
- Deploy: handlers go on (downloads have a timeout of two minutes, and the mutex is
  held for nothing longer), a run that was opened is marked and ends, a signal arrives.
  No sweep owes a new run, and no install has to succeed.

**Findings.** *Recovery and early run requests.* `main` starts serving while
`Dispatcher.Run` is still in Recovery, and `POST run` sweeps on a goroutine of its
own. An attempt opened there before `OpenAttempts` is read is ended as
daemon_restart while its runner works; the case is queued again and the next sweep
starts a second runner beside it. *Moved heads.* The scheduler skips a queued bump whose head on GitHub is not
the bump's, because "the synchronize delivery is on its way". A round that pushed
and did not get to record `Pushed` (a restart, a panic, a push GitHub took and git
did not acknowledge, a conflict check that failed) leaves the bump on its base, and
its push's own delivery is ignored: the bump stays queued until somebody else
pushes or closes the pull request, for the stale-check sweeper looks at
`awaiting_checks` only. *Late verdicts.* `Pushed` overwrites the head whatever it is
by then. When dependabot replaced the push and its delivery was processed before
the outcome was recorded, the head goes back to the replaced commit, and that
commit's verdict, which the loop guard promises to refuse, moves the bump.

What the models show beside these, and no property states as the code's promise:

- *Deploys.* "An attempt is never aborted just to deploy", says `main` (121-123).
  Idleness is checked first and the process is signalled later, while sweeps go on
  opening runs, and a run is not listed before its opening write has committed: an
  attempt that starts in between is aborted. `AbortsAreLate` says that only such
  runs are. An install that fails after the first binary is followed by a cut-over
  into a mix of two releases; a deferral recorded just after the last run ended
  waits for the next run or delivery; and `installed` is forgotten at a restart, so
  a late redelivery of an older tag then rolls back. `NotBehindInstalled` speaks of
  releases that were installed as a whole, within one process.
- *Removals.* `refreshDefaultBranch` does not write back a removed repository,
  because "a branch name is no reason to undo a removal" (`agent/runner.go` 641-645).
  It looks at the row it read before asking GitHub: a removal translated in between
  is undone, and a newer installation id is replaced by the old one. Nothing removes
  the repository again. `FollowsLog` excludes it by name (`overruled`).
- *Order.* A delivery that fails is tried again after the later ones of its sweep,
  and one whose handler is slow to store it comes after those that a sweep listed
  meanwhile. When an enrolment and the removal after it are swapped that way, the
  repository ends up enrolled (`skipped`).
- *Wake-ups.* The dispatcher takes the token before the list is read. When
  `UnprocessedDeliveries` fails the sweep goes on, and nothing stands for the delivery
  it was told of until the ticker (`missed`).
- *Deadlines.* One call of a sweep that is never answered, to GitHub, to the triage
  model or to the store, holds the mutex until the process ends: nothing is translated,
  cancelled, sized, posted or scheduled any more. An attempt whose setup waits for such
  a call holds its slot until somebody cancels it.
- *Refusals.* A case whose issue GitHub refuses to show is asked for in every sweep
  and never parked.
- *Forsaken bumps.* A bump queued for a pull request that is gone, or not dependabot's
  any more, or closed without its delivery, stays queued.
- *Labels.* A label whose approval committed and whose row did not fails in every
  sweep until its case is over (`Poisoned`): it approves no second time, and it is
  logged every minute.
- *Enrolment.* `repository_label_setups` outlives a removal. A repository that comes
  back is not on enrollment's list, and keeps the placeholder branch of its
  installation payload until a runner refreshes it.
- *Triage.* An approval given before a trusted case is sized is recorded but queues
  nothing; a Large triage that follows parks the case all the same, and the label
  has to be given again. `agent/runner.go` 104-107 says that a triage model which
  cannot be built "must leave every case Received for the next sweep"; after
  `triageGiveUp` sweeps each of them is parked as Large.
- *Shutdown.* `agent/runner.go` 401-404 promises that a run which ended on its own
  terms keeps its outcome. A run that its wall clock ended is one; but when the
  shutdown comes between the deadline and the moment `RunAttempt` looks at its
  contexts, the run counts as cancelled and its outcome is dropped. `OutcomeIsKept`
  is stated for the ends that are not a context's.
- *Workspace.* Commits of an attempt that ended with the daemon, or whose push
  failed, are dropped by the next checkout of the branch.

## 4. The proofs

`CaseProofs` proves that the aggregate's invariants (`Loadable`, `RunsAreJustified`,
`GateHolds`, the types), and that a case is
Attempting exactly as long as an attempt is open, hold for any finite set of issues
and any bounds. The invariants are not inductive alone: `Shape` adds
that attempts and kinds fill up from the front, that a case which was never queued
has no attempt, and that a first approval is younger than the missing latest
attempt. `HistoryIsFinal` follows from the same invariant. `ApprovedRunsArePaid` is
a count and has an account of its own (`Covered`): the attempts of the approved tier
and the one promised to a queued case against the approvals and the one restart.

`ResolutionProofs` proves about the daemon, for any set of issues, any Concurrency,
any number of restarts and failures, whether `EarlyRun` or not:

- `DaemonImplementsCase`: every step is a command of the aggregate or none. This
  carries all of `CaseProofs` over. It needs `Answered` (what a runner writes is an
  outcome).
- `Slotted`, from `Counted`: the counted attempts plus the slots still to be given
  away never exceed Concurrency. Only a start adds an attempt, and it takes a slot.
- `Accounted`, from `Attended`: from the boot scan on, an open attempt has a
  goroutine or is on the scan's list. It needs that an open attempt is the target
  of commands (`Loadable`), so a refused write means that the attempt is closed.
- `RemovedNeverStarts`, from `QueueEnrolled`.
- `DaemonImplementsService`: every step is one step of one job of Service, or none.
  An issue has at most one open attempt (`OneJob`), so what a step does to it is one
  job's move (`SameJob`, `Placed`, one lemma per kind of command); a start has a free
  slot because the jobs that run are among the attempts `Counted` counts
  (`RunningCounted`); a write that fails makes the open attempt a stranded job, whose
  place is taken back only when somebody ends it.
- `DaemonTypeCorrect`.

and, assuming `~EarlyRun`, from `Quiescent` (nothing runs before recovery is done)
and `Owned` (a live runner's attempt is open and not lost) with `Truthful` (only
closed issues are called closed): `RunnersOwn`, `Pooled`, `Landed`; and
`RecoveryEndsPrevious`, from `NoRunnerRestarts` (no runner of this process answers
with a restart): what the run Resolution_recovery finds violated with `EarlyRun` is
true without it, so the early run request is the only cause.

The first part of `UpkeepProofs` proves the invariants of the aggregate in Bump, and that a repairing bump
has its round open (`OneRound`), for any pull requests, any
finite set of commits, any cap and number of retries. `BumpInv` is the type
invariant, `Shape` (the log of rounds fills up from the front), `Loadable`,
`CapHolds` and `RepairingHasRound`, which are inductive only together: a requeue
below the cap needs the round that ends to be the latest, and an abandonment's row
is free because a repairing bump has none. On top of it `Justified` keeps an
account per bump, `Debit` (rounds opened or waited for) against `Credit` (failed
heads, grants, infrastructure failures, the restart's requeue), with a lemma per
command that moves it and one for the commands that do not; a first restart is a
credit because the latest round has none after it and `RestartedBefore` finds none
before. `AppendOnly` is the action property, from the same invariant.

Its second part proves every safety property of Upkeep_daemon and Upkeep_rounds, for
any pull requests, any finite set of commits and any number of restarts and
failures. Its steps fall into kinds (`Bystander`, `Opening`, `Ending`, `Moving`, and
the process's own), and one lemma per kind says what it does to bumps and
goroutines. `UpkeepInv` carries `BumpInv` along, since every step is a command of
the aggregate or none (`DaemonImplementsBump`, whose only hard case is that a pushed
outcome names a commit, `Answered`); so `Loadable`, `CapHolds` and
`RoundsAreJustified` follow from the first part. `Attended` with `Quiescent` gives
`RoundsAreAttended`; `Owned`, `Truthful` and `Answered` give `AnswerLands` and
`RepairerOwnsRound`. `PushesReplaceFailures` needs `Grounded` (an open round's base
is a commit whose checks failed, because the brief is refused otherwise and a
verdict is recorded once).

`OutboxProofs` proves about the triage and comment steps, for any number of cases,
failures, crashes and any give-up: the cost of a case that cannot be sized
(`CallsAreBounded`), the refinement of Notice, and once more the aggregate's four
invariants. `OutboxCaseStep` shows that every step is a command of the aggregate or
none, so `OutboxInv` starts from `CaseInv`. `ListsHold` says what is still true of the
list a step read when it comes to its entries. `RepeatsArePaid` counts the comments
on the issue which are not settled, for they may be posted again, together with the
copies there are. `CallsArePaid` is what a received case may have cost by its
remembered failures; a crash forgets those and pays for a whole give-up.

`ExecutionProofs` proves the four safety properties of the Execution run for any
budget of turns. `ExecInv` ties the step of `execute` to what the loop left behind:
after the run the loop is over and nothing it owns moves any more, so what the
judgement, the push and the marker check saw still holds when the outcome is given.
`OutcomeIsKept` is temporal and follows from an invariant of its own (`Kept`), which
begins where a run has ended itself before the shutdown.

`InboxProofs` proves the three safety properties of the Inbox run, and that every step
is a command of the aggregate or none (`InboxImplementsCase`), for any issues, a log
of any length and any number of failures and crashes. `NoLostWakeup`, with
its exception for the sweep that took the token and could not list, is inductive as
it stands. `OneApprovalPerLabel` needs `Approved`: a case has as many approvals as
there are deliveries recorded for it, each a label's. `FollowsLog` compares the store
with `After`, a recursive function over the log. The facts about it (`ToldIs`: it is
what its definition says; `ToldSound`: its values are typed and only a known case is
closed; `ToldAgrees`, `ToldGap`: a delivery that joins or is stored behind a prefix
does not change it, and one that is not stored says nothing) are inductions over the
prefix. The library's induction rule takes an operator, which no prover here can
instantiate; `SetInduction` is the rule for a set, from the well-foundedness of `<`
and `WFMin`. The inductive invariant is `Behind(n)`, for some prefix n that the store
is at:

- n was listed by a sweep, so that what a slow handler stores behind it is `skipped`;
- everything stored before n is done with, or is a label whose approval is recorded
  without its row, and nothing after n is;
- a case that exists though the first n deliveries do not know it (`Early`) is the
  first transaction of the next stored label, and then all up to n are done with;
- if n is a label that approves, its approval is recorded.

A sweep takes the oldest entry of its list, and by `Sweeping` the list holds all that is
older and not done with, so it takes a delivery up to n or the next stored one after n
(`TakesNext`; what is still arriving may lie between). An
older one than n is a recorded label, whose replay finds it recorded
(`ReplayApproved`); n itself finds its effect (`ReplayLast`: this is why the commands
ignore what is already so); the next does to the store what `Effect` does to the view
(`Forward`). `Refreshing` is there because a runner's refresh of a row that was
removed meanwhile is what `overruled` says. The invariant was first checked by TLC
on the instance of the Inbox run.

`WorkspaceProofs` proves all the safety properties of Workspace_turns, and that there
is never more than one container (`Sole`), for any attempts, rounds and branches and any number of crashes and outside moves. `WorkspaceInv` adds to the types: `LockInv` (who is
inside is alone and holds the channel, and a written lease is that of somebody
inside, so an old lease releases nothing), `ContainerInv` (what may be on the
workspace at each step: nothing after a sweep, then only the attempt's own
container), which needs `LockInv`, and `KeptInv` (what the fetch saw on the branch
is in the working tree until the commit and in the branch until the push), which
needs both: nobody else moves the checkout. `GitAlone` and `Sole` are conjuncts of
it; `PushKeeps` combines `KeptInv` with the push's lease; `Undisturbed` and the
refinement `Implements` follow from `LockInv`, with `InsideStep` as its one lemma.
`NoMarkers` needs that an answer changes by that attempt's report only
(`ReportEffect`) and that an issue's attempt is measured from the default branch
(`FromDefault`), so that markers which are not its own count too.

`DeployProofs` proves the three safety properties of Deploy_cutover for any runs,
any finite set of deliveries and any tags. `NotBehind` needs `InstallInv`: whoever
downloads holds the mutex, what it installs was newer than `installed` when it took
it, and after the first rename the daemon's binary is its release. `Late` needs
`OverlookedInv`: a listed run that an idle check passed over, or that a signal will
meet, is in `late`; this is where the order of `Idle`'s reads enters. `Paid` is a
count of answered deliveries, with one lemma: `CutOver` and `Defer` answer one more
(`FS_AddElement`), and `Take` trades what is pending for a signal.

One step per action and per conjunct; lemmas named `...Effect` say once what the
commands do to the set of open attempts or rounds. Assumptions are those of the
modules: `CaseAssumption`, `ResolutionAssumption`, `BumpAssumption`,
`UpkeepAssumption`, `WorkspaceAssumption`, `DeployAssumption`, `InboxAssumption`,
`OutboxAssumption` and `ExecutionAssumption`.

A few theorems state properties that no run checks any more, because a property with
a run contains them or rests on them: the type invariants, `HistoryIsFinal` of both
aggregates, `SlotsRespected` and `PoolRespected` (Service has them), `AnswerLands` of
Resolution and `RepairerOwnsRound` (who owns an attempt or a round), `RepairingHasRound`
(a round the backstop may end), `NoStartWhenRemoved`, and of Workspace that an agent is
undisturbed (Exclusion).

Only model-checked: liveness, which is outside the prover's reach (`AttemptsEnd`,
`ClosedIsCancelled`, `NothingWaitsForEver`, `EveryoneIsServed`, `DeferralIsServed`,
`EveryDeliveryIsProcessed`, `EveryIssueIsSized`, `EveryReportIsPosted`,
`AttemptReturns`), and the violations, each of which is a single behaviour.

## 5. Not modelled, and the plan

Not modelled on purpose: configuration, authentication, metrics, CLI, the toolbox
server, the HTTP transport, texts of briefs, comments and pull requests. The GitHub
client is a set of calls that succeed, fail, or fail after having worked, which is
how the modules use it, or, in a sweep, never answer. Model routing keeps no state: it reads the registry for every
use, and the modules that need a model let the choice fail. A run's warnings
that its wall clock is nearly over are left out: they change what the model is told
and no outcome, though a warning that is on its way when the run ends is not waited
for (`wallTimer.Stop`). Two hazards have no
property, with the reason in `PROJECT.json`: the `.git/index.lock` a killed git
leaves behind, and the binaries of two releases that a failed replacement leaves on
disk, with the installed tag forgotten at the next start.

What is left, in this order:

1. **Slots** shared: the two schedulers over one pool in one sweep. Each counts the
   open rows of both when it starts, so the pool holds for either alone; their
   composition is not modelled.
2. **Execution** as the refinement of Resolution's `Answers`, and the same pipeline
   for a repair round, whose answers Upkeep chooses from a set.
3. **CheckRollup** as an operator against a reference definition: what the check runs
   and statuses of a commit come to.
4. What the inbox promises as an abstract specification of its own, a log that is
   applied in order, with `Behind`'s prefix as the refinement mapping.
