-------------------------------- MODULE Inbox --------------------------------
(***************************************************************************)
(* The way in: the webhook handler that stores GitHub's deliveries, the    *)
(* listener and the ticker that wake the dispatcher, the translation of    *)
(* the stored deliveries into commands, and the enrollment of the one      *)
(* repository they are about, which a runner refreshes on its own.         *)
(*                                                                         *)
(* A delivery is known by its place in the log, the order of received_at.  *)
(* The handler reads the clock before its transaction, so deliveries may   *)
(* be stored in another order.  The command of a delivery and its row are  *)
(* two transactions.  A failure is a store call or a connection that       *)
(* fails, a webhook that is not stored, or the end of the process.         *)
(***************************************************************************)
EXTENDS Case, Sequences

CONSTANTS
    MaxDeliveries,  \* bound on the deliveries stored
    MaxFailures,    \* bound on failures and crashes
    Trusted         \* the issues of trusted requesters

ASSUME InboxAssumption ==
    /\ MaxDeliveries \in Nat
    /\ MaxFailures \in Nat
    /\ MaxDeliveries <= MaxApprovals
    /\ Issue \subseteq Nat \ {0}
    /\ Trusted \subseteq Issue

VARIABLES
    installed,      \* GitHub: the App's installation on the repository, 0 for none
    installs,       \* GitHub: how many installations there were so far
    onGitHub,       \* onGitHub[i]: the issue there: "none", "overtaken", "open", "closed"
    log,            \* the deliveries that got a received_at, oldest first
    arriving,       \* those whose handler has not stored them yet
    stored,         \* those with a row; the rest were lost on the way there
    processed,      \* the deliveries with a processing row
    approvedBy,     \* the deliveries an approval is recorded for
    enrollment,     \* the repository's row: "unknown", "enrolled" or "removed"
    installation,   \* the installation id in that row
    stale,          \* the default branch in that row is not GitHub's
    labelled,       \* the repository's label setup is recorded
    daemon,         \* the process: "down", "booting" or "up"
    listening,      \* the LISTEN connection is up
    notified,       \* a notification is on its way to the listener
    wake,           \* the wake channel holds its one token
    step,           \* the sweep's step: "idle" between sweeps, "hung" in a call never answered
    todo,           \* the deliveries the translate step listed and has not visited
    recording,      \* the delivery whose command committed and whose row has not, if any
    refresh,        \* the repository row a runner read and has not refreshed yet, if any
    owed,           \* deliveries announced to a live listener that no sweep listed since
    missed,         \* those of them whose token went to a sweep that could not list
    listed,         \* the deliveries a sweep ever listed
    overruled,      \* the row was changed against what the deliveries say
    skipped,        \* a failure or a slow handler let a younger delivery go first
    failures        \* failures and crashes so far

githubVars == <<installed, installs, onGitHub>>
repoVars == <<enrollment, installation, stale, labelled, overruled>>
logVars == <<log, arriving, stored>>
wakeVars == <<listening, notified, wake, owed, missed>>
sweepVars == <<step, todo, recording, listed>>
budgetVars == <<failures, skipped>>
vars == <<caseVars, githubVars, logVars, processed, approvedBy, repoVars, daemon, wakeVars,
          sweepVars, refresh, budgetVars>>

-----------------------------------------------------------------------------

Kind == {"added", "removed", "opened", "labeled", "closed"}

\* An enrolment delivery names the installation, the others the issue.
Delivery == [kind : Kind, issue : Issue \cup {0}, id : Nat]

Stamped == 1..Len(log)

Unprocessed == stored \ processed

InboxInit ==
    /\ Init
    /\ trust = [i \in Issue |-> IF i \in Trusted THEN "trusted" ELSE "untrusted"]
    /\ installed = 0 /\ installs = 0
    /\ onGitHub = [i \in Issue |-> "none"]
    /\ log = <<>> /\ arriving = {} /\ stored = {}
    /\ processed = {} /\ approvedBy = {}
    /\ enrollment = "unknown" /\ installation = 0
    /\ stale = FALSE /\ labelled = FALSE /\ overruled = FALSE
    /\ daemon = "up"
    /\ listening = TRUE /\ notified = FALSE /\ wake = FALSE /\ owed = {} /\ missed = {}
    /\ step = "idle" /\ todo = {} /\ recording = {} /\ listed = {}
    /\ refresh = {}
    /\ failures = 0 /\ skipped = FALSE

Fails ==
    /\ failures < MaxFailures
    /\ failures' = failures + 1

FailsElsewhere == Fails /\ UNCHANGED skipped

-----------------------------------------------------------------------------
\* GitHub, outside the repository's code, and the webhook handler.

\* The handler reads the clock; its transaction is still to come.
Receive(e) ==
    /\ daemon # "down"
    /\ Len(log) < MaxDeliveries
    /\ log' = Append(log, e)
    /\ arriving' = arriving \cup {Len(log) + 1}
    /\ UNCHANGED <<stored, wakeVars, budgetVars>>

\* Nobody answers: GitHub does not deliver it again.
DeliveryLost ==
    /\ FailsElsewhere
    /\ UNCHANGED <<logVars, wakeVars>>

GitHubUnchanged == UNCHANGED <<caseVars, processed, approvedBy, repoVars, daemon, sweepVars, refresh>>

\* installation.created, installation_repositories.added
AppInstalled ==
    /\ installed = 0
    /\ installs < MaxDeliveries
    /\ installs' = installs + 1
    /\ installed' = installs + 1
    /\ Receive([kind |-> "added", issue |-> 0, id |-> installs + 1]) \/ DeliveryLost
    /\ UNCHANGED onGitHub
    /\ GitHubUnchanged

\* installation.deleted, installation_repositories.removed
AppRemoved ==
    /\ installed # 0
    /\ installed' = 0
    /\ Receive([kind |-> "removed", issue |-> 0, id |-> installed]) \/ DeliveryLost
    /\ UNCHANGED <<installs, onGitHub>>
    /\ GitHubUnchanged

IssueEvent(i, k, from, to) ==
    /\ installed # 0
    /\ onGitHub[i] = from
    /\ onGitHub' = [onGitHub EXCEPT ![i] = to]
    /\ Receive([kind |-> k, issue |-> i, id |-> 0]) \/ DeliveryLost
    /\ UNCHANGED <<installed, installs>>
    /\ GitHubUnchanged

\* The label's delivery may overtake the opening's.
IssueEvents(i) ==
    \/ IssueEvent(i, "opened", "none", "open")
    \/ IssueEvent(i, "labeled", "none", "overtaken")
    \/ IssueEvent(i, "opened", "overtaken", "open")
    \/ IssueEvent(i, "labeled", "open", "open")
    \/ IssueEvent(i, "closed", "open", "closed")

\* StoreDelivery: the row and its notification commit together, in whatever
\* order the handlers come to it.  A redelivery of a stored one is a conflict
\* that changes nothing.
StoreDelivery(d) ==
    /\ d \in arriving
    /\ arriving' = arriving \ {d}
    /\ stored' = stored \cup {d}
    /\ notified' = (notified \/ listening)
    /\ owed' = IF listening THEN owed \cup {d} ELSE owed
    /\ skipped' = (skipped \/ \E e \in listed : d < e)
    /\ UNCHANGED <<githubVars, log, listening, wake, missed, failures>>
    /\ GitHubUnchanged

\* The handler answers 500: GitHub does not deliver it again either.
StoreFails(d) ==
    /\ d \in arriving
    /\ arriving' = arriving \ {d}
    /\ FailsElsewhere
    /\ UNCHANGED <<githubVars, log, stored, wakeVars>>
    /\ GitHubUnchanged

\* Somebody renames the default branch, on which whoever read it before is stale.
BranchRenamed ==
    /\ enrollment # "unknown"
    /\ stale' = TRUE
    /\ refresh' = {[r EXCEPT !.stale = TRUE] : r \in refresh}
    /\ UNCHANGED <<caseVars, githubVars, logVars, processed, approvedBy, enrollment, installation,
                   labelled, overruled, daemon, wakeVars, sweepVars, budgetVars>>

-----------------------------------------------------------------------------
\* The process, its listener and its wake channel.

StoreUnchanged == UNCHANGED <<caseVars, githubVars, logVars, processed, approvedBy, repoVars>>

\* Dispatcher.Run: nothing is scanned before the subscription is live.
Boot ==
    /\ daemon = "down"
    /\ daemon' = "booting"
    /\ listening' = TRUE
    /\ UNCHANGED <<notified, wake, owed, missed, sweepVars, refresh, budgetVars>>
    /\ StoreUnchanged

\* The process dies, with the handlers that were about to store.
Crash ==
    /\ daemon # "down"
    /\ FailsElsewhere
    /\ daemon' = "down"
    /\ listening' = FALSE /\ notified' = FALSE /\ wake' = FALSE /\ owed' = {} /\ missed' = {}
    /\ step' = "idle" /\ todo' = {} /\ recording' = {}
    /\ refresh' = {}
    /\ arriving' = {}
    /\ UNCHANGED <<caseVars, githubVars, log, stored, processed, approvedBy, repoVars, listed>>

\* The connection dies; what was on its way to it is lost.
Disconnect ==
    /\ listening
    /\ FailsElsewhere
    /\ listening' = FALSE
    /\ notified' = FALSE
    /\ owed' = IF notified THEN {} ELSE owed
    /\ missed' = IF notified THEN {} ELSE missed
    /\ UNCHANGED <<daemon, wake, sweepVars, refresh>>
    /\ StoreUnchanged

\* After a backoff.  ready is read only once, so a reconnect wakes nobody.
Reconnect ==
    /\ daemon # "down"
    /\ ~listening
    /\ listening' = TRUE
    /\ UNCHANGED <<daemon, notified, wake, owed, missed, sweepVars, refresh, budgetVars>>
    /\ StoreUnchanged

\* Faulty: the wake channel has no buffer, so only a waiting dispatcher hears.
NotifyUnbuffered ==
    /\ notified
    /\ notified' = FALSE
    /\ wake' = (wake \/ (daemon = "up" /\ step = "idle"))
    /\ UNCHANGED <<daemon, listening, owed, missed, sweepVars, refresh, budgetVars>>
    /\ StoreUnchanged

\* The listener's callback sends without blocking to a channel of capacity 1.
Notify ==
    /\ notified
    /\ notified' = FALSE
    /\ wake' = TRUE
    /\ UNCHANGED <<daemon, listening, owed, missed, sweepVars, refresh, budgetVars>>
    /\ StoreUnchanged

\* The floor: a minute without a sweep.
Tick ==
    /\ daemon # "down"
    /\ ~wake
    /\ wake' = TRUE
    /\ UNCHANGED <<daemon, listening, notified, owed, missed, sweepVars, refresh, budgetVars>>
    /\ StoreUnchanged

-----------------------------------------------------------------------------
\* The sweep.

Lists(D) ==
    /\ step = "idle"
    /\ step' = "translate"
    /\ todo' = D
    /\ listed' = listed \cup D
    /\ owed' = {} /\ missed' = {}
    /\ UNCHANGED <<listening, notified, recording, refresh, budgetVars>>
    /\ StoreUnchanged

\* Faulty: the sweep handles the deliveries it was told of.
ListDeliveriesAnnounced == Lists(owed \cap Unprocessed)

\* UnprocessedDeliveries is read once per sweep.
ListDeliveries == Lists(Unprocessed)

\* It fails, and the sweep goes on with its next steps, or is never answered.
ListFails ==
    /\ step = "idle"
    /\ \/ FailsElsewhere /\ step' = "enroll"
       \/ UNCHANGED budgetVars /\ step' = "hung"
    /\ UNCHANGED <<listening, notified, owed, todo, recording, listed, refresh>>
    /\ StoreUnchanged

\* Recovery is done: the boot sweep waits for no wake.
BootSweep ==
    /\ daemon = "booting"
    /\ daemon' = "up"
    /\ ListDeliveries \/ (ListFails /\ UNCHANGED missed)
    /\ UNCHANGED wake

\* The token is taken before the list is read: a list that fails loses it.
StartSweep ==
    /\ daemon = "up"
    /\ wake
    /\ wake' = FALSE
    /\ ListDeliveries \/ (ListFails /\ missed' = owed)
    /\ UNCHANGED daemon

\* The operator's run request sweeps on a goroutine of its own.
ApiSweep ==
    /\ daemon # "down"
    /\ ListDeliveries \/ (ListFails /\ UNCHANGED missed)
    /\ UNCHANGED <<daemon, wake>>

\* A call of the sweep to the store or to GitHub is never answered.  It has no
\* deadline, and the sweep holds the dispatcher's mutex: only the process's end
\* ends it.
SweepHangs ==
    /\ step \in {"translate", "enroll"}
    /\ step' = "hung"
    /\ todo' = {} /\ recording' = {}
    /\ UNCHANGED <<daemon, wakeVars, listed, refresh, budgetVars>>
    /\ StoreUnchanged

\* Faulty: the list has no order.
IsNextUnordered(d) == step = "translate" /\ recording = {} /\ d \in todo

IsNext(d) ==
    /\ step = "translate"
    /\ recording = {}
    /\ d \in todo
    /\ \A e \in todo : d <= e

\* The command's transaction commits; the processing row is next.
Committed(d) ==
    /\ recording' = {d}
    /\ UNCHANGED <<githubVars, logVars, processed, daemon, wakeVars, step, todo, listed, refresh, budgetVars>>

TranslateAdded(d) ==
    /\ IsNext(d)
    /\ log[d].kind = "added"
    /\ enrollment' = "enrolled"
    /\ installation' = log[d].id
    /\ stale' \in BOOLEAN
    /\ UNCHANGED <<labelled, overruled, caseVars, approvedBy>>
    /\ Committed(d)

\* Unknown repositories are ignored.
TranslateRemoved(d) ==
    /\ IsNext(d)
    /\ log[d].kind = "removed"
    /\ enrollment' = IF enrollment = "unknown" THEN "unknown" ELSE "removed"
    /\ UNCHANGED <<installation, stale, labelled, overruled, caseVars, approvedBy>>
    /\ Committed(d)

\* open: an unenrolled repository and an existing case are ignored.
TranslateOpened(d) ==
    /\ IsNext(d)
    /\ log[d].kind = "opened"
    /\ LET i == log[d].issue
       IN  IF enrollment = "enrolled" /\ state[i] = "absent"
           THEN NewCase(i)
           ELSE UNCHANGED caseVars
    /\ UNCHANGED <<repoVars, approvedBy>>
    /\ Committed(d)

\* The label creates the missing case in a transaction of its own; the
\* delivery is not done with.
OpenForLabel(d) ==
    /\ IsNext(d)
    /\ log[d].kind = "labeled"
    /\ enrollment = "enrolled"
    /\ NewCase(log[d].issue)
    /\ UNCHANGED <<githubVars, logVars, processed, approvedBy, repoVars, daemon, wakeVars, sweepVars,
                   refresh, budgetVars>>

\* Faulty: nothing ties an approval to its delivery.
IsRecordedNever(d) == FALSE

\* case_approval_deliveries.delivery_id is unique.
IsRecorded(d) == d \in approvedBy

\* ... and then approves it.
Approve(d) ==
    /\ IsNext(d)
    /\ log[d].kind = "labeled"
    /\ enrollment = "enrolled"
    /\ ~IsRecorded(d)
    /\ RecordApproval(log[d].issue)
    /\ approvedBy' = approvedBy \cup {d}
    /\ UNCHANGED repoVars
    /\ Committed(d)

\* The repository is not enrolled, or the case is over: ignored or rejected.
LabelRefused(d) ==
    /\ IsNext(d)
    /\ log[d].kind = "labeled"
    /\ enrollment # "enrolled" \/ state[log[d].issue] \in Terminal
    /\ UNCHANGED <<caseVars, repoVars, approvedBy>>
    /\ Committed(d)

\* A recorded label delivery that is processed again: the second approval's
\* unique violation is no refusal, so there is no processing row either.
Poisoned(d) ==
    /\ d \in Unprocessed
    /\ log[d].kind = "labeled"
    /\ IsRecorded(d)
    /\ enrollment = "enrolled"
    /\ state[log[d].issue] \notin Terminal

TranslateClosed(d) ==
    /\ IsNext(d)
    /\ log[d].kind = "closed"
    /\ LET i == log[d].issue
       IN  IF state[i] \in CaseState \ Terminal THEN Close(i) ELSE UNCHANGED caseVars
    /\ UNCHANGED <<repoVars, approvedBy>>
    /\ Committed(d)

Translate(d) ==
    \/ TranslateAdded(d) \/ TranslateRemoved(d)
    \/ TranslateOpened(d) \/ TranslateClosed(d)
    \/ OpenForLabel(d) \/ Approve(d) \/ LabelRefused(d)

\* The loop goes on with the next delivery, this one is left for a later sweep.
LeaveUnprocessed(d) ==
    /\ todo' = todo \ {d}
    /\ recording' = {}
    /\ UNCHANGED <<caseVars, githubVars, logVars, processed, approvedBy, repoVars, daemon, wakeVars,
                   step, listed, refresh>>

\* A younger delivery of the list goes first.
Passed(d) == skipped' = (skipped \/ \E e \in todo : d < e)

\* The store fails before the command commits.
TranslateFails(d) ==
    /\ IsNext(d)
    /\ Fails
    /\ Passed(d)
    /\ LeaveUnprocessed(d)

TranslatePoisoned(d) ==
    /\ IsNext(d)
    /\ Poisoned(d)
    /\ LeaveUnprocessed(d)
    /\ UNCHANGED budgetVars

\* RecordProcessing
Record(d) ==
    /\ d \in recording
    /\ processed' = processed \cup {d}
    /\ todo' = todo \ {d}
    /\ recording' = {}
    /\ UNCHANGED <<caseVars, githubVars, logVars, approvedBy, repoVars, daemon, wakeVars, step,
                   listed, refresh, budgetVars>>

RecordFails(d) ==
    /\ d \in recording
    /\ Fails
    /\ Passed(d)
    /\ LeaveUnprocessed(d)

TranslateDone ==
    /\ step = "translate"
    /\ todo = {}
    /\ step' = "enroll"
    /\ UNCHANGED <<caseVars, githubVars, logVars, processed, approvedBy, repoVars, daemon, wakeVars,
                   todo, recording, listed, refresh, budgetVars>>

\* Enrollment.Run, for a repository with no label setup: the branch first, then
\* the label, each of which GitHub may refuse until the next sweep; an archived
\* repository is removed.  The rest of the sweep starts from other tables.
Enroll ==
    /\ step = "enroll"
    /\ step' = "idle"
    /\ IF enrollment = "enrolled" /\ ~labelled
       THEN \/ UNCHANGED <<enrollment, stale, labelled>>
            \/ /\ stale' = FALSE
               /\ \/ UNCHANGED <<enrollment, labelled>>
                  \/ enrollment' = "removed" /\ UNCHANGED labelled
                  \/ labelled' = TRUE /\ UNCHANGED enrollment
       ELSE UNCHANGED <<enrollment, stale, labelled>>
    /\ overruled' = (overruled \/ enrollment' # enrollment)
    /\ UNCHANGED <<caseVars, githubVars, logVars, processed, approvedBy, installation, daemon,
                   wakeVars, todo, recording, listed, refresh, budgetVars>>

-----------------------------------------------------------------------------
\* A runner, beside the sweep: execute reads the repository's row, and
\* refreshDefaultBranch writes it back, as enrolled as it was, if GitHub names
\* another branch.  A row that was removed is not written back.

RefreshReads ==
    /\ daemon # "down"
    /\ refresh = {}
    /\ enrollment = "enrolled"
    /\ refresh' = {[id |-> installation, stale |-> stale]}
    /\ UNCHANGED <<daemon, wakeVars, sweepVars, budgetVars>>
    /\ StoreUnchanged

RefreshWrites(r) ==
    /\ r \in refresh
    /\ refresh' = {}
    /\ \/ /\ r.stale
          /\ enrollment' = "enrolled"
          /\ installation' = r.id
          /\ stale' = FALSE
          /\ overruled' = (overruled \/ enrollment = "removed" \/ installation # r.id)
       \/ UNCHANGED <<enrollment, installation, stale, overruled>>
    /\ UNCHANGED <<caseVars, githubVars, logVars, processed, approvedBy, labelled, daemon, wakeVars,
                   sweepVars, budgetVars>>

-----------------------------------------------------------------------------

GitHubNext ==
    \/ AppInstalled \/ AppRemoved \/ BranchRenamed
    \/ \E d \in arriving : StoreDelivery(d) \/ StoreFails(d)
    \/ \E i \in Issue : IssueEvents(i)

WakeNext == Boot \/ Crash \/ Disconnect \/ Reconnect \/ Notify \/ Tick

\* Translator.Process, and how it fails.
Process(d) ==
    Translate(d) \/ TranslateFails(d) \/ TranslatePoisoned(d) \/ Record(d) \/ RecordFails(d)

SweepNext ==
    \/ BootSweep \/ StartSweep \/ ApiSweep \/ TranslateDone \/ Enroll \/ SweepHangs
    \/ \E d \in stored : Process(d)

RefreshNext == RefreshReads \/ \E r \in refresh : RefreshWrites(r)

InboxNext == GitHubNext \/ WakeNext \/ SweepNext \/ RefreshNext

InboxSpec == InboxInit /\ [][InboxNext]_vars

\* Fairness.  The daemon is restarted, its ticker ticks, and the sweep takes its
\* next step unless SweepHangs takes it first: of a call it is not assumed that
\* it is answered.  Of GitHub, its handlers, the listener and the operator
\* nothing is assumed.
FairInboxSpec ==
    /\ InboxSpec
    /\ WF_vars(Tick)
    /\ WF_vars(\/ Boot \/ BootSweep \/ StartSweep \/ TranslateDone \/ Enroll
               \/ \E d \in stored : Process(d))

-----------------------------------------------------------------------------

\* Type invariant of the store's, the dispatcher's and GitHub's state.
InboxTypeOK ==
    /\ TypeOK
    /\ installs \in Nat /\ installed \in 0..installs
    /\ onGitHub \in [Issue -> {"none", "overtaken", "open", "closed"}]
    /\ log \in Seq(Delivery)
    /\ arriving \subseteq Stamped /\ stored \subseteq Stamped \ arriving
    /\ processed \subseteq stored
    /\ approvedBy \subseteq stored
    /\ enrollment \in {"unknown", "enrolled", "removed"}
    /\ installation \in Nat
    /\ stale \in BOOLEAN /\ labelled \in BOOLEAN /\ overruled \in BOOLEAN
    /\ daemon \in {"down", "booting", "up"}
    /\ listening \in BOOLEAN /\ notified \in BOOLEAN /\ wake \in BOOLEAN
    /\ owed \subseteq stored /\ missed \subseteq owed
    /\ step \in {"idle", "translate", "enroll", "hung"}
    /\ listed \subseteq stored /\ todo \subseteq listed /\ recording \subseteq todo
    /\ refresh \subseteq [id : Nat, stale : BOOLEAN]
    /\ failures \in 0..MaxFailures /\ skipped \in BOOLEAN

\* A delivery that was announced to the listener and that no sweep has listed
\* is still on its way to the dispatcher: a wake-up is coalesced, never lost,
\* whatever the dispatcher was doing when it came.  The one exception is the
\* sweep that took the token and could not list; until the ticker, nothing
\* stands for what it was told of.
NoLostWakeup == owed # missed => notified \/ wake

\* One delivery's effect on a repository and its cases that are up to date.
Effect(s, e) ==
    CASE e.kind = "added"   -> [s EXCEPT !.repo = "enrolled", !.id = e.id]
      [] e.kind = "removed" -> [s EXCEPT !.repo = IF @ = "unknown" THEN @ ELSE "removed"]
      [] e.kind = "opened"  -> IF s.repo = "enrolled" THEN [s EXCEPT !.known[e.issue] = TRUE] ELSE s
      [] e.kind = "labeled" ->
            IF s.repo = "enrolled" /\ ~s.closed[e.issue]
            THEN [s EXCEPT !.known[e.issue] = TRUE, !.labels[e.issue] = @ + 1] ELSE s
      [] e.kind = "closed"  -> IF s.known[e.issue] THEN [s EXCEPT !.closed[e.issue] = TRUE] ELSE s

Blank ==
    [repo |-> "unknown", id |-> 0, known |-> [i \in Issue |-> FALSE],
     labels |-> [i \in Issue |-> 0], closed |-> [i \in Issue |-> FALSE]]

\* After[n]: what the stored ones of the log's first n deliveries say, taken one
\* by one.
After ==
    LET after[n \in 0..Len(log)] ==
            IF n = 0 THEN Blank
            ELSE IF n \in stored THEN Effect(after[n - 1], log[n]) ELSE after[n - 1]
    IN  after

\* No stored delivery is between the n-th and the d-th.
Follows(n, d) == n < d /\ stored \cap (n + 1)..(d - 1) = {}

\* The store says what the first n deliveries say; of a label's two
\* transactions the first may be ahead.
Says(n) ==
    /\ After[n].repo = enrollment
    /\ After[n].id = installation
    /\ \A i \in Issue :
          /\ After[n].labels[i] = approvals[i]
          /\ After[n].closed[i] <=> state[i] = "closed"
          /\ After[n].known[i] => state[i] # "absent"
          /\ state[i] # "absent" /\ ~After[n].known[i]
                => \E d \in stored : Follows(n, d) /\ log[d].kind = "labeled" /\ log[d].issue = i

\* Crashes, replays, coalesced sweeps and sweeps of the API do not reorder:
\* while no failure let a younger delivery of the same list pass an older one,
\* no handler was so slow that a sweep listed a younger delivery before it
\* stored the older, and neither a refresh overwrote a newer row nor an archived
\* repository was removed, the store says exactly what a prefix of the stored
\* deliveries says, and all before its last one is done with.
FollowsLog ==
    ~skipped /\ ~overruled =>
        \E n \in 0..Len(log) :
            /\ Says(n)
            /\ processed \subseteq 1..n
            /\ stored \cap 1..(n - 1) \subseteq processed \cup approvedBy

\* However often a label's delivery is processed again, after a crash or a
\* failure between its approval and its row, it approves once: it cannot buy
\* a second run.
OneApprovalPerLabel ==
    \A i \in Issue :
        approvals[i] <= Cardinality({d \in stored : log[d].kind = "labeled" /\ log[d].issue = i})

\* Every stored delivery is done with in the end, also those whose notification
\* was lost with the connection, the process or a list that failed, and those a
\* failure left behind or a slow handler stored late: again and again nothing is
\* left but the labels whose approval was recorded without its row, unless a
\* call of the sweep is never answered.
EveryDeliveryIsProcessed == []<>(step = "hung" \/ \A d \in Unprocessed : Poisoned(d))
=============================================================================
