----------------------------- MODULE Workspace -----------------------------
(***************************************************************************)
(* One repository's workspace: the host checkout that every attempt and    *)
(* every repair round on the repository takes turns on, its lock, the      *)
(* podman containers over it and the branches on the remote.               *)
(*                                                                         *)
(* Repositories share none of this, so one of them is enough.  The         *)
(* containers outlive the daemon; the lock and the recorded container name *)
(* do not.  A commit is the set of contributions it holds: a rebase keeps  *)
(* them, and a merge that conflicts adds Markers to the working tree.      *)
(* Any command that is run may fail; a podman or git client that is killed *)
(* may have done its work before that.                                     *)
(***************************************************************************)
EXTENDS Naturals

CONSTANTS
    Attempt,    \* the attempts and the repair rounds of the repository
    Round,      \* which of them are repair rounds
    Branch,     \* the branches they work on
    BranchOf,   \* BranchOf[a]: the branch of attempt a
    Outsider,   \* contributions pushed by others
    Markers,    \* conflict markers, as a contribution
    Absent,     \* marks a branch that is not on the remote
    Nobody,     \* the lease nobody holds
    MaxEvents   \* bound on the daemon's deaths and on what others do to the branches

Contribution == Attempt \cup Outsider \cup {Markers}

Commit == SUBSET Contribution

\* The value of a branch that is not on the remote.
NoBranch == {Absent}

ASSUME WorkspaceAssumption ==
    /\ Round \subseteq Attempt
    /\ BranchOf \in [Attempt -> Branch]
    /\ Nobody \notin Attempt
    /\ Markers \notin Attempt \cup Outsider
    /\ Attempt \cap Outsider = {}
    /\ Absent \notin Contribution
    /\ MaxEvents \in Nat

VARIABLES
    pc,         \* pc[a]: the sandbox call attempt a is in, or has returned from
    locked,     \* the capacity-1 channel is full
    holder,     \* the lease of the acquisition that owns it
    record,     \* whose container Start recorded last
    containers, \* the containers on the workspace
    remote,     \* remote[b]: the commit of branch b on the remote
    local,      \* local[b]: the commit of branch b in the workspace
    tree,       \* what the working tree holds
    base,       \* base[a]: the commit attempt a's own work is measured from
    remoteHead, \* remoteHead[a]: the value attempt a's push expects
    answer,     \* answer[a]: "landed" when it reports its branch as its work
    events      \* deaths and others' moves so far

lockVars == <<locked, holder>>
podmanVars == <<record, containers>>
gitVars == <<local, tree, base, remoteHead>>
vars == <<pc, locked, holder, record, containers, remote, local, tree, base, remoteHead, answer, events>>

\* "acquired": the channel is taken, the holder not written yet.
Pc == {"idle", "waiting", "acquired", "sweeping", "checkout", "warm", "warming", "starting",
       "dialing", "working", "ending", "committing", "pushing", "reviewing", "teardown", "unlocking",
       "done", "torn"}

Inside == {a \in Attempt : pc[a] \notin {"idle", "waiting", "done", "torn"}}

\* The daemon runs git on the host in these.
HostGit == {"checkout", "committing", "pushing", "reviewing"}

\* The container of the dependency warmer; the agent's, while nothing runs in
\* it, and once the agent does.
Prep(a) == [owner |-> a, kind |-> "prep"]
Idle(a) == [owner |-> a, kind |-> "idle"]
Agent(a) == [owner |-> a, kind |-> "agent"]

\* Others opened the branch of a bump, with a commit that is not counted; a
\* case's branch comes with its first push.
Init ==
    /\ pc = [a \in Attempt |-> "idle"]
    /\ locked = FALSE
    /\ holder = Nobody
    /\ record = Nobody
    /\ containers = {}
    /\ remote = [b \in Branch |-> IF \E a \in Round : BranchOf[a] = b THEN {} ELSE NoBranch]
    /\ local = [b \in Branch |-> {}]
    /\ tree = {}
    /\ base = [a \in Attempt |-> {}]
    /\ remoteHead = [a \in Attempt |-> NoBranch]
    /\ answer = [a \in Attempt |-> "none"]
    /\ events = 0

Goes(a, from, to) == pc[a] = from /\ pc' = [pc EXCEPT ![a] = to]

\* Faulty: unlock goes by the repository's name.
UnlockAny(a) == holder' = Nobody /\ locked' = FALSE

\* unlock compares the caller's lease with the holder's.
Unlock(a) ==
    IF holder = a THEN holder' = Nobody /\ locked' = FALSE ELSE UNCHANGED lockVars

-----------------------------------------------------------------------------
\* Prepare and PrepareHead, up to the container.

\* A repair round is told the head that CI judged.
Request(a) ==
    /\ Goes(a, "idle", "waiting")
    /\ IF a \in Round
       THEN /\ remote[BranchOf[a]] # NoBranch
            /\ base' = [base EXCEPT ![a] = remote[BranchOf[a]]]
       ELSE UNCHANGED base
    /\ UNCHANGED <<lockVars, podmanVars, remote, local, tree, remoteHead, answer, events>>

\* The attempt's context ends before the lock is free.
GiveUp(a) ==
    /\ Goes(a, "waiting", "done")
    /\ UNCHANGED <<lockVars, podmanVars, remote, gitVars, answer, events>>

Acquire(a) ==
    /\ ~locked
    /\ Goes(a, "waiting", "acquired")
    /\ locked' = TRUE
    /\ UNCHANGED <<holder, podmanVars, remote, gitVars, answer, events>>

Hold(a) ==
    /\ Goes(a, "acquired", "sweeping")
    /\ holder' = a
    /\ UNCHANGED <<locked, podmanVars, remote, gitVars, answer, events>>

\* What carries the workspace's label goes, whoever started it.
Sweep(a) ==
    /\ Goes(a, "sweeping", "checkout")
    /\ containers' = {}
    /\ UNCHANGED <<lockVars, record, remote, gitVars, answer, events>>

\* One of the listing and the removals fails: some containers are gone.
SweepFails(a) ==
    /\ Goes(a, "sweeping", "done")
    /\ Unlock(a)
    /\ containers' \in SUBSET containers
    /\ UNCHANGED <<record, remote, gitVars, answer, events>>

\* A new branch starts at the default branch, whose contributions are not
\* counted.
StartPoint(b) == IF remote[b] = NoBranch THEN {} ELSE remote[b]

\* Clone or fetch, and put the branch in place: one the remote has is replayed
\* onto the default branch, which may conflict.
Checkout(a) ==
    LET b == BranchOf[a]
        start == StartPoint(b)
    IN  /\ a \notin Round
        /\ Goes(a, "checkout", "warm")
        /\ remoteHead' = [remoteHead EXCEPT ![a] = remote[b]]
        /\ local' = [local EXCEPT ![b] = start]
        /\ \/ tree' = start
           \/ remote[b] # NoBranch /\ tree' = start \cup {Markers}
        /\ UNCHANGED <<lockVars, podmanVars, remote, base, answer, events>>

\* A repair round works the head it was told about or nothing.
CheckoutHead(a) ==
    LET b == BranchOf[a]
    IN  /\ a \in Round
        /\ remote[b] = base[a]
        /\ Goes(a, "checkout", "warm")
        /\ remoteHead' = [remoteHead EXCEPT ![a] = base[a]]
        /\ local' = [local EXCEPT ![b] = base[a]]
        /\ tree' = base[a]
        /\ UNCHANGED <<lockVars, podmanVars, remote, base, answer, events>>

\* What a failed checkout did to the workspace, the next one replaces.
CheckoutFails(a) ==
    /\ Goes(a, "checkout", "done")
    /\ Unlock(a)
    /\ UNCHANGED <<podmanVars, remote, gitVars, answer, events>>

Warm(a) ==
    /\ Goes(a, "warm", "warming")
    /\ containers' = containers \cup {Prep(a)}
    /\ UNCHANGED <<lockVars, record, remote, gitVars, answer, events>>

WarmDone(a) ==
    /\ Goes(a, "warming", "starting")
    /\ containers' = containers \ {Prep(a)}
    /\ UNCHANGED <<lockVars, record, remote, gitVars, answer, events>>

\* A podman killed by its timeout leaves the container running.
WarmFails(a) ==
    /\ Goes(a, "warming", "done")
    /\ Unlock(a)
    /\ containers' \in {containers, containers \ {Prep(a)}}
    /\ UNCHANGED <<record, remote, gitVars, answer, events>>

Start(a) ==
    /\ Goes(a, "starting", "dialing")
    /\ containers' = containers \cup {Idle(a)}
    /\ record' = a
    /\ UNCHANGED <<lockVars, remote, gitVars, answer, events>>

\* Faulty: a failed Start leaves the unlock to a Teardown that never comes.
StartFailsHolding(a) ==
    /\ Goes(a, "starting", "done")
    /\ containers' \in {containers, containers \cup {Idle(a)}}
    /\ UNCHANGED <<lockVars, record, remote, gitVars, answer, events>>

\* A killed podman may have created the container, in which nothing runs.
StartFails(a) ==
    /\ Goes(a, "starting", "done")
    /\ Unlock(a)
    /\ containers' \in {containers, containers \cup {Idle(a)}}
    /\ UNCHANGED <<record, remote, gitVars, answer, events>>

\* The toolbox is dialled and the run begins.
Dial(a) ==
    /\ Goes(a, "dialing", "working")
    /\ containers' = (containers \ {Idle(a)}) \cup {Agent(a)}
    /\ UNCHANGED <<lockVars, record, remote, gitVars, answer, events>>

\* The toolbox does not answer, or the model cannot be built: no run.
DialFails(a) ==
    /\ Goes(a, "dialing", "teardown")
    /\ UNCHANGED <<lockVars, podmanVars, remote, gitVars, answer, events>>

-----------------------------------------------------------------------------
\* The agent, in its container for as long as that runs, whoever remembers it.

AgentWrites(a) ==
    /\ Agent(a) \in containers
    /\ tree' \in {tree \cup {a}, tree \ {Markers}}
    /\ UNCHANGED <<pc, lockVars, podmanVars, remote, local, base, remoteHead, answer, events>>

AgentCommits(a) ==
    /\ Agent(a) \in containers
    /\ local' = [local EXCEPT ![BranchOf[a]] = tree]
    /\ UNCHANGED <<pc, lockVars, podmanVars, remote, tree, base, remoteHead, answer, events>>

-----------------------------------------------------------------------------
\* From the end of the run to the Teardown.

\* The run ended, whatever its stop: the runner always commits and pushes.
RunEnds(a) ==
    /\ Goes(a, "working", "ending")
    /\ UNCHANGED <<lockVars, podmanVars, remote, gitVars, answer, events>>

\* The run panics: the supervisor recovers it, after the deferred Teardown.
RunPanics(a) ==
    /\ Goes(a, "working", "teardown")
    /\ UNCHANGED <<lockVars, podmanVars, remote, gitVars, answer, events>>

\* Faulty: only the recorded container is removed.
EndAgentPhaseRecorded(a) ==
    /\ Goes(a, "ending", "committing")
    /\ record' = Nobody
    /\ containers' = {c \in containers : c.owner # record}
    /\ UNCHANGED <<lockVars, remote, gitVars, answer, events>>

\* The recorded container goes by name, then whatever carries the label.
EndAgentPhase(a) ==
    /\ Goes(a, "ending", "committing")
    /\ record' = Nobody
    /\ containers' = {}
    /\ UNCHANGED <<lockVars, remote, gitVars, answer, events>>

EndAgentPhaseFails(a) ==
    /\ Goes(a, "ending", "teardown")
    /\ record' = Nobody
    /\ containers' \in SUBSET containers
    /\ UNCHANGED <<lockVars, remote, gitVars, answer, events>>

\* git add -A takes everything, the markers nobody resolved included.
CommitAll(a) ==
    /\ Goes(a, "committing", "pushing")
    /\ local' = [local EXCEPT ![BranchOf[a]] = tree]
    /\ UNCHANGED <<lockVars, podmanVars, remote, tree, base, remoteHead, answer, events>>

\* Faulty: --force.
LeaseHoldsForced(a) == TRUE

\* --force-with-lease: the remote branch still is what Prepare's fetch saw.
LeaseHolds(a) == remote[BranchOf[a]] = remoteHead[a]

Pushed(a) == [remote EXCEPT ![BranchOf[a]] = local[BranchOf[a]]]

Push(a) ==
    /\ LeaseHolds(a)
    /\ Goes(a, "pushing", "reviewing")
    /\ remote' = Pushed(a)
    /\ UNCHANGED <<lockVars, podmanVars, gitVars, answer, events>>

\* Refused, or the connection dies; the remote may have taken it all the same.
PushFails(a) ==
    /\ Goes(a, "pushing", "teardown")
    /\ remote' \in {remote} \cup {r \in {Pushed(a)} : LeaseHolds(a)}
    /\ UNCHANGED <<lockVars, podmanVars, gitVars, answer, events>>

\* Faulty: the scan starts at the remote head the attempt began with.
ReportableSinceHead(a) ==
    LET head == local[BranchOf[a]]
    IN  head # base[a] /\ Markers \notin head \ remoteHead[a]

\* The attempt did something, and left no marker its base does not have.
Reportable(a) ==
    LET head == local[BranchOf[a]]
    IN  head # base[a] /\ Markers \notin head \ base[a]

\* The runner reports the branch: a pull request, or the head of a round.
Report(a) ==
    /\ Reportable(a)
    /\ Goes(a, "reviewing", "teardown")
    /\ answer' = [answer EXCEPT ![a] = "landed"]
    /\ UNCHANGED <<lockVars, podmanVars, remote, gitVars, events>>

\* Any other outcome, and every host git command that fails on the way.
HostGitFails(a) ==
    /\ \/ Goes(a, "committing", "teardown")
       \/ Goes(a, "reviewing", "teardown")
    /\ UNCHANGED <<lockVars, podmanVars, remote, gitVars, answer, events>>

\* The removal may fail; the deferred unlock runs anyway.
TeardownRemoves(a) ==
    /\ Goes(a, "teardown", "unlocking")
    /\ record' = Nobody
    /\ containers' \in {containers, containers \ {Idle(a), Agent(a)}}
    /\ UNCHANGED <<lockVars, remote, gitVars, answer, events>>

TeardownUnlocks(a) ==
    /\ Goes(a, "unlocking", "torn")
    /\ Unlock(a)
    /\ UNCHANGED <<podmanVars, remote, gitVars, answer, events>>

\* The interface lets a caller tear down again, at any later time.
TeardownAgain(a) ==
    /\ pc[a] = "torn"
    /\ Unlock(a)
    /\ record' = Nobody
    /\ containers' \in {containers, containers \ {Idle(a), Agent(a)}}
    /\ UNCHANGED <<pc, remote, gitVars, answer, events>>

-----------------------------------------------------------------------------

\* The daemon dies and is restarted: its memory is empty, the host's is not.
Crash ==
    /\ events < MaxEvents
    /\ events' = events + 1
    /\ pc' = [a \in Attempt |-> IF pc[a] = "idle" THEN "idle" ELSE "done"]
    /\ locked' = FALSE
    /\ holder' = Nobody
    /\ record' = Nobody
    /\ UNCHANGED <<containers, remote, gitVars, answer>>

\* Others push to a branch, replace it, or delete it.
OthersMove(b) ==
    /\ events < MaxEvents
    /\ events' = events + 1
    /\ \/ \E o \in Outsider :
             \/ remote[b] # NoBranch /\ remote' = [remote EXCEPT ![b] = @ \cup {o}]
             \/ remote' = [remote EXCEPT ![b] = {o}]
       \/ remote' = [remote EXCEPT ![b] = NoBranch]
    /\ UNCHANGED <<pc, lockVars, podmanVars, gitVars, answer>>

Proceed(a) ==
    \/ Hold(a)
    \/ Sweep(a) \/ SweepFails(a)
    \/ Checkout(a) \/ CheckoutHead(a) \/ CheckoutFails(a)
    \/ Warm(a) \/ WarmDone(a) \/ WarmFails(a)
    \/ Start(a) \/ StartFails(a)
    \/ Dial(a) \/ DialFails(a) \/ RunEnds(a) \/ RunPanics(a)
    \/ EndAgentPhase(a) \/ EndAgentPhaseFails(a)
    \/ CommitAll(a) \/ Push(a) \/ PushFails(a)
    \/ Report(a) \/ HostGitFails(a)
    \/ TeardownRemoves(a) \/ TeardownUnlocks(a)

AttemptNext(a) ==
    \/ Request(a) \/ GiveUp(a) \/ Acquire(a) \/ Proceed(a) \/ TeardownAgain(a)
    \/ AgentWrites(a) \/ AgentCommits(a)

Next ==
    \/ \E a \in Attempt : AttemptNext(a)
    \/ Crash
    \/ \E b \in Branch : OthersMove(b)

Spec == Init /\ [][Next]_vars

\* Fairness.  Every podman and git command runs under a timeout and every run
\* under its budget's wall clock; that the two calls between them are answered,
\* the dial into the container and the choice of a model, for which the code has
\* no deadline, is an assumption.  So an attempt that has the workspace goes on,
\* and a channel serves its senders in order.  Nothing is owed by agents, by
\* others or by whoever would cancel an attempt.
FairSpec == Spec /\ \A a \in Attempt : WF_vars(Acquire(a)) /\ WF_vars(Proceed(a))

-----------------------------------------------------------------------------

\* Type invariant.
WorkspaceTypeOK ==
    /\ pc \in [Attempt -> Pc]
    /\ locked \in BOOLEAN
    /\ holder \in Attempt \cup {Nobody}
    /\ record \in Attempt \cup {Nobody}
    /\ containers \in SUBSET [owner : Attempt, kind : {"prep", "idle", "agent"}]
    /\ remote \in [Branch -> Commit \cup {NoBranch}]
    /\ local \in [Branch -> Commit]
    /\ tree \in Commit
    /\ base \in [Attempt -> Commit]
    /\ remoteHead \in [Attempt -> Commit \cup {NoBranch}]
    /\ answer \in [Attempt -> {"none", "landed"}]
    /\ events \in 0..MaxEvents

\* podman.go, cacheVolumes: "only one container is ever on a workspace at a
\* time", whatever a crash, a killed podman or a failed removal left behind.
OneContainer == \A c, d \in containers : c = d

\* Host git never runs while a container has the workspace mounted: not one
\* of an earlier attempt, not one from before a restart.
HostGitAlone == \A a \in Attempt : pc[a] \in HostGit => containers = {}

\* The agent works with its own container and on its own branch: nobody else's
\* Prepare sweeps the container away or moves the checkout during the run.
AgentUndisturbed ==
    [][\A a, b \in Attempt :
          pc[a] = "working" /\ pc'[b] # pc[b] /\ b # a
              => UNCHANGED <<containers, local, tree>>]_vars

Turns == INSTANCE Exclusion WITH Client <- Attempt, inside <- Inside

\* The lock with its leases implements exclusion, though a Teardown may be
\* called again at any time and a crash empties the lock.
ImplementsExclusion == Turns!ExclusionSpec

\* A push drops nothing that is on the branch: neither what others pushed since
\* the fetch, nor what earlier attempts left there.
PushOnlyAdds ==
    [][\A a \in Attempt :
          LET b == BranchOf[a]
          IN  pc[a] = "pushing" /\ pc'[a] # "pushing" /\ remote'[b] # remote[b] /\ remote[b] # NoBranch
                  => remote[b] \ {Markers} \subseteq remote'[b]]_vars

\* No pull request of an issue's attempt carries conflict markers, neither its
\* own nor those an earlier attempt pushed to the branch.
NoMarkersReported ==
    [][\A a \in Attempt \ Round :
          answer'[a] # answer[a] => Markers \notin local[BranchOf[a]]]_vars

\* Whoever waits for the workspace gets through it: every way out of a call
\* releases the lock.
EveryoneIsServed == \A a \in Attempt : pc[a] = "waiting" ~> pc[a] \in {"done", "torn"}
=============================================================================
