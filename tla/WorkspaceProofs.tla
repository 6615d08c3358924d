--------------------------- MODULE WorkspaceProofs ---------------------------
(* Theorems about Workspace, for any attempts, rounds and branches and any    *)
(* number of crashes and outside moves.                                       *)
EXTENDS Workspace, TLAPS

\* The tuples of variables an action leaves alone.
USE DEF lockVars, podmanVars, gitVars

-----------------------------------------------------------------------------

Container == [owner : Attempt, kind : {"prep", "idle", "agent"}]

\* What a podman command may start is a container of an attempt.
LEMMA ContainerType ==
  ASSUME NEW a \in Attempt
  PROVE Prep(a) \in Container /\ Idle(a) \in Container /\ Agent(a) \in Container
BY DEF Container, Prep, Idle, Agent

\* Every step of the sandbox, of an agent, of the others and of the host keeps
\* the types.
LEMMA TypeStep == ASSUME WorkspaceTypeOK, [Next]_vars PROVE WorkspaceTypeOK'
<1> USE WorkspaceAssumption DEF WorkspaceTypeOK, Pc, Contribution, Commit, NoBranch
<1>1. ASSUME NEW a \in Attempt, AttemptNext(a) PROVE WorkspaceTypeOK'
  <2> USE DEF Goes
  <2>1. CASE Request(a)
    BY <2>1 DEF Request
  <2>2. CASE GiveUp(a)
    BY <2>2 DEF GiveUp
  <2>3. CASE Acquire(a)
    BY <2>3 DEF Acquire
  <2>4. CASE TeardownAgain(a)
    BY <2>4 DEF TeardownAgain, Unlock, Idle, Agent
  <2>5. CASE AgentWrites(a)
    BY <2>5 DEF AgentWrites, Agent
  <2>6. CASE AgentCommits(a)
    BY <2>6 DEF AgentCommits, Agent
  <2>7. CASE Hold(a)
    BY <2>7 DEF Hold
  <2>8. CASE Sweep(a)
    BY <2>8 DEF Sweep
  <2>9. CASE SweepFails(a)
    BY <2>9 DEF SweepFails, Unlock
  <2>10. CASE Checkout(a)
    BY <2>10 DEF Checkout, StartPoint
  <2>11. CASE CheckoutHead(a)
    BY <2>11 DEF CheckoutHead
  <2>12. CASE CheckoutFails(a)
    BY <2>12 DEF CheckoutFails, Unlock
  <2>13. CASE Warm(a)
    BY <2>13, ContainerType DEF Container, Warm
  <2>14. CASE WarmDone(a)
    BY <2>14, ContainerType DEF Container, WarmDone
  <2>15. CASE WarmFails(a)
    BY <2>15, ContainerType DEF Container, WarmFails, Unlock
  <2>16. CASE Start(a)
    BY <2>16, ContainerType DEF Container, Start
  <2>17. CASE StartFails(a)
    <3>1. containers' \in SUBSET Container
      BY <2>17, ContainerType DEF Container, StartFails
    <3> QED BY <2>17, <3>1 DEF Container, StartFails, Unlock
  <2>18. CASE Dial(a)
    BY <2>18, ContainerType DEF Container, Dial
  <2>19. CASE DialFails(a)
    BY <2>19 DEF DialFails
  <2>20. CASE RunEnds(a)
    BY <2>20 DEF RunEnds
  <2>21. CASE RunPanics(a)
    BY <2>21 DEF RunPanics
  <2>22. CASE EndAgentPhase(a)
    BY <2>22 DEF EndAgentPhase
  <2>23. CASE EndAgentPhaseFails(a)
    BY <2>23 DEF EndAgentPhaseFails
  <2>24. CASE CommitAll(a)
    BY <2>24 DEF CommitAll
  <2>25. CASE Push(a)
    BY <2>25 DEF Push, Pushed, LeaseHolds
  <2>26. CASE PushFails(a)
    BY <2>26 DEF PushFails, Pushed, LeaseHolds
  <2>27. CASE Report(a)
    BY <2>27 DEF Report
  <2>28. CASE HostGitFails(a)
    BY <2>28 DEF HostGitFails
  <2>29. CASE TeardownRemoves(a)
    BY <2>29 DEF TeardownRemoves, Idle, Agent
  <2>30. CASE TeardownUnlocks(a)
    BY <2>30 DEF TeardownUnlocks, Unlock
  <2> HIDE DEF WorkspaceTypeOK, Pc, Contribution, Commit, NoBranch, Goes
  <2> QED
    BY <1>1, <2>1, <2>2, <2>3, <2>4, <2>5, <2>6, <2>7, <2>8, <2>9, <2>10, <2>11, <2>12, <2>13, <2>14, <2>15,
       <2>16, <2>17, <2>18, <2>19, <2>20, <2>21, <2>22, <2>23, <2>24, <2>25, <2>26, <2>27, <2>28, <2>29, <2>30
    DEF AttemptNext, Proceed
<1>2. CASE Crash
  <2>1. pc' \in [Attempt -> Pc]
    BY <1>2 DEF Crash
  <2>2. events' \in 0..MaxEvents
    BY <1>2 DEF Crash
  <2> QED BY <1>2, <2>1, <2>2 DEF Crash
<1>3. ASSUME NEW b \in Branch, OthersMove(b) PROVE WorkspaceTypeOK'
  BY <1>3 DEF OthersMove
<1>4. CASE UNCHANGED vars
  BY <1>4 DEF vars
<1> HIDE DEF WorkspaceTypeOK, Pc, Contribution, Commit, NoBranch
<1> QED BY <1>1, <1>2, <1>3, <1>4 DEF Next

\* Nothing was prepared yet: the types hold.
LEMMA TypeInit == ASSUME Init PROVE WorkspaceTypeOK
<1>1. {} \in Commit
  BY DEF Commit
<1>2. remote \in [Branch -> Commit \cup {NoBranch}]
  BY <1>1 DEF Init
<1>3. 0 \in 0..MaxEvents
  BY WorkspaceAssumption
<1> QED BY <1>1, <1>2, <1>3 DEF Init, WorkspaceTypeOK, Pc

\* Every variable of the workspace keeps its type: the branch a push publishes
\* is a commit, never the mark of an absent branch.
THEOREM TypeCorrect == Spec => []WorkspaceTypeOK
BY TypeInit, TypeStep, PTL DEF Spec

-----------------------------------------------------------------------------

\* The lock: who is inside is alone, holds the channel and, once it has written
\* its lease, is the holder; a lease is only ever that of somebody inside.
LockInv ==
    /\ \A a, b \in Inside : a = b
    /\ \A a \in Inside : locked /\ (pc[a] # "acquired" => holder = a)
    /\ holder # Nobody => holder \in Inside /\ pc[holder] # "acquired"

\* lock and unlock keep LockInv, a Teardown called again with an old lease
\* included.
LEMMA LockStep == ASSUME WorkspaceTypeOK, LockInv, [Next]_vars PROVE LockInv'
<1> USE WorkspaceAssumption DEF LockInv, Inside, WorkspaceTypeOK
<1>1. ASSUME NEW a \in Attempt, AttemptNext(a) PROVE LockInv'
  <2> USE DEF Goes
  <2>1. CASE GiveUp(a) \/ Request(a) \/ AgentWrites(a) \/ AgentCommits(a)
    BY <2>1 DEF GiveUp, Request, AgentWrites, AgentCommits
  <2>2. CASE Acquire(a) \/ Hold(a)
    BY <2>2 DEF Acquire, Hold
  <2>3. CASE Sweep(a) \/ Checkout(a) \/ CheckoutHead(a) \/ Warm(a) \/ WarmDone(a) \/
             Start(a) \/ Dial(a) \/ DialFails(a)
    BY <2>3 DEF Sweep, Checkout, CheckoutHead, Warm, WarmDone, Start, Dial, DialFails
  <2>4. CASE RunEnds(a) \/ RunPanics(a) \/ EndAgentPhase(a) \/ EndAgentPhaseFails(a) \/
             CommitAll(a) \/ Push(a) \/ PushFails(a) \/ Report(a) \/ HostGitFails(a) \/
             TeardownRemoves(a)
    BY <2>4 DEF RunEnds, RunPanics, EndAgentPhase, EndAgentPhaseFails, CommitAll, Push,
         PushFails, Report, HostGitFails, TeardownRemoves
  <2>5. CASE SweepFails(a) \/ CheckoutFails(a) \/ WarmFails(a) \/ StartFails(a) \/
             TeardownUnlocks(a)
    BY <2>5 DEF SweepFails, CheckoutFails, WarmFails, StartFails, TeardownUnlocks,
         Unlock
  <2>6. CASE TeardownAgain(a)
    BY <2>6 DEF TeardownAgain, Unlock
  <2> HIDE DEF LockInv, Inside, WorkspaceTypeOK, Goes
  <2> QED BY <1>1, <2>1, <2>2, <2>3, <2>4, <2>5, <2>6 DEF AttemptNext, Proceed
<1>2. CASE Crash
  BY <1>2 DEF Crash
<1>3. ASSUME NEW b \in Branch, OthersMove(b) PROVE LockInv'
  BY <1>3 DEF OthersMove
<1>4. CASE UNCHANGED vars
  BY <1>4 DEF vars
<1> HIDE DEF LockInv, Inside, WorkspaceTypeOK
<1> QED BY <1>1, <1>2, <1>3, <1>4 DEF Next

-----------------------------------------------------------------------------

\* What may be on the workspace at each step of the attempt that has it.
ContainerInv ==
    /\ OneContainer
    /\ \A a \in Attempt :
        /\ pc[a] \in HostGit \cup {"warm", "starting"} => containers = {}
        /\ pc[a] = "warming" => containers \subseteq {Prep(a)}
        /\ pc[a] = "dialing" => containers \subseteq {Idle(a)}
        /\ pc[a] \in {"working", "ending"} => containers \subseteq {Agent(a)}

\* sweepContainers and endAgentPhase keep ContainerInv: what a failed command
\* or a dead daemon left is gone before the next git command or container.
LEMMA ContainerStep == ASSUME WorkspaceTypeOK, LockInv, ContainerInv, [Next]_vars PROVE ContainerInv'
<1> USE WorkspaceAssumption DEF ContainerInv, OneContainer, HostGit, LockInv, Inside, WorkspaceTypeOK
<1>1. ASSUME NEW a \in Attempt, AttemptNext(a) PROVE ContainerInv'
  <2> USE DEF Goes
  <2>1. CASE Request(a) \/ GiveUp(a) \/ Acquire(a) \/ Hold(a) \/ AgentWrites(a) \/
             AgentCommits(a)
    BY <2>1 DEF Request, GiveUp, Acquire, Hold, AgentWrites, AgentCommits
  <2>2. CASE Sweep(a) \/ SweepFails(a) \/ CheckoutFails(a)
    BY <2>2 DEF Sweep, SweepFails, CheckoutFails, Unlock
  <2>3. CASE Checkout(a) \/ CheckoutHead(a)
    BY <2>3 DEF Checkout, CheckoutHead, StartPoint
  <2>4. CASE Warm(a) \/ WarmDone(a) \/ WarmFails(a)
    BY <2>4 DEF Warm, WarmDone, WarmFails, Unlock
  <2>5. CASE Start(a) \/ StartFails(a) \/ Dial(a) \/ DialFails(a)
    BY <2>5 DEF Start, StartFails, Dial, DialFails, Unlock
  <2>6. CASE RunEnds(a) \/ RunPanics(a) \/ EndAgentPhase(a) \/ EndAgentPhaseFails(a)
    BY <2>6 DEF RunEnds, RunPanics, EndAgentPhase, EndAgentPhaseFails
  <2>7. CASE CommitAll(a) \/ Push(a) \/ PushFails(a) \/ Report(a) \/ HostGitFails(a)
    BY <2>7 DEF CommitAll, Push, PushFails, Report, HostGitFails, LeaseHolds, Pushed
  <2>8. CASE TeardownRemoves(a) \/ TeardownUnlocks(a) \/ TeardownAgain(a)
    BY <2>8 DEF TeardownRemoves, TeardownUnlocks, TeardownAgain, Unlock
  <2> HIDE DEF ContainerInv, OneContainer, HostGit, LockInv, Inside, WorkspaceTypeOK, Goes
  <2> QED BY <1>1, <2>1, <2>2, <2>3, <2>4, <2>5, <2>6, <2>7, <2>8 DEF AttemptNext, Proceed
<1>2. CASE Crash
  BY <1>2 DEF Crash
<1>3. ASSUME NEW b \in Branch, OthersMove(b) PROVE ContainerInv'
  BY <1>3 DEF OthersMove
<1>4. CASE UNCHANGED vars
  BY <1>4 DEF vars
<1> HIDE DEF ContainerInv, OneContainer, HostGit, LockInv, Inside, WorkspaceTypeOK
<1> QED BY <1>1, <1>2, <1>3, <1>4 DEF Next

\* What the attempt found on the remote branch it still has: in the working tree,
\* and from the commit on in the branch.
KeptInv ==
    \A a \in Attempt :
        /\ pc[a] \in {"warm", "warming", "starting", "dialing", "working", "ending", "committing"}
              => remoteHead[a] = NoBranch \/ remoteHead[a] \ {Markers} \subseteq tree
        /\ pc[a] = "pushing"
              => remoteHead[a] = NoBranch \/ remoteHead[a] \ {Markers} \subseteq local[BranchOf[a]]

\* The checkout, the agent's edits and the final commit keep what the fetch saw
\* on the branch.
LEMMA KeptStep == ASSUME WorkspaceTypeOK, LockInv, ContainerInv, KeptInv, [Next]_vars PROVE KeptInv'
<1> USE WorkspaceAssumption DEF KeptInv, ContainerInv, HostGit, LockInv, Inside, WorkspaceTypeOK
<1>1. ASSUME NEW a \in Attempt, AttemptNext(a) PROVE KeptInv'
  <2> USE DEF Goes
  <2>1. CASE Request(a) \/ GiveUp(a) \/ Acquire(a) \/ Hold(a) \/ AgentWrites(a) \/
             AgentCommits(a)
    BY <2>1 DEF Request, GiveUp, Acquire, Hold, AgentWrites, AgentCommits
  <2>2. CASE Sweep(a) \/ SweepFails(a) \/ CheckoutFails(a)
    BY <2>2 DEF Sweep, SweepFails, CheckoutFails, Unlock
  <2>3. CASE Checkout(a) \/ CheckoutHead(a)
    BY <2>3 DEF Checkout, CheckoutHead, StartPoint
  <2>4. CASE Warm(a) \/ WarmDone(a) \/ WarmFails(a)
    BY <2>4 DEF Warm, WarmDone, WarmFails, Unlock
  <2>5. CASE Start(a) \/ StartFails(a) \/ Dial(a) \/ DialFails(a)
    BY <2>5 DEF Start, StartFails, Dial, DialFails, Unlock
  <2>6. CASE RunEnds(a) \/ RunPanics(a) \/ EndAgentPhase(a) \/ EndAgentPhaseFails(a)
    BY <2>6 DEF RunEnds, RunPanics, EndAgentPhase, EndAgentPhaseFails
  <2>7. CASE CommitAll(a) \/ Push(a) \/ PushFails(a) \/ Report(a) \/ HostGitFails(a)
    BY <2>7 DEF CommitAll, Push, PushFails, Report, HostGitFails, LeaseHolds, Pushed
  <2>8. CASE TeardownRemoves(a) \/ TeardownUnlocks(a) \/ TeardownAgain(a)
    BY <2>8 DEF TeardownRemoves, TeardownUnlocks, TeardownAgain, Unlock
  <2> HIDE DEF KeptInv, ContainerInv, HostGit, LockInv, Inside, WorkspaceTypeOK, Goes
  <2> QED BY <1>1, <2>1, <2>2, <2>3, <2>4, <2>5, <2>6, <2>7, <2>8 DEF AttemptNext, Proceed
<1>2. CASE Crash
  BY <1>2 DEF Crash
<1>3. ASSUME NEW b \in Branch, OthersMove(b) PROVE KeptInv'
  BY <1>3 DEF OthersMove
<1>4. CASE UNCHANGED vars
  BY <1>4 DEF vars
<1> HIDE DEF KeptInv, ContainerInv, HostGit, LockInv, Inside, WorkspaceTypeOK
<1> QED BY <1>1, <1>2, <1>3, <1>4 DEF Next

WorkspaceInv == WorkspaceTypeOK /\ LockInv /\ ContainerInv /\ KeptInv

\* The inductive invariant: the lock, the containers and the branches together,
\* whatever fails in Prepare, CommitAndPush and Teardown.
THEOREM Invariant == Spec => []WorkspaceInv
<1>1. Init => WorkspaceInv
  <2> SUFFICES ASSUME Init PROVE WorkspaceInv
    OBVIOUS
  <2>1. LockInv
    BY DEF Init, LockInv, Inside
  <2>2. ContainerInv
    BY DEF Init, ContainerInv, OneContainer, HostGit
  <2>3. KeptInv
    BY DEF Init, KeptInv
  <2> QED BY <2>1, <2>2, <2>3, TypeInit DEF WorkspaceInv
<1>2. WorkspaceInv /\ [Next]_vars => WorkspaceInv'
  BY TypeStep, LockStep, ContainerStep, KeptStep DEF WorkspaceInv
<1> QED BY <1>1, <1>2, PTL DEF Spec

-----------------------------------------------------------------------------

\* cacheVolumes relies on it: one container at a time on a workspace.
THEOREM Sole == Spec => []OneContainer
<1>1. WorkspaceInv => OneContainer
  BY DEF WorkspaceInv, ContainerInv
<1> QED BY <1>1, Invariant, PTL

\* The daemon's own git commands never meet a container: sweepContainers before
\* the checkout, endAgentPhase before the commit.
THEOREM GitAlone == Spec => []HostGitAlone
<1>1. WorkspaceInv => HostGitAlone
  BY DEF WorkspaceInv, ContainerInv, HostGitAlone, HostGit
<1> QED BY <1>1, Invariant, PTL

\* While an attempt's agent works, no other attempt's call to the sandbox
\* changes the containers, the branches or the working tree.
THEOREM Undisturbed == Spec => AgentUndisturbed
<1> DEFINE Quiet == \A a, b \in Attempt :
             pc[a] = "working" /\ pc'[b] # pc[b] /\ b # a => UNCHANGED <<containers, local, tree>>
<1>1. WorkspaceInv /\ [Next]_vars => [Quiet]_vars
  <2> SUFFICES ASSUME WorkspaceInv, Next,
                      NEW a \in Attempt, NEW b \in Attempt,
                      pc[a] = "working", pc'[b] # pc[b], b # a
               PROVE  UNCHANGED <<containers, local, tree>>
    BY DEF Quiet
  <2> USE DEF WorkspaceInv, WorkspaceTypeOK, LockInv, Inside
  <2>1. ASSUME NEW c \in Attempt, AttemptNext(c) PROVE UNCHANGED <<containers, local, tree>>
    <3>1. CASE Request(c) \/ GiveUp(c) \/ Acquire(c)
      BY <3>1 DEF Request, GiveUp, Acquire
    <3>2. CASE TeardownAgain(c) \/ AgentWrites(c) \/ AgentCommits(c)
      BY <3>2 DEF TeardownAgain, AgentWrites, AgentCommits
    <3>3. CASE Proceed(c)
      <4>1. c \in Inside
        <5> USE DEF Goes
        <5> HIDE DEF WorkspaceInv, LockInv
        <5>1. CASE Hold(c) \/ Sweep(c) \/ SweepFails(c) \/ Checkout(c) \/ CheckoutHead(c) \/
                   CheckoutFails(c) \/ Warm(c) \/ WarmDone(c) \/ WarmFails(c) \/ Start(c) \/ StartFails(c)
          BY <5>1 DEF Hold, Sweep, SweepFails, Checkout, CheckoutHead, CheckoutFails, Warm,
               WarmDone, WarmFails, Start, StartFails
        <5>2. CASE Dial(c) \/ DialFails(c) \/ RunEnds(c) \/ RunPanics(c) \/ EndAgentPhase(c) \/
                   EndAgentPhaseFails(c) \/ CommitAll(c) \/ Push(c) \/ PushFails(c) \/ Report(c) \/
                   HostGitFails(c) \/ TeardownRemoves(c) \/ TeardownUnlocks(c)
          BY <5>2 DEF Dial, DialFails, RunEnds, RunPanics, EndAgentPhase, EndAgentPhaseFails,
               CommitAll, Push, PushFails, Report, HostGitFails, TeardownRemoves, TeardownUnlocks
        <5> QED BY <3>3, <5>1, <5>2 DEF Proceed
      <4>2. c = a
        BY <4>1
      <4>3. pc' = [pc EXCEPT ![c] = pc'[c]]
        BY <3>3 DEF Proceed, Goes, Hold, Sweep, SweepFails, Checkout, CheckoutHead,
           CheckoutFails, Warm, WarmDone, WarmFails, Start, StartFails, Dial, DialFails, RunEnds,
           RunPanics, EndAgentPhase, EndAgentPhaseFails, CommitAll, Push, PushFails, Report,
           HostGitFails, TeardownRemoves, TeardownUnlocks
      <4> QED BY <4>2, <4>3
    <3> QED BY <2>1, <3>1, <3>2, <3>3 DEF AttemptNext
  <2>2. CASE Crash
    BY <2>2 DEF Crash
  <2>3. ASSUME NEW d \in Branch, OthersMove(d) PROVE FALSE
    BY <2>3 DEF OthersMove
  <2> QED BY <2>1, <2>2, <2>3 DEF Next
<1> QED BY <1>1, Invariant, PTL DEF Spec, AgentUndisturbed

\* --force-with-lease together with the replayed branch: a push of
\* CommitAndPush keeps what the branch has, markers aside.
THEOREM PushKeeps == Spec => PushOnlyAdds
<1> DEFINE Adds == \A a \in Attempt :
          LET b == BranchOf[a]
          IN  pc[a] = "pushing" /\ pc'[a] # "pushing" /\ remote'[b] # remote[b] /\ remote[b] # NoBranch
                  => remote[b] \ {Markers} \subseteq remote'[b]
<1>1. WorkspaceInv /\ [Next]_vars => [Adds]_vars
  <2> SUFFICES ASSUME WorkspaceInv, Next, NEW a \in Attempt, pc[a] = "pushing", pc'[a] # "pushing",
                      remote'[BranchOf[a]] # remote[BranchOf[a]], remote[BranchOf[a]] # NoBranch
               PROVE  remote[BranchOf[a]] \ {Markers} \subseteq remote'[BranchOf[a]]
    BY DEF Adds
  <2>1. ASSUME NEW c \in Attempt, AttemptNext(c) PROVE remote[BranchOf[a]] \ {Markers} \subseteq remote'[BranchOf[a]]
    <3>1. Push(c) \/ PushFails(c)
      <4>1. CASE Request(c) \/ GiveUp(c) \/ Acquire(c) \/ TeardownAgain(c) \/ AgentWrites(c) \/ AgentCommits(c)
        BY <4>1 DEF Request, GiveUp, Acquire, TeardownAgain, AgentWrites, AgentCommits
      <4>2. CASE Hold(c) \/ Sweep(c) \/ SweepFails(c) \/ Checkout(c) \/ CheckoutHead(c) \/
                 CheckoutFails(c) \/ Warm(c) \/ WarmDone(c) \/ WarmFails(c) \/ Start(c) \/ StartFails(c)
        BY <4>2 DEF Hold, Sweep, SweepFails, Checkout, CheckoutHead, CheckoutFails, Warm,
             WarmDone, WarmFails, Start, StartFails
      <4>3. CASE Dial(c) \/ DialFails(c) \/ RunEnds(c) \/ RunPanics(c) \/ EndAgentPhase(c) \/
                 EndAgentPhaseFails(c) \/ CommitAll(c) \/ Report(c) \/
                 HostGitFails(c) \/ TeardownRemoves(c) \/ TeardownUnlocks(c)
        BY <4>3 DEF Dial, DialFails, RunEnds, RunPanics, EndAgentPhase, EndAgentPhaseFails,
             CommitAll, Report, HostGitFails, TeardownRemoves, TeardownUnlocks
      <4> QED BY <2>1, <4>1, <4>2, <4>3 DEF AttemptNext, Proceed
    <3>2. pc[c] = "pushing" /\ remote' \in {remote, Pushed(c)} /\ remote[BranchOf[c]] = remoteHead[c]
      BY <3>1 DEF Push, PushFails, Goes, LeaseHolds
    <3>3. c = a
      BY <3>2 DEF WorkspaceInv, LockInv, Inside
    <3>4. remote'[BranchOf[a]] = local[BranchOf[a]]
      BY <3>2, <3>3, WorkspaceAssumption DEF Pushed, WorkspaceInv, WorkspaceTypeOK
    <3> QED BY <3>2, <3>3, <3>4 DEF WorkspaceInv, KeptInv
  <2>2. CASE Crash
    BY <2>2 DEF Crash
  <2>3. ASSUME NEW d \in Branch, OthersMove(d) PROVE FALSE
    BY <2>3 DEF OthersMove
  <2> QED BY <2>1, <2>2, <2>3 DEF Next
<1> QED BY <1>1, Invariant, PTL DEF Spec, PushOnlyAdds

-----------------------------------------------------------------------------

\* Who is inside changes by one attempt only: every call of the sandbox moves
\* its own attempt.
LEMMA InsideStep ==
  ASSUME WorkspaceInv, NEW a \in Attempt, AttemptNext(a)
  PROVE  Inside' = Inside \/ (Inside = {} /\ Inside' = {a}) \/ (Inside = {a} /\ Inside' = {})
<1> USE DEF WorkspaceInv, WorkspaceTypeOK, LockInv, Inside, Goes
<1>1. CASE Request(a) \/ GiveUp(a) \/ TeardownAgain(a) \/ AgentWrites(a) \/ AgentCommits(a)
  BY <1>1 DEF Request, GiveUp, TeardownAgain, AgentWrites, AgentCommits
<1>2. CASE Acquire(a)
  BY <1>2 DEF Acquire
<1>3. CASE Hold(a) \/ Sweep(a) \/ Checkout(a) \/ CheckoutHead(a) \/ Warm(a) \/ WarmDone(a) \/ Start(a) \/
           Dial(a) \/ DialFails(a) \/ RunEnds(a) \/ RunPanics(a)
  BY <1>3 DEF Hold, Sweep, Checkout, CheckoutHead, Warm, WarmDone, Start, Dial, DialFails, RunEnds, RunPanics
<1>4. CASE EndAgentPhase(a) \/ EndAgentPhaseFails(a) \/ CommitAll(a) \/ Push(a) \/ PushFails(a) \/
           Report(a) \/ HostGitFails(a) \/ TeardownRemoves(a)
  BY <1>4 DEF EndAgentPhase, EndAgentPhaseFails, CommitAll, Push, PushFails, Report, HostGitFails,
     TeardownRemoves
<1>5. CASE SweepFails(a) \/ CheckoutFails(a) \/ WarmFails(a) \/ StartFails(a) \/ TeardownUnlocks(a)
  <2>1. pc[a] \notin {"idle", "waiting", "done", "torn"}
    BY <1>5 DEF SweepFails, CheckoutFails, WarmFails, StartFails, TeardownUnlocks
  <2>2. pc' \in {[pc EXCEPT ![a] = "done"], [pc EXCEPT ![a] = "torn"]}
    BY <1>5 DEF SweepFails, CheckoutFails, WarmFails, StartFails, TeardownUnlocks
  <2> QED BY <2>1, <2>2
<1> QED BY <1>1, <1>2, <1>3, <1>4, <1>5 DEF AttemptNext, Proceed

\* The lock with its leases, the failures, the late Teardowns and the restarts
\* implement exclusion: one attempt has the workspace until it leaves.
THEOREM Implements == Spec => ImplementsExclusion
<1>1. Init => Turns!Init
  BY DEF Init, Turns!Init, Inside
<1>2. WorkspaceInv /\ [Next]_vars => [Turns!Next]_Inside
  <2> SUFFICES ASSUME WorkspaceInv, [Next]_vars PROVE Turns!Next \/ UNCHANGED Inside
    OBVIOUS
  <2>1. ASSUME NEW a \in Attempt, AttemptNext(a) PROVE Turns!Next \/ UNCHANGED Inside
    BY <2>1, InsideStep DEF Turns!Next, Turns!Enter, Turns!Leave
  <2>2. CASE Crash
    <3>1. Inside' = {}
      BY <2>2 DEF Crash, Inside
    <3> QED BY <3>1 DEF Turns!Next, Turns!Leave
  <2>3. ASSUME NEW b \in Branch, OthersMove(b) PROVE Turns!Next \/ UNCHANGED Inside
    BY <2>3 DEF OthersMove, Inside
  <2>4. CASE UNCHANGED vars
    BY <2>4 DEF vars, Inside
  <2> QED BY <2>1, <2>2, <2>3, <2>4 DEF Next
<1> QED BY <1>1, <1>2, Invariant, PTL DEF Spec, ImplementsExclusion, Turns!ExclusionSpec

-----------------------------------------------------------------------------
\* An issue's attempt measures its work from the default branch.
FromDefault == \A a \in Attempt \ Round : base[a] = {}

\* A step that reports an attempt's branch is that attempt's own.
LEMMA ReportEffect ==
  ASSUME WorkspaceTypeOK, Next, NEW a \in Attempt, answer'[a] # answer[a]
  PROVE  Report(a)
<1> SUFFICES ASSUME UNCHANGED answer \/ \E b \in Attempt : Report(b) PROVE Report(a)
  BY DEF Next, AttemptNext, Proceed, Request, GiveUp, Acquire, Hold, Sweep, SweepFails, Checkout,
     CheckoutHead, CheckoutFails, Warm, WarmDone, WarmFails, Start, StartFails, Dial, DialFails,
     RunEnds, RunPanics, EndAgentPhase, EndAgentPhaseFails, CommitAll, Push, PushFails, HostGitFails,
     TeardownRemoves, TeardownUnlocks, TeardownAgain, AgentWrites, AgentCommits, Crash, OthersMove
<1>1. PICK b \in Attempt : Report(b)
  OBVIOUS
<1> QED
  BY <1>1 DEF Report, WorkspaceTypeOK

\* No pull request of an issue's attempt carries conflict markers: neither its
\* own nor those an earlier attempt pushed to the branch.
THEOREM NoMarkers == Spec => NoMarkersReported
<1>1. Init => FromDefault
  BY DEF Init, FromDefault
<1>2. ASSUME WorkspaceInv, FromDefault, [Next]_vars PROVE FromDefault'
  <2>1. CASE UNCHANGED base
    BY <1>2, <2>1 DEF FromDefault
  <2>2. ASSUME NEW a \in Attempt, Request(a) PROVE FromDefault'
    BY <1>2, <2>2 DEF Request, FromDefault, WorkspaceInv, WorkspaceTypeOK
  <2> QED
    BY <1>2, <2>1, <2>2
    DEF Next, AttemptNext, Proceed, GiveUp, Acquire, Hold, Sweep, SweepFails, Checkout,
        CheckoutHead, CheckoutFails, Warm, WarmDone, WarmFails, Start, StartFails, Dial, DialFails,
        RunEnds, RunPanics, EndAgentPhase, EndAgentPhaseFails, CommitAll, Push, PushFails, Report,
        HostGitFails, TeardownRemoves, TeardownUnlocks, TeardownAgain, AgentWrites, AgentCommits,
        Crash, OthersMove, gitVars, vars
<1>3. ASSUME WorkspaceInv, FromDefault, [Next]_vars
      PROVE  [\A a \in Attempt \ Round :
                 answer'[a] # answer[a] => Markers \notin local[BranchOf[a]]]_vars
  <2> SUFFICES ASSUME Next, NEW a \in Attempt \ Round, answer'[a] # answer[a]
               PROVE  Markers \notin local[BranchOf[a]]
    BY <1>3
  <2>1. Report(a)
    BY <1>3, ReportEffect DEF WorkspaceInv
  <2> QED
    BY <1>3, <2>1 DEF Report, Reportable, FromDefault
<1> QED
  BY <1>1, <1>2, <1>3, Invariant, PTL DEF Spec, NoMarkersReported
=============================================================================
