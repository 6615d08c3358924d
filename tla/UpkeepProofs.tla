---------------------------- MODULE UpkeepProofs ----------------------------
(***************************************************************************)
(* Theorems about the bumps of Bump and the daemon of Upkeep, for any set  *)
(* of pull requests, any finite set of commits, any cap and any number of  *)
(* restarts and failures.                                                  *)
(*                                                                         *)
(* First the aggregate: the invariants the runs check are inductive        *)
(* together, once it is known that the log of rounds fills up from the     *)
(* front (Shape).  Then the daemon, whose every step is a command of the   *)
(* aggregate or none.  Its steps fall into four kinds (Bystander, Opening, *)
(* Ending, Moving) beside the process's own; each kind's effect on bumps   *)
(* and runners is stated once, and the parts of the invariant are carried  *)
(* over the kinds.                                                         *)
(***************************************************************************)
EXTENDS Upkeep, FiniteSetTheorems, TLAPS

-----------------------------------------------------------------------------
\* The aggregate.

\* The log of rounds fills up from the front.
Shape == \A p \in Pull, n \in Round : n > rounds[p] => round[p][n] = "none"

BumpInv ==
    /\ TypeOK
    /\ Shape
    /\ Loadable
    /\ CapHolds
    /\ RepairingHasRound

\* RoundsAreJustified as an account: the rounds opened or waited for, and what
\* pays for them.
Debit(p) == rounds[p] + (IF state[p] = "queued" THEN 1 ELSE 0)

Credit(p) ==
    Cardinality(FailedHeads(p)) + grants[p] + Cardinality(Requeued(p))
        + (IF Restarted(p) THEN 1 ELSE 0)

Balanced(p) == Debit(p) <= Credit(p)

-----------------------------------------------------------------------------

\* A bump below its cap has a number left for one more round.
LEMMA BelowCap ==
  ASSUME TypeOK, NEW p \in Pull, rounds[p] < Cap(p)
  PROVE  rounds[p] \in Nat /\ rounds[p] + 1 \in Round
<1>1. rounds[p] \in Round \cup {0} /\ grants[p] \in 0..MaxRetries
  BY DEF TypeOK
<1>2. rounds[p] \in Nat /\ grants[p] \in Nat /\ grants[p] <= MaxRetries
  BY <1>1, BumpAssumption DEF Round
<1>3. rounds[p] + 1 <= RoundCap + MaxRetries
  BY <1>2, BumpAssumption DEF Cap
<1> QED
  BY <1>2, <1>3, BumpAssumption DEF Round

\* Where an outcome sends a repairing bump: it abandons exactly with a reason,
\* and requeues only below the cap, for the infrastructure or a first restart.
LEMMA OutcomeMoveResult ==
  ASSUME NEW p \in Pull, NEW n \in Round, NEW o \in Outcome
  PROVE  LET to == OutcomeMove(p, n, o)
         IN  /\ to[1] \in {"awaiting_checks", "queued", "abandoned"}
             /\ to[2] \in Reason \cup {"none"}
             /\ to[1] = "abandoned" <=> to[2] # "none"
             /\ to[1] = "queued" =>
                  /\ rounds[p] < Cap(p)
                  /\ \/ o \in {"failed_infra", "pull_request_closed"}
                     \/ o = "daemon_restart" /\ ~RestartedBefore(p, n)
BY DEF OutcomeMove, FailureMove, Outcome, Reason

\* The round a command reaches is the latest one.
LEMMA TargetIsLatest ==
  ASSUME BumpInv, NEW p \in Pull, NEW n \in Round, IsTarget(p, n)
  PROVE  n = rounds[p] /\ OpenRounds(p) = {n}
BY DEF BumpInv, RepairingHasRound, IsTarget, OpenRounds

-----------------------------------------------------------------------------

\* The initial states: no bump, no fact.
LEMMA InitInv == Init => BumpInv
<1> SUFFICES ASSUME Init PROVE BumpInv
  OBVIOUS
<1> USE BumpAssumption
<1>1. TypeOK
  BY DEF Init, TypeOK
<1>2. \A p \in Pull : OpenRounds(p) = {}
  BY DEF Init, OpenRounds, IsOpen, Open
<1>3. Shape /\ Loadable /\ CapHolds /\ RepairingHasRound
  BY <1>2 DEF Init, Shape, Loadable, CapHolds, Cap, RepairingHasRound
<1> QED
  BY <1>1, <1>3 DEF BumpInv

\* The commands that only move the state of a bump without an abandonment, and
\* never into the queue, a repair or an abandonment.
LEMMA MoveInv ==
  ASSUME BumpInv, NEW p \in Pull, NEW to \in {"awaiting_checks", "green", "closed"},
         to # "closed" => abandonment[p] = "none",
         state' = [state EXCEPT ![p] = to],
         head' \in [Pull -> Sha \cup {NoSha}],
         verdict' \in [Pull -> [Sha -> Conclusion \cup {"none"}]],
         UNCHANGED <<rounds, base, round, grants, abandonment>>
  PROVE  BumpInv'
<1> USE DEF BumpInv
<1>1. TypeOK'
  BY DEF TypeOK, BumpState
<1>2. \A q \in Pull : OpenRounds(q)' = OpenRounds(q) /\ Cap(q)' = Cap(q)
  BY DEF OpenRounds, IsOpen, Cap
<1>3. Shape' /\ CapHolds' /\ RepairingHasRound'
  BY <1>2 DEF TypeOK, Shape, CapHolds, RepairingHasRound
<1>4. Loadable'
  BY <1>2 DEF TypeOK, Loadable
<1> QED
  BY <1>1, <1>3, <1>4

\* NewBump opens a bump that waits for its checks.
LEMMA NewBumpInv == ASSUME BumpInv, NEW p \in Pull, NEW s \in Sha, NewBump(p, s) PROVE BumpInv'
<1>1. abandonment[p] = "none" /\ head' \in [Pull -> Sha \cup {NoSha}]
  BY DEF BumpInv, Loadable, TypeOK, NewBump
<1> QED
  BY <1>1, MoveInv DEF BumpInv, TypeOK, NewBump

\* RecordVerdict queues below the cap and abandons, with a reason, at it.
LEMMA RecordVerdictInv ==
  ASSUME BumpInv, NEW p \in Pull, NEW s \in Sha, NEW c \in Conclusion, RecordVerdict(p, s, c)
  PROVE  BumpInv'
<1> USE DEF BumpInv, RecordVerdict, FailureMove
<1>1. TypeOK'
  BY DEF TypeOK, BumpState, Reason
<1>2. \A q \in Pull : OpenRounds(q)' = OpenRounds(q) /\ Cap(q)' = Cap(q)
  BY DEF OpenRounds, IsOpen, Cap
<1>3. Shape' /\ CapHolds' /\ RepairingHasRound'
  BY <1>2 DEF TypeOK, Shape, CapHolds, RepairingHasRound
<1>4. Loadable'
  BY <1>2 DEF TypeOK, Loadable
<1> QED
  BY <1>1, <1>3, <1>4

\* AdvanceHead sends the bump back to its checks.
LEMMA AdvanceHeadInv ==
  ASSUME BumpInv, NEW p \in Pull, NEW s \in Sha, AdvanceHead(p, s) PROVE BumpInv'
<1>1. abandonment[p] = "none" /\ head' \in [Pull -> Sha \cup {NoSha}]
  BY DEF BumpInv, Loadable, TypeOK, AdvanceHead
<1> QED
  BY <1>1, MoveInv DEF BumpInv, TypeOK, AdvanceHead

\* StartRepair opens the one open round, within the cap.
LEMMA StartRepairInv == ASSUME BumpInv, NEW p \in Pull, StartRepair(p) PROVE BumpInv'
<1> USE DEF BumpInv, StartRepair
<1>1. rounds[p] \in Nat /\ rounds[p] + 1 \in Round
  BY BelowCap
<1>2. TypeOK'
  BY <1>1 DEF TypeOK, BumpState, Open
<1>3. \A q \in Pull : Cap(q)' = Cap(q)
  BY DEF Cap
<1>4. OpenRounds(p)' = {rounds[p] + 1}
  BY <1>1 DEF TypeOK, OpenRounds, IsOpen, Open
<1>5. \A q \in Pull \ {p} : OpenRounds(q)' = OpenRounds(q)
  BY DEF TypeOK, OpenRounds, IsOpen
<1>6. Shape'
  BY <1>1 DEF TypeOK, Shape, Round
<1>7. CapHolds'
  BY <1>1, <1>3, BumpAssumption DEF TypeOK, CapHolds, Cap
<1>8. RepairingHasRound'
  BY <1>4, <1>5 DEF TypeOK, RepairingHasRound
<1>9. Loadable'
  BY <1>4, <1>5 DEF TypeOK, Loadable
<1> QED
  BY <1>2, <1>6, <1>7, <1>8, <1>9

\* RecordRun: an open round stays open.
LEMMA RecordRunInv == ASSUME BumpInv, NEW p \in Pull, NEW n \in Round, RecordRun(p, n) PROVE BumpInv'
<1> USE DEF BumpInv, RecordRun
<1>1. TypeOK'
  BY DEF TypeOK, Open
<1>2. \A q \in Pull : OpenRounds(q)' = OpenRounds(q) /\ Cap(q)' = Cap(q)
  BY DEF TypeOK, OpenRounds, IsOpen, Open, Cap
<1>3. Shape' /\ CapHolds' /\ RepairingHasRound' /\ Loadable'
  BY <1>2 DEF TypeOK, Shape, CapHolds, RepairingHasRound, Loadable
<1> QED
  BY <1>1, <1>3

\* RecordOutcome ends the only open round, and moves the bump only if it is
\* repairing, which no abandoned or closed bump is.
LEMMA RecordOutcomeInv ==
  ASSUME BumpInv, NEW p \in Pull, NEW n \in Round, NEW o \in Outcome, NEW s \in Sha \cup {NoSha},
         RecordOutcome(p, n, o, s)
  PROVE  BumpInv'
<1> DEFINE to == OutcomeMove(p, n, o)
<1> USE DEF BumpInv, RecordOutcome
<1>1. /\ to[1] \in {"awaiting_checks", "queued", "abandoned"}
      /\ to[2] \in Reason \cup {"none"}
      /\ to[1] = "abandoned" <=> to[2] # "none"
      /\ to[1] = "queued" => rounds[p] < Cap(p)
  BY OutcomeMoveResult
<1>2. n = rounds[p] /\ OpenRounds(p) = {n}
  BY TargetIsLatest
<1> HIDE DEF to
<1>3. /\ state' = [state EXCEPT ![p] = IF @ = "repairing" THEN to[1] ELSE @]
      /\ abandonment' = [abandonment EXCEPT ![p] =
            IF state[p] = "repairing" /\ to[2] # "none" THEN to[2] ELSE @]
  BY DEF TypeOK, to
<1>4. TypeOK'
  BY <1>1, <1>3 DEF TypeOK, BumpState
<1>5. OpenRounds(p)' = {}
  BY <1>2 DEF TypeOK, OpenRounds, IsOpen, Open, Outcome
<1>6. \A q \in Pull \ {p} : OpenRounds(q)' = OpenRounds(q)
  BY DEF TypeOK, OpenRounds, IsOpen
<1>7. Shape'
  BY <1>2, BumpAssumption DEF TypeOK, Shape, Round
<1>8. CapHolds'
  BY <1>1, <1>3 DEF TypeOK, CapHolds, Cap
<1>9. RepairingHasRound'
  BY <1>1, <1>3, <1>5, <1>6 DEF TypeOK, RepairingHasRound
<1>10. Loadable'
  BY <1>1, <1>3, <1>5, <1>6 DEF TypeOK, Loadable
<1> QED
  BY <1>4, <1>7, <1>8, <1>9, <1>10

\* Abandon records the reason that made it.
LEMMA AbandonInv == ASSUME BumpInv, NEW p \in Pull, Abandon(p) PROVE BumpInv'
<1> USE DEF BumpInv, Abandon
<1>1. TypeOK'
  BY DEF TypeOK, BumpState, Reason
<1>2. \A q \in Pull : OpenRounds(q)' = OpenRounds(q) /\ Cap(q)' = Cap(q)
  BY DEF OpenRounds, IsOpen, Cap
<1>3. Shape' /\ CapHolds' /\ RepairingHasRound' /\ Loadable'
  BY <1>2 DEF TypeOK, Shape, CapHolds, RepairingHasRound, Loadable
<1> QED
  BY <1>1, <1>3

\* Retry: the granted round is what the queued bump waits for.
LEMMA RetryInv == ASSUME BumpInv, NEW p \in Pull, Retry(p) PROVE BumpInv'
<1> USE BumpAssumption DEF BumpInv, Retry
<1>1. TypeOK'
  BY DEF TypeOK, BumpState
<1>2. \A q \in Pull : OpenRounds(q)' = OpenRounds(q)
  BY DEF OpenRounds, IsOpen
<1>3. Cap(p)' = Cap(p) + 1 /\ \A q \in Pull \ {p} : Cap(q)' = Cap(q)
  BY DEF TypeOK, Cap
<1>4. Shape' /\ RepairingHasRound' /\ Loadable'
  BY <1>2 DEF TypeOK, Shape, RepairingHasRound, Loadable
<1>5. rounds[p] \in Nat /\ Cap(p) \in Nat
  BY DEF TypeOK, Cap, Round
<1>6. rounds[p] < Cap(p)'
  BY <1>3, <1>5 DEF CapHolds
<1>7. rounds[p] <= Cap(p)'
  BY <1>3, <1>5 DEF CapHolds
<1>8. CapHolds'
  BY <1>3, <1>6, <1>7 DEF TypeOK, CapHolds
<1> QED
  BY <1>1, <1>4, <1>8

\* Close: an open round and an abandonment may stay behind a closed bump.
LEMMA CloseInv == ASSUME BumpInv, NEW p \in Pull, Close(p) PROVE BumpInv'
BY MoveInv DEF BumpInv, TypeOK, Close

\* Every command preserves the invariant, and so does a step of somebody else.
LEMMA NextInv == BumpInv /\ [Next]_bumpVars => BumpInv'
<1> SUFFICES ASSUME BumpInv, [Next]_bumpVars PROVE BumpInv'
  OBVIOUS
<1>1. CASE Next
  BY <1>1, NewBumpInv, RecordVerdictInv, AdvanceHeadInv, StartRepairInv, RecordRunInv,
     RecordOutcomeInv, AbandonInv, RetryInv, CloseInv DEF Next
<1>2. CASE UNCHANGED bumpVars
  BY <1>2 DEF bumpVars, BumpInv, TypeOK, Shape, Loadable, CapHolds, Cap, RepairingHasRound,
     OpenRounds, IsOpen
<1> QED
  BY <1>1, <1>2

-----------------------------------------------------------------------------

\* The aggregate keeps its invariants, for any pull requests, commits and cap.
THEOREM BumpInvariant == BumpSpec => []BumpInv
BY InitInv, NextInv, PTL DEF BumpSpec

\* Type correctness of the aggregate's facts.
THEOREM TypeCorrect == BumpSpec => []TypeOK
<1>1. BumpInv => TypeOK
  BY DEF BumpInv
<1> QED
  BY <1>1, BumpInvariant, PTL

\* No sequence of commands writes a bump that LoadBump, or the next
\* abandonment's insert, would refuse.
THEOREM AlwaysLoadable == BumpSpec => []Loadable
<1>1. BumpInv => Loadable
  BY DEF BumpInv
<1> QED
  BY <1>1, BumpInvariant, PTL

\* The loop guard: no bump gets more rounds than its cap, or waits for one.
THEOREM Capped == BumpSpec => []CapHolds
<1>1. BumpInv => CapHolds
  BY DEF BumpInv
<1> QED
  BY <1>1, BumpInvariant, PTL

\* A repairing bump has its latest round open, and no bump any other.
THEOREM OneRound == BumpSpec => []RepairingHasRound
<1>1. BumpInv => RepairingHasRound
  BY DEF BumpInv
<1> QED
  BY <1>1, BumpInvariant, PTL

-----------------------------------------------------------------------------

\* The entries of the account are numbers.
LEMMA AccountType ==
  ASSUME TypeOK, NEW p \in Pull
  PROVE  /\ IsFiniteSet(FailedHeads(p)) /\ Cardinality(FailedHeads(p)) \in Nat
         /\ IsFiniteSet(Requeued(p)) /\ Cardinality(Requeued(p)) \in Nat
         /\ rounds[p] \in Nat /\ grants[p] \in Nat
<1>1. IsFiniteSet(Round)
  BY BumpAssumption, FS_Interval DEF Round
<1>2. IsFiniteSet(FailedHeads(p))
  <2>1. FailedHeads(p) \subseteq Sha
    BY DEF FailedHeads
  <2> QED
    BY <2>1, BumpAssumption, FS_Subset
<1>3. IsFiniteSet(Requeued(p))
  <2>1. Requeued(p) \subseteq Round
    BY DEF Requeued
  <2> QED
    BY <1>1, <2>1, FS_Subset
<1>4. rounds[p] \in Nat /\ grants[p] \in Nat
  BY BumpAssumption DEF TypeOK, Round
<1> QED
  BY <1>2, <1>3, <1>4, FS_CardinalityType

\* A step that leaves the facts of a bump alone, but for a round that is not
\* about to end and a state that does not become queued, leaves it balanced.
LEMMA StillBalanced ==
  ASSUME TypeOK, NEW p \in Pull, Balanced(p),
         FailedHeads(p)' = FailedHeads(p), Requeued(p)' = Requeued(p),
         Restarted(p) => Restarted(p)',
         rounds'[p] = rounds[p], grants'[p] = grants[p],
         state'[p] = "queued" => state[p] = "queued"
  PROVE  Balanced(p)'
BY AccountType DEF Balanced, Debit, Credit

\* One more head whose checks failed pays for one more round.
LEMMA RecordVerdictPays ==
  ASSUME BumpInv, NEW p \in Pull, NEW s \in Sha, NEW c \in Conclusion, RecordVerdict(p, s, c),
         Balanced(p)
  PROVE  Balanced(p)'
<1> USE DEF BumpInv, TypeOK, RecordVerdict
<1>1. Requeued(p)' = Requeued(p) /\ (Restarted(p)' <=> Restarted(p))
  BY DEF Requeued, Restarted
<1>2. CASE c = "success"
  <2>1. FailedHeads(p)' = FailedHeads(p)
    BY <1>2 DEF FailedHeads
  <2>2. state'[p] = "green"
    BY <1>2
  <2> QED
    BY <1>1, <2>1, <2>2, StillBalanced
<1>3. CASE c = "failure"
  <2>1. FailedHeads(p)' = FailedHeads(p) \cup {s} /\ s \notin FailedHeads(p)
    BY <1>3 DEF FailedHeads
  <2>2. Cardinality(FailedHeads(p)') = Cardinality(FailedHeads(p)) + 1
    <3> DEFINE failed == FailedHeads(p)
    <3>1. IsFiniteSet(failed)
      BY AccountType
    <3>2. failed' = failed \cup {s} /\ s \notin failed
      BY <2>1
    <3> HIDE DEF failed
    <3>3. Cardinality(failed \cup {s}) = Cardinality(failed) + 1
      BY <3>1, <3>2, FS_AddElement
    <3> QED
      BY <3>2, <3>3 DEF failed
  <2>3. state[p] # "queued" /\ rounds'[p] = rounds[p] /\ grants'[p] = grants[p]
    OBVIOUS
  <2> QED
    BY <1>1, <2>2, <2>3, AccountType DEF Balanced, Debit, Credit
<1> QED
  BY <1>2, <1>3 DEF Conclusion

\* The round a queued bump waited for is the round it gets.
LEMMA StartRepairPays ==
  ASSUME BumpInv, NEW p \in Pull, StartRepair(p), Balanced(p) PROVE Balanced(p)'
<1>1. rounds[p] \in Nat /\ rounds[p] + 1 \in Round
  BY BelowCap DEF BumpInv, StartRepair
<1>2. round[p][rounds[p] + 1] = "none"
  BY <1>1 DEF BumpInv, Shape
<1>3. Requeued(p)' = Requeued(p) /\ (Restarted(p)' <=> Restarted(p))
  BY <1>1, <1>2 DEF BumpInv, TypeOK, StartRepair, Requeued, Restarted
<1>4. FailedHeads(p)' = FailedHeads(p)
  BY DEF StartRepair, FailedHeads
<1>5. /\ state[p] = "queued" /\ state'[p] = "repairing"
      /\ rounds'[p] = rounds[p] + 1 /\ grants'[p] = grants[p]
  BY DEF BumpInv, TypeOK, StartRepair
<1> QED
  BY <1>1, <1>3, <1>4, <1>5 DEF Balanced, Debit, Credit

\* A round that requeues the bump was failed by the infrastructure, or is the
\* first that a restart ended: both are counted.
LEMMA RecordOutcomePays ==
  ASSUME BumpInv, NEW p \in Pull, NEW n \in Round, NEW o \in Outcome, NEW s \in Sha \cup {NoSha},
         RecordOutcome(p, n, o, s), Balanced(p)
  PROVE  Balanced(p)'
<1> USE DEF BumpInv, TypeOK
<1>1. n = rounds[p] /\ OpenRounds(p) = {n} /\ IsOpen(p, n)
  BY TargetIsLatest DEF RecordOutcome, IsTarget
<1>2. /\ FailedHeads(p)' = FailedHeads(p)
      /\ rounds'[p] = rounds[p] /\ grants'[p] = grants[p]
  BY DEF RecordOutcome, FailedHeads
<1>3. /\ Requeued(p)' = IF o = "failed_infra" THEN Requeued(p) \cup {n} ELSE Requeued(p)
      /\ n \notin Requeued(p)
  BY <1>1 DEF RecordOutcome, Requeued, IsOpen, Open
<1>4. Restarted(p)' <=> Restarted(p) \/ o = "daemon_restart"
  BY <1>1 DEF RecordOutcome, Restarted, IsOpen, Open
<1>5. o = "failed_infra" => Cardinality(Requeued(p)') = Cardinality(Requeued(p)) + 1
  BY <1>3, AccountType, FS_AddElement
<1>6. CASE state'[p] # "queued" \/ state[p] = "queued"
  <2>1. CASE o = "failed_infra"
    BY <1>2, <1>4, <1>5, <1>6, <2>1, AccountType DEF Balanced, Debit, Credit
  <2>2. CASE o # "failed_infra"
    BY <1>2, <1>3, <1>4, <1>6, <2>2, StillBalanced
  <2> QED
    BY <2>1, <2>2
<1>7. CASE state'[p] = "queued" /\ state[p] # "queued"
  <2>1. state[p] = "repairing" /\ OutcomeMove(p, n, o)[1] = "queued"
    BY <1>7 DEF RecordOutcome
  <2>2. \/ o = "failed_infra"
        \/ o = "daemon_restart" /\ ~RestartedBefore(p, n)
    BY <2>1, OutcomeMoveResult DEF RecordOutcome
  <2>3. CASE o = "failed_infra"
    BY <1>2, <1>4, <1>5, <1>7, <2>3, AccountType DEF Balanced, Debit, Credit
  <2>4. CASE o = "daemon_restart" /\ ~RestartedBefore(p, n)
    <3>1. ~Restarted(p)
      <4>1. \A m \in Round : m > n => round[p][m] = "none"
        BY <1>1 DEF Shape
      <4>2. \A m \in Round : m < n => round[p][m] # "daemon_restart"
        BY <2>4 DEF RestartedBefore
      <4>3. \A m \in Round : m < n \/ m = n \/ m > n
        BY BumpAssumption DEF Round
      <4> QED
        BY <1>1, <4>1, <4>2, <4>3 DEF Restarted, IsOpen, Open
    <3> QED
      BY <1>2, <1>3, <1>4, <1>7, <2>4, <3>1, AccountType DEF Balanced, Debit, Credit
  <2> QED
    BY <2>2, <2>3, <2>4
<1> QED
  BY <1>6, <1>7

\* The operator's retry pays for the round it may queue the bump for.
LEMMA RetryPays == ASSUME BumpInv, NEW p \in Pull, Retry(p), Balanced(p) PROVE Balanced(p)'
<1> USE DEF BumpInv, TypeOK, Retry
<1>1. /\ FailedHeads(p)' = FailedHeads(p) /\ Requeued(p)' = Requeued(p)
      /\ Restarted(p)' <=> Restarted(p)
  BY DEF FailedHeads, Requeued, Restarted
<1>2. state[p] # "queued" /\ rounds'[p] = rounds[p] /\ grants'[p] = grants[p] + 1
  OBVIOUS
<1> QED
  BY <1>1, <1>2, AccountType DEF Balanced, Debit, Credit

\* A command leaves the accounts of the other bumps alone.
LEMMA OthersBalanced ==
  ASSUME BumpInv, NEW p \in Pull, NEW q \in Pull \ {p}, Balanced(q),
         \/ \E s \in Sha : NewBump(p, s) \/ AdvanceHead(p, s)
         \/ \E s \in Sha, c \in Conclusion : RecordVerdict(p, s, c)
         \/ StartRepair(p) \/ Abandon(p) \/ Retry(p) \/ Close(p)
         \/ \E n \in Round : RecordRun(p, n)
         \/ \E n \in Round, o \in Outcome, s \in Sha \cup {NoSha} : RecordOutcome(p, n, o, s)
  PROVE  Balanced(q)'
<1>1. /\ state'[q] = state[q] /\ verdict'[q] = verdict[q] /\ rounds'[q] = rounds[q]
      /\ round'[q] = round[q] /\ grants'[q] = grants[q]
  BY DEF BumpInv, TypeOK, NewBump, AdvanceHead, RecordVerdict, StartRepair, Abandon, Retry, Close,
     RecordRun, RecordOutcome
<1>2. /\ FailedHeads(q)' = FailedHeads(q) /\ Requeued(q)' = Requeued(q)
      /\ Restarted(q)' <=> Restarted(q)
  BY <1>1 DEF FailedHeads, Requeued, Restarted
<1> QED
  BY <1>1, <1>2, StillBalanced DEF BumpInv

\* The commands that neither open, end nor ask for a round.
LEMMA QuietPays ==
  ASSUME BumpInv, NEW p \in Pull, Balanced(p),
         \/ \E s \in Sha : NewBump(p, s) \/ AdvanceHead(p, s)
         \/ Abandon(p) \/ Close(p)
         \/ \E n \in Round : RecordRun(p, n)
  PROVE  Balanced(p)'
<1>1. /\ verdict' = verdict /\ rounds' = rounds /\ grants' = grants
      /\ state'[p] = "queued" => state[p] = "queued"
  BY DEF BumpInv, TypeOK, NewBump, AdvanceHead, Abandon, Close, RecordRun
<1>2. Requeued(p)' = Requeued(p) /\ (Restarted(p)' <=> Restarted(p))
  BY DEF BumpInv, TypeOK, NewBump, AdvanceHead, Abandon, Close, RecordRun, Requeued, Restarted
<1>3. FailedHeads(p)' = FailedHeads(p)
  BY <1>1 DEF FailedHeads
<1> QED
  BY <1>1, <1>2, <1>3, StillBalanced DEF BumpInv

\* Every round is paid for by a failing head, an operator's retry, the
\* infrastructure or the one requeue a restart grants.
THEOREM Justified == BumpSpec => []RoundsAreJustified
<1> DEFINE AllBalanced == \A p \in Pull : Balanced(p)
<1>1. Init => AllBalanced
  <2> SUFFICES ASSUME Init, NEW p \in Pull PROVE Balanced(p)
    OBVIOUS
  <2>1. TypeOK
    BY InitInv DEF BumpInv
  <2>2. rounds[p] = 0 /\ state[p] = "absent"
    BY DEF Init
  <2> QED
    BY <2>1, <2>2, AccountType DEF Balanced, Debit, Credit
<1>2. BumpInv /\ AllBalanced /\ [Next]_bumpVars => AllBalanced'
  <2> SUFFICES ASSUME BumpInv, AllBalanced, [Next]_bumpVars, NEW q \in Pull PROVE Balanced(q)'
    OBVIOUS
  <2>1. CASE UNCHANGED bumpVars
    BY <2>1 DEF bumpVars, Balanced, Debit, Credit, FailedHeads, Requeued, Restarted
  <2>2. ASSUME NEW p \in Pull,
               \/ \E s \in Sha : NewBump(p, s) \/ AdvanceHead(p, s)
               \/ \E s \in Sha, c \in Conclusion : RecordVerdict(p, s, c)
               \/ StartRepair(p) \/ Abandon(p) \/ Retry(p) \/ Close(p)
               \/ \E n \in Round : RecordRun(p, n)
               \/ \E n \in Round, o \in Outcome, s \in Sha \cup {NoSha} : RecordOutcome(p, n, o, s)
        PROVE  Balanced(q)'
    <3>1. CASE q # p
      BY <2>2, <3>1, OthersBalanced
    <3>2. CASE q = p
      BY <2>2, <3>2, QuietPays, RecordVerdictPays, StartRepairPays, RecordOutcomePays, RetryPays
    <3> QED
      BY <3>1, <3>2
  <2> QED
    BY <2>1, <2>2 DEF Next
<1>3. AllBalanced => RoundsAreJustified
  BY DEF Balanced, Debit, Credit, RoundsAreJustified
<1> QED
  BY <1>1, <1>2, <1>3, BumpInvariant, PTL DEF BumpSpec

\* Abandonment is sticky and history append-only, whatever comes in which order.
THEOREM AppendOnly == BumpSpec => HistoryIsFinal
<1> DEFINE Kept ==
      \A p \in Pull :
          /\ state[p] = "closed" => state'[p] = "closed"
          /\ state[p] = "abandoned" /\ state'[p] \notin {"abandoned", "closed"}
                => grants'[p] = grants[p] + 1
          /\ rounds'[p] >= rounds[p]
          /\ \A n \in Round : round[p][n] \in Outcome => round'[p][n] = round[p][n]
          /\ \A s \in Sha : verdict[p][s] # "none" => verdict'[p][s] = verdict[p][s]
<1>1. ASSUME BumpInv, [Next]_bumpVars PROVE [Kept]_bumpVars
  <2> USE <1>1 DEF BumpInv, TypeOK
  <2>0. \A p \in Pull : rounds[p] \in Nat
    BY BumpAssumption DEF Round
  <2>1. CASE UNCHANGED bumpVars
    BY <2>1
  <2>2. ASSUME NEW p \in Pull, NEW s \in Sha, NewBump(p, s) PROVE Kept
    BY <2>0, <2>2 DEF NewBump
  <2>3. ASSUME NEW p \in Pull, NEW s \in Sha, NEW c \in Conclusion, RecordVerdict(p, s, c) PROVE Kept
    BY <2>0, <2>3 DEF RecordVerdict
  <2>4. ASSUME NEW p \in Pull, NEW s \in Sha, AdvanceHead(p, s) PROVE Kept
    BY <2>0, <2>4 DEF AdvanceHead
  <2>5. ASSUME NEW p \in Pull, StartRepair(p) PROVE Kept
    <3>1. rounds[p] + 1 \in Round /\ round[p][rounds[p] + 1] = "none"
      BY <2>0, <2>5, BelowCap DEF StartRepair, Shape
    <3> QED
      BY <2>0, <2>5, <3>1 DEF StartRepair, Outcome
  <2>6. ASSUME NEW p \in Pull, NEW n \in Round, RecordRun(p, n) PROVE Kept
    BY <2>0, <2>6 DEF RecordRun, Outcome
  <2>7. ASSUME NEW p \in Pull, NEW n \in Round, NEW o \in Outcome, NEW s \in Sha, RecordOutcome(p, n, o, s)
        PROVE  Kept
    <3>1. round[p][n] \notin Outcome
      BY <2>7 DEF RecordOutcome, IsTarget, IsOpen, Open, Outcome
    <3>2. \A q \in Pull : state[q] # "repairing" => state'[q] = state[q]
      BY <2>7 DEF RecordOutcome
    <3>3. \A q \in Pull, m \in Round : round[q][m] \in Outcome => round'[q][m] = round[q][m]
      BY <2>7, <3>1 DEF RecordOutcome
    <3> QED
      BY <2>0, <2>7, <3>2, <3>3 DEF RecordOutcome
  <2>8. ASSUME NEW p \in Pull, Abandon(p) PROVE Kept
    BY <2>0, <2>8 DEF Abandon
  <2>9. ASSUME NEW p \in Pull, Retry(p) PROVE Kept
    BY <2>0, <2>9 DEF Retry
  <2>10. ASSUME NEW p \in Pull, Close(p) PROVE Kept
    BY <2>0, <2>10 DEF Close
  <2> QED
    BY <2>1, <2>2, <2>3, <2>4, <2>5, <2>6, <2>7, <2>8, <2>9, <2>10 DEF Next
<1> QED
  BY <1>1, BumpInvariant, PTL DEF BumpSpec, HistoryIsFinal

-----------------------------------------------------------------------------
\* The daemon.

\* Nothing runs in a process that has not booted, and a daemon that is up is
\* through with its boot scan.
Quiescent ==
    /\ daemon \in {"down", "booting"}
          => \A p \in Pull, n \in Round : runner[p][n] = "idle"
    /\ daemon \in {"up", "hung"} => recovery = {}

\* A repairer's round is open until the repairer writes.
Owned ==
    \A p \in Pull, n \in Round :
        runner[p][n] \in Registered \cup {"writing"} => IsOpen(p, n)

\* From the boot scan on, an open round has a goroutine or is on the scan's list.
Attended ==
    daemon \in Live =>
        \A p \in Pull, n \in Round :
            IsOpen(p, n) /\ <<p, n>> \notin lost
                => runner[p][n] # "idle" \/ <<p, n>> \in recovery

\* Only a closed bump's repairer is told that its pull request closed.
Truthful ==
    \A p \in Pull, n \in Round :
        "pull_request_closed" \in {reason[p][n], answer[p][n]} => state[p] = "closed"

\* A repairer answers that it pushed only with a commit of its own.
Answered ==
    \A p \in Pull, n \in Round :
        answer[p][n] = "pushed" =>
            /\ runner[p][n] = "writing"
            /\ work[p][n] \in Sha
            /\ work[p][n] # base[p]

\* A bump follows a commit, and a round was opened on one whose checks failed.
Grounded ==
    \A p \in Pull :
        /\ state[p] # "absent" => head[p] \in Sha
        /\ OpenRounds(p) # {} => base[p] \in Sha /\ verdict[p][base[p]] = "failure"

UpkeepInv ==
    /\ BumpInv
    /\ UpkeepTypeOK
    /\ Quiescent
    /\ Owned
    /\ Attended
    /\ Truthful
    /\ Answered
    /\ Grounded

-----------------------------------------------------------------------------
\* The kinds of steps.

\* The commands that neither open nor end a round, and no command at all.
Quiet(p) ==
    \/ \E s \in Sha : NewBump(p, s) \/ AdvanceHead(p, s)
    \/ \E s \in Sha, c \in Conclusion : RecordVerdict(p, s, c)
    \/ \E n \in Round : RecordRun(p, n)
    \/ Abandon(p) \/ Retry(p) \/ Close(p)
    \/ UNCHANGED bumpVars

\* GitHub, the translator, the sweeper, the operator: nobody's goroutine moves.
Bystander(p) ==
    \/ DependabotOpens(p) \/ DependabotPushes(p) \/ PullRequestCloses(p) \/ PullRequestLeaves(p)
    \/ TranslateOpened(p)
    \/ \E s \in Sha :
          \/ DeliveryLost(p, s)
          \/ TranslateSynchronize(p, s)
          \/ TranslateSynchronizeAgain(p, s)
          \/ TranslateSynchronizeFirst(p, s)
    \/ \E s \in Sha, c \in Conclusion : TranslateChecks(p, s, c)
    \/ TranslateClosed(p)
    \/ SweepStale(p)
    \/ Visit(p) \/ LeaveQueued(p)
    \/ ApiRetry(p) \/ ApiWatch(p)
    \/ \E n \in Round : RunBegan(p, n)

Opening(p) == OpenRound(p) \/ OpenRoundUnacknowledged(p)

\* The daemon's ways to end a round.
Ending(p, n) == RecoverOne(p, n) \/ Write(p, n) \/ Backstop(p, n)

\* A goroutine moves, or is told something; no bump does.
Moving(p, n) ==
    \/ RecoverOneFails(p, n)
    \/ CancelClosedBumps(p, n) \/ ApiStop(p, n)
    \/ Prepare(p, n) \/ SetupFails(p, n) \/ Bail(p, n)
    \/ Push(p, n) \/ PushFails(p, n)
    \/ \E o \in Outcome \cup {"none"} : Decide(p, n, o)
    \/ WriteFails(p, n) \/ BackstopFails(p, n)

LEMMA Kinds ==
  ASSUME UpkeepNext
  PROVE  \/ ProcessNext
         \/ \E p \in Pull : Bystander(p) \/ Opening(p)
         \/ \E p \in Pull, n \in Round : Ending(p, n) \/ Moving(p, n)
BY DEF UpkeepNext, PullNext, RoundNext, Bystander, Opening, Ending, Moving

\* A bump never has two open rounds, so an open one is the target.
LEMMA OpenIsTarget ==
  ASSUME BumpInv, NEW p \in Pull, NEW n \in Round
  PROVE  IsOpen(p, n) <=> IsTarget(p, n)
BY BumpAssumption DEF BumpInv, Loadable, IsTarget, OpenRounds, Round

\* What the quiet commands leave alone.
LEMMA QuietEffect ==
  ASSUME BumpInv, NEW p \in Pull, Quiet(p)
  PROVE  /\ base' = base
         /\ \A q \in Pull, m \in Round : IsOpen(q, m)' <=> IsOpen(q, m)
         /\ \A q \in Pull : OpenRounds(q)' = OpenRounds(q)
         /\ \A q \in Pull : state[q] = "closed" => state'[q] = "closed"
<1> USE DEF BumpInv, TypeOK
<1>1. \A q \in Pull, m \in Round : IsOpen(q, m)' <=> IsOpen(q, m)
  <2>1. CASE \E n \in Round : RecordRun(p, n)
    BY <2>1 DEF RecordRun, IsTarget, IsOpen, Open
  <2>2. CASE round' = round
    BY <2>2 DEF IsOpen
  <2> QED
    BY <2>1, <2>2 DEF Quiet, NewBump, AdvanceHead, RecordVerdict, Abandon, Retry, Close, bumpVars
<1>2. \A q \in Pull : OpenRounds(q)' = OpenRounds(q)
  BY <1>1 DEF OpenRounds
<1>3. base' = base
  BY DEF Quiet, NewBump, AdvanceHead, RecordVerdict, RecordRun, Abandon, Retry, Close, bumpVars
<1>4. \A q \in Pull : state[q] = "closed" => state'[q] = "closed"
  BY DEF Quiet, NewBump, AdvanceHead, RecordVerdict, RecordRun, Abandon, Retry, Close, bumpVars
<1> QED
  BY <1>1, <1>2, <1>3, <1>4

\* A bystander gives a quiet command or none.
LEMMA BystanderEffect ==
  ASSUME NEW p \in Pull, Bystander(p)
  PROVE  Quiet(p) /\ UNCHANGED <<daemon, restarts, runner, reason, work, answer, recovery, lost>>
<1> USE DEF Quiet, processVars, runnerVars
<1>1. CASE \/ DependabotOpens(p) \/ DependabotPushes(p)
           \/ PullRequestCloses(p) \/ PullRequestLeaves(p)
           \/ \E s \in Sha : DeliveryLost(p, s)
  BY <1>1 DEF DependabotOpens, DependabotPushes, PullRequestCloses, PullRequestLeaves, DeliveryLost
<1>2. CASE TranslateOpened(p)
  BY <1>2, UpkeepAssumption DEF TranslateOpened
<1>3. CASE \E s \in Sha : \/ TranslateSynchronize(p, s)
                          \/ TranslateSynchronizeAgain(p, s)
                          \/ TranslateSynchronizeFirst(p, s)
  BY <1>3 DEF TranslateSynchronize, TranslateSynchronizeAgain, TranslateSynchronizeFirst, Synchronize
<1>4. CASE \E s \in Sha, c \in Conclusion : TranslateChecks(p, s, c)
  BY <1>4 DEF TranslateChecks
<1>5. CASE TranslateClosed(p) \/ SweepStale(p)
  BY <1>5 DEF TranslateClosed, SweepStale
<1>6. CASE Visit(p) \/ LeaveQueued(p) \/ ApiWatch(p)
  BY <1>6 DEF Visit, LeaveQueued, ApiWatch
<1>7. CASE ApiRetry(p)
  BY <1>7 DEF ApiRetry
<1>8. CASE \E n \in Round : RunBegan(p, n)
  BY <1>8 DEF RunBegan
<1> QED
  BY <1>1, <1>2, <1>3, <1>4, <1>5, <1>6, <1>7, <1>8 DEF Bystander

\* A start opens the next round, on the bump's head.
LEMMA OpeningEffect ==
  ASSUME BumpInv, NEW p \in Pull, StartRepair(p)
  PROVE  /\ rounds[p] + 1 \in Round
         /\ OpenRounds(p) = {}
         /\ \A q \in Pull, m \in Round :
               IsOpen(q, m)' <=> IsOpen(q, m) \/ <<q, m>> = <<p, rounds[p] + 1>>
         /\ \A q \in Pull \ {p} : base'[q] = base[q]
         /\ \A q \in Pull : state[q] = "closed" => state'[q] = "closed"
<1> USE DEF BumpInv, TypeOK
<1>1. rounds[p] + 1 \in Round
  BY BelowCap DEF StartRepair
<1>2. \A q \in Pull, m \in Round :
         IsOpen(q, m)' <=> IsOpen(q, m) \/ <<q, m>> = <<p, rounds[p] + 1>>
  BY <1>1 DEF StartRepair, IsOpen, Open
<1> QED
  BY <1>1, <1>2 DEF StartRepair

\* An outcome ends one round.
LEMMA OutcomeEffect ==
  ASSUME BumpInv, NEW p \in Pull, NEW n \in Round, NEW o \in Outcome, NEW s, RecordOutcome(p, n, o, s)
  PROVE  /\ base' = base
         /\ verdict' = verdict
         /\ \A q \in Pull, m \in Round :
               IsOpen(q, m)' <=> IsOpen(q, m) /\ <<q, m>> # <<p, n>>
         /\ \A q \in Pull : state[q] = "closed" => state'[q] = "closed"
         /\ \A q \in Pull : state[q] = "absent" => state'[q] = "absent"
         /\ \A q \in Pull : head'[q] # head[q] => o = "pushed" /\ head'[q] = s
<1> USE DEF BumpInv, TypeOK
<1>1. \A q \in Pull, m \in Round : IsOpen(q, m)' <=> IsOpen(q, m) /\ <<q, m>> # <<p, n>>
  <2>1. round' = [round EXCEPT ![p][n] = o] /\ o \notin Open
    BY DEF RecordOutcome, Outcome, Open
  <2> QED
    BY <2>1 DEF IsOpen
<1> QED
  BY <1>1 DEF RecordOutcome

\* The outcome an ending writes, unless the bump refuses it, which it does only
\* when the round is over.
LEMMA EndingEffect ==
  ASSUME UpkeepInv, NEW p \in Pull, NEW n \in Round, Ending(p, n)
  PROVE  \/ \E o \in Outcome, s \in Sha : RecordOutcome(p, n, o, s)
         \/ UNCHANGED bumpVars
<1> USE DEF UpkeepInv, UpkeepTypeOK
<1>1. 1 \in Sha
  BY UpkeepAssumption
<1>2. CASE RecoverOne(p, n)
  <2>1. RecoveryOutcome(p) \in Outcome /\ RecoveryOutcome(p) # "pushed"
    BY DEF RecoveryOutcome, Outcome
  <2>2. RecordOutcome(p, n, RecoveryOutcome(p), NoSha) => RecordOutcome(p, n, RecoveryOutcome(p), 1)
    BY <2>1 DEF RecordOutcome
  <2> QED
    BY <1>1, <1>2, <2>1, <2>2 DEF RecoverOne
<1>3. CASE Backstop(p, n)
  <2>1. RecordOutcome(p, n, "failed_infra", NoSha) => RecordOutcome(p, n, "failed_infra", 1)
    BY DEF RecordOutcome
  <2> QED
    BY <1>1, <1>3, <2>1 DEF Backstop, Outcome
<1>4. CASE Write(p, n)
  <2>1. CASE answer[p][n] # "none" /\ RecordOutcome(p, n, answer[p][n], work[p][n])
    <3>1. answer[p][n] \in Outcome
      BY <2>1
    <3>2. CASE answer[p][n] = "pushed"
      BY <2>1, <3>1, <3>2 DEF Answered
    <3>3. CASE answer[p][n] # "pushed"
      <4>1. RecordOutcome(p, n, answer[p][n], 1)
        BY <2>1, <3>3 DEF RecordOutcome
      <4> QED
        BY <1>1, <3>1, <4>1
    <3> QED
      BY <3>2, <3>3
  <2> QED
    BY <1>4, <2>1 DEF Write
<1> QED
  BY <1>2, <1>3, <1>4 DEF Ending

\* Neither a moving goroutine nor the process itself touches a bump.
LEMMA MovingEffect ==
  ASSUME NEW p \in Pull, NEW n \in Round, Moving(p, n) PROVE UNCHANGED bumpVars
BY DEF Moving, RecoverOneFails, CancelClosedBumps, ApiStop, Prepare, SetupFails, Bail, Push,
   PushFails, Decide, WriteFails, BackstopFails

LEMMA ProcessEffect ==
  ASSUME ProcessNext
  PROVE  UNCHANGED <<bumpVars, githubVars, watched, lost>>
BY DEF ProcessNext, Boot, RecoveryDone, Shutdown, Exit, Crash, SweepHangs, Die, githubVars

LEMMA NoEffect ==
  ASSUME UNCHANGED bumpVars
  PROVE  /\ \A q \in Pull, m \in Round : IsOpen(q, m)' <=> IsOpen(q, m)
         /\ \A q \in Pull : OpenRounds(q)' = OpenRounds(q)
BY DEF bumpVars, IsOpen, OpenRounds

-----------------------------------------------------------------------------

\* Every step of the daemon is a command of the aggregate or none.
LEMMA BumpStep == ASSUME UpkeepInv, UpkeepNext PROVE [Next]_bumpVars
<1>1. CASE ProcessNext
  BY <1>1, ProcessEffect
<1>2. ASSUME NEW p \in Pull, Bystander(p) PROVE [Next]_bumpVars
  BY <1>2, BystanderEffect DEF Quiet, Next
<1>3. ASSUME NEW p \in Pull, Opening(p) PROVE [Next]_bumpVars
  BY <1>3 DEF Opening, OpenRound, OpenRoundUnacknowledged, Next
<1>4. ASSUME NEW p \in Pull, NEW n \in Round, Ending(p, n) PROVE [Next]_bumpVars
  BY <1>4, EndingEffect DEF Next
<1>5. ASSUME NEW p \in Pull, NEW n \in Round, Moving(p, n) PROVE [Next]_bumpVars
  BY <1>5, MovingEffect
<1> QED
  BY Kinds, <1>1, <1>2, <1>3, <1>4, <1>5

\* g is f, or f with one entry of S at round n of p.
Sets(f, g, p, n, S) == g = f \/ \E v \in S : g = [f EXCEPT ![p][n] = v]

LEMMA SetsType ==
  ASSUME NEW S, NEW f \in [Pull -> [Round -> S]], NEW g, NEW p \in Pull, NEW n \in Round,
         Sets(f, g, p, n, S)
  PROVE  g \in [Pull -> [Round -> S]]
BY DEF Sets

LEMMA SetsElsewhere ==
  ASSUME NEW S, NEW f \in [Pull -> [Round -> S]], NEW g, NEW p \in Pull, NEW n \in Round,
         Sets(f, g, p, n, S)
  PROVE  \A q \in Pull, m \in Round : <<q, m>> # <<p, n>> => g[q][m] = f[q][m]
BY DEF Sets

\* What the step of a goroutine, or of the boot scan, does to the goroutines.
LEMMA RunnerEffect ==
  ASSUME UpkeepTypeOK, NEW p \in Pull, NEW n \in Round, Ending(p, n) \/ Moving(p, n)
  PROVE  /\ Sets(runner, runner', p, n, RunnerPc)
         /\ Sets(reason, reason', p, n, {"none", "operator_stop", "pull_request_closed"})
         /\ Sets(work, work', p, n, Sha \cup {NoSha})
         /\ Sets(answer, answer', p, n, Outcome \cup {"none"})
<1> USE DEF Sets, runnerVars
<1>0. {"running", "pushed", "writing", "returning", "idle"} \subseteq RunnerPc
  BY DEF RunnerPc, Registered
<1>1. CASE RecoverOne(p, n) \/ RecoverOneFails(p, n)
  BY <1>1 DEF RecoverOne, RecoverOneFails
<1>2. CASE CancelClosedBumps(p, n) \/ ApiStop(p, n)
  BY <1>2 DEF CancelClosedBumps, ApiStop
<1>3. CASE Prepare(p, n) \/ Backstop(p, n) \/ BackstopFails(p, n)
  BY <1>0, <1>3 DEF Prepare, Backstop, BackstopFails, Move
<1>4. CASE Bail(p, n) \/ Write(p, n) \/ WriteFails(p, n)
  BY <1>0, <1>4 DEF Bail, Write, WriteFails, Return, Move
<1>5. CASE SetupFails(p, n)
  <2>1. reason[p][n] \in {"none", "operator_stop", "pull_request_closed"}
    BY DEF UpkeepTypeOK
  <2>2. PICK o \in Outcome \cup {"none"} : answer' = [answer EXCEPT ![p][n] = o]
    BY <1>5, <2>1 DEF SetupFails, Outcome
  <2> QED
    BY <1>0, <1>5, <2>2 DEF SetupFails, Move
<1>6. CASE \E o \in Outcome \cup {"none"} : Decide(p, n, o)
  BY <1>0, <1>6 DEF Decide, Move
<1>7. CASE Push(p, n) \/ PushFails(p, n)
  <2>1. tip[p] \in Sha \cup {NoSha}
    BY DEF UpkeepTypeOK
  <2>2. PICK s \in Sha \cup {NoSha} : work' = [work EXCEPT ![p][n] = s]
    BY <1>7, <2>1 DEF Push, PushFails
  <2> QED
    BY <1>0, <1>7, <2>2 DEF Push, PushFails, Move
<1> QED
  BY <1>1, <1>2, <1>3, <1>4, <1>5, <1>6, <1>7 DEF Ending, Moving

\* A dead process's goroutines.
LEMMA FillType == ASSUME NEW S, NEW v \in S PROVE Fill(v) \in [Pull -> [Round -> S]]
BY DEF Fill

\* One failure more, where there is room for it.
LEMMA OneMore ==
  ASSUME failures \in 0..MaxFailures,
         failures' = failures \/ (failures < MaxFailures /\ failures' = failures + 1)
  PROVE  failures' \in 0..MaxFailures
BY UpkeepAssumption

\* Types: what a step writes is in the vocabulary.
LEMMA TypeStep == ASSUME UpkeepInv, TypeOK', UpkeepNext PROVE UpkeepTypeOK'
<1> DEFINE Rounds(S) == [Pull -> [Round -> S]]
           Reasons == {"none", "operator_stop", "pull_request_closed"}
<1> USE DEF UpkeepInv, UpkeepTypeOK
<1>0. MaxRestarts \in Nat
  BY UpkeepAssumption
<1>1. CASE ProcessNext
  <2>1. UNCHANGED <<failures, watched, pr, tip, inbox, lost>>
    BY <1>1 DEF ProcessNext, Boot, RecoveryDone, Shutdown, Exit, Crash, SweepHangs, Die, githubVars
  <2>2. daemon' \in Serving \cup {"down"}
    BY <1>1 DEF ProcessNext, Boot, RecoveryDone, Shutdown, Exit, Crash, SweepHangs, Die, Serving, Live
  <2>3. restarts' \in 0..MaxRestarts
    BY <1>0, <1>1 DEF ProcessNext, Boot, RecoveryDone, Shutdown, Exit, Crash, SweepHangs
  <2>4. recovery' \in SUBSET RoundId
    BY <1>1 DEF ProcessNext, Boot, RecoveryDone, Shutdown, Exit, Crash, SweepHangs, Die, OpenRepairs
  <2>5. \/ UNCHANGED <<visiting, runner, reason, work, answer>>
        \/ /\ visiting' = {} /\ runner' = Fill("idle") /\ reason' = Fill("none")
           /\ work' = Fill(NoSha) /\ answer' = Fill("none")
    BY <1>1 DEF ProcessNext, Boot, RecoveryDone, Shutdown, Exit, Crash, SweepHangs, Die, runnerVars
  <2>6. /\ Fill("idle") \in Rounds(RunnerPc)
        /\ Fill("none") \in Rounds(Reasons)
        /\ Fill(NoSha) \in Rounds(Sha \cup {NoSha})
        /\ Fill("none") \in Rounds(Outcome \cup {"none"})
    BY FillType DEF RunnerPc
  <2>7. /\ visiting' \in SUBSET Pull
        /\ runner' \in Rounds(RunnerPc)
        /\ reason' \in Rounds(Reasons)
        /\ work' \in Rounds(Sha \cup {NoSha})
        /\ answer' \in Rounds(Outcome \cup {"none"})
    BY <2>5, <2>6
  <2> QED
    BY <2>1, <2>2, <2>3, <2>4, <2>7
<1>2. ASSUME NEW p \in Pull, Bystander(p) PROVE UpkeepTypeOK'
  <2> USE DEF processVars, githubVars
  <2>1. UNCHANGED <<daemon, restarts, runner, reason, work, answer, recovery, lost>>
    BY <1>2, BystanderEffect
  <2>2. CASE DependabotOpens(p) \/ DependabotPushes(p)
    <3>1. PICK s \in Sha : /\ tip' = [tip EXCEPT ![p] = s]
                           /\ \E S \in SUBSET Sha : inbox' = [inbox EXCEPT ![p] = S]
      <4>1. inbox[p] \in SUBSET Sha
        OBVIOUS
      <4>2. CASE DependabotOpens(p)
        BY <4>2, UpkeepAssumption DEF DependabotOpens
      <4>3. CASE DependabotPushes(p)
        BY <4>1, <4>3 DEF DependabotPushes
      <4> QED
        BY <2>2, <4>2, <4>3
    <3>2. tip' \in [Pull -> Sha \cup {NoSha}]
      BY <3>1
    <3>5. inbox' \in [Pull -> SUBSET Sha]
      BY <3>1
    <3>3. pr' \in [Pull -> {"none", "open", "closed", "foreign", "gone"}]
      BY <2>2 DEF DependabotOpens, DependabotPushes
    <3>4. UNCHANGED <<failures, watched, visiting>>
      BY <2>2 DEF DependabotOpens, DependabotPushes
    <3> QED
      BY <2>1, <3>2, <3>3, <3>4, <3>5
  <2>3. CASE \/ PullRequestCloses(p) \/ PullRequestLeaves(p)
             \/ ApiWatch(p) \/ Visit(p) \/ LeaveQueued(p)
    BY <2>1, <2>3 DEF PullRequestCloses, PullRequestLeaves, ApiWatch, Visit, LeaveQueued
  <2>8. ASSUME NEW s \in Sha, DeliveryLost(p, s) PROVE UpkeepTypeOK'
    <3>1. failures' \in 0..MaxFailures
      BY <2>8, OneMore DEF DeliveryLost
    <3> QED
      BY <2>1, <2>8, <3>1 DEF DeliveryLost
  <2>4. CASE TranslateOpened(p)
    BY <2>1, <2>4 DEF TranslateOpened
  <2>5. ASSUME NEW s \in Sha, TranslateSynchronize(p, s) \/ TranslateSynchronizeFirst(p, s)
        PROVE  UpkeepTypeOK'
    <3>1. failures' \in 0..MaxFailures
      BY <2>5, OneMore DEF TranslateSynchronize, TranslateSynchronizeFirst
    <3> QED
      BY <2>1, <2>5, <3>1 DEF TranslateSynchronize, TranslateSynchronizeFirst, Synchronize
  <2>6. ASSUME NEW s \in Sha, TranslateSynchronizeAgain(p, s) PROVE UpkeepTypeOK'
    <3>1. failures' \in 0..MaxFailures
      BY <2>6, OneMore DEF TranslateSynchronizeAgain
    <3> QED
      BY <2>1, <2>6, <3>1 DEF TranslateSynchronizeAgain
  <2>7. CASE \/ \E s \in Sha, c \in Conclusion : TranslateChecks(p, s, c)
             \/ TranslateClosed(p) \/ SweepStale(p) \/ ApiRetry(p)
             \/ \E n \in Round : RunBegan(p, n)
    BY <2>1, <2>7 DEF TranslateChecks, TranslateClosed, SweepStale, ApiRetry, RunBegan
  <2> QED
    BY <1>2, <2>2, <2>3, <2>4, <2>5, <2>6, <2>7, <2>8 DEF Bystander
<1>3. ASSUME NEW p \in Pull, Opening(p) PROVE UpkeepTypeOK'
  <2>1. rounds[p] + 1 \in Round
    BY <1>3, OpeningEffect DEF Opening, OpenRound, OpenRoundUnacknowledged
  <2>2. CASE OpenRound(p)
    <3>1. runner' \in Rounds(RunnerPc)
      BY <2>1, <2>2 DEF OpenRound, RunnerPc, Registered
    <3> QED
      BY <2>2, <3>1 DEF OpenRound, processVars, githubVars
  <2>3. CASE OpenRoundUnacknowledged(p)
    <3>1. failures' \in 0..MaxFailures
      BY <2>3, OneMore DEF OpenRoundUnacknowledged
    <3>2. lost' \in SUBSET RoundId
      BY <2>1, <2>3 DEF OpenRoundUnacknowledged, RoundId
    <3> QED
      BY <2>3, <3>1, <3>2 DEF OpenRoundUnacknowledged, githubVars, runnerVars
  <2> QED
    BY <1>3, <2>2, <2>3 DEF Opening
<1>4. ASSUME NEW p \in Pull, NEW n \in Round, Ending(p, n) \/ Moving(p, n) PROVE UpkeepTypeOK'
  <2>1. /\ runner' \in Rounds(RunnerPc)
        /\ reason' \in Rounds(Reasons)
        /\ work' \in Rounds(Sha \cup {NoSha})
        /\ answer' \in Rounds(Outcome \cup {"none"})
    BY <1>4, RunnerEffect, SetsType
  <2>2. <<p, n>> \in RoundId
    BY DEF RoundId
  <2>3. CASE Ending(p, n)
    BY <2>1, <2>3 DEF Ending, RecoverOne, Write, Backstop, processVars, githubVars
  <2>4. CASE Moving(p, n)
    <3>1. UNCHANGED <<daemon, restarts, watched, pr, inbox, visiting>>
      BY <2>4
      DEF Moving, RecoverOneFails, CancelClosedBumps, ApiStop, Prepare, SetupFails, Bail, Push,
          PushFails, Decide, WriteFails, BackstopFails, processVars, githubVars
    <3>2. failures' = failures \/ (failures < MaxFailures /\ failures' = failures + 1)
      <4>1. CASE PushFails(p, n)
        BY <4>1 DEF PushFails
      <4>2. CASE RecoverOneFails(p, n) \/ WriteFails(p, n) \/ BackstopFails(p, n)
        BY <4>2 DEF RecoverOneFails, WriteFails, BackstopFails
      <4>3. CASE ~PushFails(p, n) /\ ~(RecoverOneFails(p, n) \/ WriteFails(p, n) \/ BackstopFails(p, n))
        BY <2>4, <4>3
        DEF Moving, CancelClosedBumps, ApiStop, Prepare, SetupFails, Bail, Push, Decide, processVars
      <4> QED
        BY <4>1, <4>2, <4>3
    <3>3. recovery' \in SUBSET RoundId /\ lost' \in SUBSET RoundId
      BY <2>2, <2>4
      DEF Moving, RecoverOneFails, CancelClosedBumps, ApiStop, Prepare, SetupFails, Bail, Push,
          PushFails, Decide, WriteFails, BackstopFails
    <3>4. tip' \in [Pull -> Sha \cup {NoSha}]
      BY <2>4
      DEF Moving, RecoverOneFails, CancelClosedBumps, ApiStop, Prepare, SetupFails, Bail, Push,
          PushFails, Decide, WriteFails, BackstopFails, githubVars
    <3> QED
      BY <2>1, <3>1, <3>2, <3>3, <3>4, OneMore
  <2> QED
    BY <1>4, <2>3, <2>4
<1> QED
  BY Kinds, <1>1, <1>2, <1>3, <1>4

\* The goroutines of the other rounds stay where they are.
LEMMA Elsewhere ==
  ASSUME UpkeepTypeOK, NEW p \in Pull, NEW n \in Round, Ending(p, n) \/ Moving(p, n),
         NEW q \in Pull, NEW m \in Round, <<q, m>> # <<p, n>>
  PROVE  /\ runner'[q][m] = runner[q][m] /\ reason'[q][m] = reason[q][m]
         /\ work'[q][m] = work[q][m] /\ answer'[q][m] = answer[q][m]
<1>1. runner'[q][m] = runner[q][m]
  <2>1. runner \in [Pull -> [Round -> RunnerPc]]
    BY DEF UpkeepTypeOK
  <2>2. Sets(runner, runner', p, n, RunnerPc)
    BY RunnerEffect
  <2> QED
    BY <2>1, <2>2, SetsElsewhere
<1>2. reason'[q][m] = reason[q][m]
  <2>1. reason \in [Pull -> [Round -> {"none", "operator_stop", "pull_request_closed"}]]
    BY DEF UpkeepTypeOK
  <2>2. Sets(reason, reason', p, n, {"none", "operator_stop", "pull_request_closed"})
    BY RunnerEffect
  <2> QED
    BY <2>1, <2>2, SetsElsewhere
<1>3. work'[q][m] = work[q][m]
  <2>1. work \in [Pull -> [Round -> Sha \cup {NoSha}]]
    BY DEF UpkeepTypeOK
  <2>2. Sets(work, work', p, n, Sha \cup {NoSha})
    BY RunnerEffect
  <2> QED
    BY <2>1, <2>2, SetsElsewhere
<1>4. answer'[q][m] = answer[q][m]
  <2>1. answer \in [Pull -> [Round -> Outcome \cup {"none"}]]
    BY DEF UpkeepTypeOK
  <2>2. Sets(answer, answer', p, n, Outcome \cup {"none"})
    BY RunnerEffect
  <2> QED
    BY <2>1, <2>2, SetsElsewhere
<1> QED
  BY <1>1, <1>2, <1>3, <1>4

\* The process and the goroutine in a step of a goroutine or of the boot scan:
\* an idle one is started by nobody here, and who holds the round held it before.
LEMMA GoroutineEffect ==
  ASSUME UpkeepTypeOK, NEW p \in Pull, NEW n \in Round, Ending(p, n) \/ Moving(p, n)
  PROVE  /\ daemon' = daemon
         /\ recovery' \subseteq recovery
         /\ lost \subseteq lost'
         /\ \A q \in Pull, m \in Round : <<q, m>> # <<p, n>> =>
               /\ runner'[q][m] = runner[q][m] /\ reason'[q][m] = reason[q][m]
               /\ work'[q][m] = work[q][m] /\ answer'[q][m] = answer[q][m]
               /\ (<<q, m>> \in recovery => <<q, m>> \in recovery')
         /\ \A q \in Pull, m \in Round :
               /\ runner[q][m] = "idle" => runner'[q][m] = "idle"
               /\ runner'[q][m] \in Registered \cup {"writing"}
                     => runner[q][m] \in Registered \cup {"writing"}
<1>1. \A q \in Pull, m \in Round : <<q, m>> # <<p, n>> =>
         /\ runner'[q][m] = runner[q][m] /\ reason'[q][m] = reason[q][m]
         /\ work'[q][m] = work[q][m] /\ answer'[q][m] = answer[q][m]
  BY Elsewhere
<1>2. daemon' = daemon
  BY DEF Ending, Moving, RecoverOne, Write, Backstop, RecoverOneFails, CancelClosedBumps, ApiStop,
     Prepare, SetupFails, Bail, Push, PushFails, Decide, WriteFails, BackstopFails, processVars
<1>3. /\ recovery' \subseteq recovery
      /\ lost \subseteq lost'
      /\ \A q \in Pull, m \in Round :
            <<q, m>> # <<p, n>> /\ <<q, m>> \in recovery => <<q, m>> \in recovery'
  BY DEF Ending, Moving, RecoverOne, Write, Backstop, RecoverOneFails, CancelClosedBumps, ApiStop,
     Prepare, SetupFails, Bail, Push, PushFails, Decide, WriteFails, BackstopFails
<1>4. /\ runner[p][n] = "idle" => runner'[p][n] = "idle"
      /\ runner'[p][n] \in Registered \cup {"writing"} => runner[p][n] \in Registered \cup {"writing"}
  <2>1. CASE runner' = runner
    BY <2>1
  <2>2. CASE Prepare(p, n) \/ SetupFails(p, n) \/ Bail(p, n) \/ Write(p, n) \/ WriteFails(p, n)
             \/ Backstop(p, n) \/ BackstopFails(p, n)
    BY <2>2 DEF Prepare, SetupFails, Bail, Write, WriteFails, Backstop, BackstopFails, Return, Move,
       UpkeepTypeOK, Registered
  <2>3. CASE Push(p, n) \/ PushFails(p, n) \/ \E o \in Outcome \cup {"none"} : Decide(p, n, o)
    BY <2>3 DEF Push, PushFails, Decide, Move, UpkeepTypeOK, Registered
  <2> QED
    BY <2>1, <2>2, <2>3
    DEF Ending, Moving, RecoverOne, RecoverOneFails, CancelClosedBumps, ApiStop, runnerVars
<1>5. \A q \in Pull, m \in Round :
         /\ runner[q][m] = "idle" => runner'[q][m] = "idle"
         /\ runner'[q][m] \in Registered \cup {"writing"}
               => runner[q][m] \in Registered \cup {"writing"}
  <2> SUFFICES ASSUME NEW q \in Pull, NEW m \in Round
               PROVE  /\ runner[q][m] = "idle" => runner'[q][m] = "idle"
                      /\ runner'[q][m] \in Registered \cup {"writing"}
                            => runner[q][m] \in Registered \cup {"writing"}
    OBVIOUS
  <2>1. CASE q = p /\ m = n
    BY <1>4, <2>1
  <2>2. CASE <<q, m>> # <<p, n>>
    BY <1>1, <2>2
  <2> QED
    BY <2>1, <2>2
<1> QED
  BY <1>1, <1>2, <1>3, <1>5

\* The process's steps leave the goroutines alone, or end all of them.
LEMMA ProcessRunners ==
  ASSUME ProcessNext
  PROVE  \/ UNCHANGED <<runner, reason, work, answer>> /\ daemon' # "down"
         \/ /\ daemon' = "down"
            /\ runner' = Fill("idle") /\ reason' = Fill("none") /\ answer' = Fill("none")
BY DEF ProcessNext, Boot, RecoveryDone, Shutdown, Exit, Crash, SweepHangs, Die, runnerVars

\* Only a boot scan fills the list, and RecoveryDone waits for it to be empty.
LEMMA QuiescentStep == ASSUME UpkeepInv, UpkeepNext PROVE Quiescent'
<1> USE DEF UpkeepInv, Quiescent
<1>1. CASE ProcessNext
  <2>1. CASE Boot
    BY <2>1 DEF Boot, runnerVars
  <2>2. CASE RecoveryDone
    BY <2>2 DEF RecoveryDone
  <2>3. CASE Shutdown
    BY <2>3 DEF Shutdown
  <2>4. CASE Exit \/ Crash
    BY <2>4 DEF Exit, Crash, Die, Fill
  <2>5. CASE SweepHangs
    BY <2>5 DEF SweepHangs
  <2> QED
    BY <1>1, <2>1, <2>2, <2>3, <2>4, <2>5 DEF ProcessNext
<1>2. ASSUME NEW p \in Pull, Bystander(p) PROVE Quiescent'
  BY <1>2, BystanderEffect
<1>3. ASSUME NEW p \in Pull, Opening(p) PROVE Quiescent'
  BY <1>3 DEF Opening, OpenRound, OpenRoundUnacknowledged, processVars
<1>4. ASSUME NEW p \in Pull, NEW n \in Round, Ending(p, n) \/ Moving(p, n) PROVE Quiescent'
  <2>1. daemon' = daemon /\ recovery' \subseteq recovery
    BY <1>4, GoroutineEffect
  <2>2. \A q \in Pull, m \in Round : runner[q][m] = "idle" => runner'[q][m] = "idle"
    BY <1>4, GoroutineEffect
  <2> QED
    BY <2>1, <2>2
<1> QED
  BY Kinds, <1>1, <1>2, <1>3, <1>4

\* Nobody but its repairer ends the round of a live one.
LEMMA OwnedStep == ASSUME UpkeepInv, UpkeepNext PROVE Owned'
<1> USE DEF UpkeepInv, Owned
<1>1. CASE ProcessNext
  <2>1. \A q \in Pull, m \in Round : IsOpen(q, m)' <=> IsOpen(q, m)
    BY <1>1, ProcessEffect, NoEffect
  <2>2. CASE runner' = Fill("idle")
    BY <2>2 DEF Fill, Registered
  <2> QED
    BY <1>1, <2>1, <2>2, ProcessRunners
<1>2. ASSUME NEW p \in Pull, Bystander(p) PROVE Owned'
  BY <1>2, BystanderEffect, QuietEffect
<1>3. ASSUME NEW p \in Pull, Opening(p) PROVE Owned'
  <2>1. StartRepair(p)
    BY <1>3 DEF Opening, OpenRound, OpenRoundUnacknowledged
  <2>2. runner' = runner \/ runner' = [runner EXCEPT ![p][rounds[p] + 1] = "spawned"]
    BY <1>3 DEF Opening, OpenRound, OpenRoundUnacknowledged, runnerVars
  <2>3. \A q \in Pull, m \in Round : <<q, m>> # <<p, rounds[p] + 1>> => runner'[q][m] = runner[q][m]
    BY <2>2 DEF UpkeepTypeOK
  <2> QED
    BY <2>1, <2>3, OpeningEffect
<1>4. ASSUME NEW p \in Pull, NEW n \in Round, Ending(p, n) PROVE Owned'
  <2>1. runner'[p][n] \notin Registered \cup {"writing"}
    <3>1. CASE RecoverOne(p, n)
      BY <3>1 DEF RecoverOne, Quiescent, runnerVars, Registered
    <3>2. CASE Write(p, n) \/ Backstop(p, n)
      BY <3>2 DEF Write, Backstop, Return, Move, UpkeepTypeOK, Registered
    <3> QED
      BY <1>4, <3>1, <3>2 DEF Ending
  <2>2. \A q \in Pull, m \in Round : <<q, m>> # <<p, n>> =>
           runner'[q][m] = runner[q][m] /\ (IsOpen(q, m) => IsOpen(q, m)')
    <3>1. \A q \in Pull, m \in Round : <<q, m>> # <<p, n>> => (IsOpen(q, m) => IsOpen(q, m)')
      BY <1>4, EndingEffect, OutcomeEffect, NoEffect
    <3>2. \A q \in Pull, m \in Round : <<q, m>> # <<p, n>> => runner'[q][m] = runner[q][m]
      BY <1>4, Elsewhere
    <3> QED
      BY <3>1, <3>2
  <2> QED
    BY <2>1, <2>2
<1>5. ASSUME NEW p \in Pull, NEW n \in Round, Moving(p, n) PROVE Owned'
  <2>1. \A q \in Pull, m \in Round : IsOpen(q, m)' <=> IsOpen(q, m)
    BY <1>5, MovingEffect, NoEffect
  <2>2. \A q \in Pull, m \in Round :
           runner'[q][m] \in Registered \cup {"writing"} => runner[q][m] \in Registered \cup {"writing"}
    BY <1>5, GoroutineEffect
  <2> QED
    BY <2>1, <2>2
<1> QED
  BY Kinds, <1>1, <1>2, <1>3, <1>4, <1>5

\* Whoever lets go of an open round writes its outcome or loses the write.
LEMMA AttendedStep == ASSUME UpkeepInv, UpkeepNext PROVE Attended'
<1> USE DEF UpkeepInv, Attended, Live
<1>1. CASE ProcessNext
  <2>1. /\ \A q \in Pull, m \in Round : IsOpen(q, m)' <=> IsOpen(q, m)
        /\ lost' = lost
    BY <1>1, ProcessEffect, NoEffect
  <2>2. CASE Boot
    BY <2>1, <2>2 DEF Boot, OpenRepairs, RoundId
  <2>3. CASE RecoveryDone
    BY <2>1, <2>3 DEF RecoveryDone, runnerVars
  <2>4. CASE Shutdown \/ Exit \/ Crash
    BY <2>4 DEF Shutdown, Exit, Crash, Die
  <2>5. CASE SweepHangs
    BY <2>1, <2>5 DEF SweepHangs, runnerVars
  <2> QED
    BY <1>1, <2>2, <2>3, <2>4, <2>5 DEF ProcessNext
<1>2. ASSUME NEW p \in Pull, Bystander(p) PROVE Attended'
  BY <1>2, BystanderEffect, QuietEffect
<1>3. ASSUME NEW p \in Pull, Opening(p) PROVE Attended'
  <2>1. StartRepair(p) /\ daemon = "up" /\ daemon' = daemon /\ recovery' = recovery
    BY <1>3 DEF Opening, OpenRound, OpenRoundUnacknowledged, processVars
  <2>2. rounds[p] + 1 \in Round
    BY <2>1, OpeningEffect
  <2>3. CASE OpenRound(p)
    <3>1. runner'[p][rounds[p] + 1] = "spawned"
      BY <2>2, <2>3 DEF OpenRound, UpkeepTypeOK
    <3>2. \A q \in Pull, m \in Round : <<q, m>> # <<p, rounds[p] + 1>> => runner'[q][m] = runner[q][m]
      BY <2>3 DEF OpenRound, UpkeepTypeOK
    <3>3. lost' = lost
      BY <2>3 DEF OpenRound
    <3> QED
      BY <2>1, <3>1, <3>2, <3>3, OpeningEffect
  <2>4. CASE OpenRoundUnacknowledged(p)
    BY <2>1, <2>4, OpeningEffect DEF OpenRoundUnacknowledged, runnerVars
  <2> QED
    BY <1>3, <2>3, <2>4 DEF Opening
<1>4. ASSUME NEW p \in Pull, NEW n \in Round, Ending(p, n) PROVE Attended'
  <2>1. \A q \in Pull, m \in Round :
           (IsOpen(q, m)' => IsOpen(q, m)) /\ (<<q, m>> # <<p, n>> => (IsOpen(q, m)' <=> IsOpen(q, m)))
    BY <1>4, EndingEffect, OutcomeEffect, NoEffect
  <2>2. daemon' = daemon /\ lost' = lost
    BY <1>4 DEF Ending, RecoverOne, Write, Backstop, processVars
  <2>3. CASE Write(p, n)
    <3>1. runner'[p][n] = "returning"
      BY <2>3 DEF Write, Return, Move, UpkeepTypeOK
    <3> QED
      BY <1>4, <2>1, <2>2, <3>1, GoroutineEffect
  <2>4. CASE daemon \in Live /\ (RecoverOne(p, n) \/ Backstop(p, n))
    <3>1. ~IsOpen(p, n)'
      <4>1. CASE UNCHANGED bumpVars /\ ~IsTarget(p, n)
        BY <4>1, OpenIsTarget, NoEffect
      <4>2. CASE \E o \in Outcome : RecordOutcome(p, n, o, NoSha)
        BY <4>2, OutcomeEffect
      <4> QED
        BY <2>4, <4>1, <4>2 DEF RecoverOne, Backstop, RecoveryOutcome, Outcome
    <3> QED
      BY <1>4, <2>1, <2>2, <3>1, GoroutineEffect
  <2> QED
    BY <1>4, <2>2, <2>3, <2>4 DEF Ending
<1>5. ASSUME NEW p \in Pull, NEW n \in Round, Moving(p, n) PROVE Attended'
  <2>1. \A q \in Pull, m \in Round : IsOpen(q, m)' <=> IsOpen(q, m)
    BY <1>5, MovingEffect, NoEffect
  <2>2. \/ runner[p][n] # "idle" => runner'[p][n] # "idle"
        \/ <<p, n>> \in lost'
    <3>1. CASE Bail(p, n) \/ WriteFails(p, n)
      BY <3>1 DEF Bail, WriteFails, Return, Move, UpkeepTypeOK
    <3>2. CASE ~(Bail(p, n) \/ WriteFails(p, n))
      BY <1>5, <3>2
      DEF Moving, RecoverOneFails, CancelClosedBumps, ApiStop, Prepare, SetupFails, Push, PushFails,
          Decide, BackstopFails, Move, runnerVars, UpkeepTypeOK
    <3> QED
      BY <3>1, <3>2
  <2>3. <<p, n>> \in recovery => <<p, n>> \in recovery' \/ <<p, n>> \in lost'
    BY <1>5
    DEF Moving, RecoverOneFails, CancelClosedBumps, ApiStop, Prepare, SetupFails, Bail, Push, PushFails,
        Decide, WriteFails, BackstopFails
  <2> QED
    BY <1>5, <2>1, <2>2, <2>3, GoroutineEffect
<1> QED
  BY Kinds, <1>1, <1>2, <1>3, <1>4, <1>5

\* A closed bump stays closed, whoever is told so.
LEMMA ClosedStays ==
  ASSUME UpkeepInv, UpkeepNext, NEW q \in Pull, state[q] = "closed" PROVE state'[q] = "closed"
<1> USE DEF UpkeepInv
<1>1. CASE ProcessNext
  BY <1>1, ProcessEffect DEF bumpVars
<1>2. ASSUME NEW p \in Pull, Bystander(p) PROVE state'[q] = "closed"
  BY <1>2, BystanderEffect, QuietEffect
<1>3. ASSUME NEW p \in Pull, Opening(p) PROVE state'[q] = "closed"
  <2>1. StartRepair(p)
    BY <1>3 DEF Opening, OpenRound, OpenRoundUnacknowledged
  <2> QED
    BY <2>1, OpeningEffect
<1>4. ASSUME NEW p \in Pull, NEW n \in Round, Ending(p, n) PROVE state'[q] = "closed"
  <2>1. CASE UNCHANGED bumpVars
    BY <2>1 DEF bumpVars
  <2>2. ASSUME NEW o \in Outcome, NEW s \in Sha, RecordOutcome(p, n, o, s) PROVE state'[q] = "closed"
    BY <2>2, OutcomeEffect
  <2> QED
    BY <1>4, <2>1, <2>2, EndingEffect
<1>5. ASSUME NEW p \in Pull, NEW n \in Round, Moving(p, n) PROVE state'[q] = "closed"
  BY <1>5, MovingEffect DEF bumpVars
<1> QED
  BY Kinds, <1>1, <1>2, <1>3, <1>4, <1>5

\* CancelClosedBumps looks at the bump, and an answer repeats the reason.
LEMMA TruthfulStep == ASSUME UpkeepInv, UpkeepNext PROVE Truthful'
<1> USE DEF UpkeepInv
<1>0. SUFFICES ASSUME NEW q \in Pull, NEW m \in Round,
                      "pull_request_closed" \in {reason'[q][m], answer'[q][m]}
               PROVE  "pull_request_closed" \in {reason[q][m], answer[q][m]} \/ state[q] = "closed"
  BY ClosedStays DEF Truthful
<1>1. CASE ProcessNext
  BY <1>0, <1>1, ProcessRunners DEF Fill
<1>2. ASSUME NEW p \in Pull, Bystander(p)
      PROVE  "pull_request_closed" \in {reason[q][m], answer[q][m]}
  BY <1>0, <1>2, BystanderEffect
<1>3. ASSUME NEW p \in Pull, Opening(p)
      PROVE  "pull_request_closed" \in {reason[q][m], answer[q][m]}
  BY <1>0, <1>3 DEF Opening, OpenRound, OpenRoundUnacknowledged, runnerVars
<1>4. ASSUME NEW p \in Pull, NEW n \in Round, Ending(p, n) \/ Moving(p, n)
      PROVE  "pull_request_closed" \in {reason[q][m], answer[q][m]} \/ state[q] = "closed"
  <2>1. CASE <<q, m>> # <<p, n>>
    <3>1. reason'[q][m] = reason[q][m] /\ answer'[q][m] = answer[q][m]
      BY <1>4, <2>1, Elsewhere
    <3> QED
      BY <1>0, <3>1
  <2>2. CASE q = p /\ m = n
    <3> USE DEF UpkeepTypeOK
    <3>1. CASE CancelClosedBumps(p, n)
      BY <2>2, <3>1 DEF CancelClosedBumps
    <3>2. CASE Bail(p, n) \/ Write(p, n) \/ WriteFails(p, n)
      BY <1>0, <2>2, <3>2 DEF Bail, Write, WriteFails, Return
    <3>3. CASE SetupFails(p, n)
      BY <1>0, <2>2, <3>3 DEF SetupFails
    <3>4. ASSUME NEW o \in Outcome \cup {"none"}, Decide(p, n, o)
          PROVE  "pull_request_closed" \in {reason[q][m], answer[q][m]}
      <4>1. o = "pull_request_closed" => reason[p][n] = "pull_request_closed"
        BY <3>4 DEF Decide, Answers
      <4> QED
        BY <1>0, <2>2, <3>4, <4>1 DEF Decide
    <3>5. CASE ApiStop(p, n)
      BY <1>0, <2>2, <3>5 DEF ApiStop
    <3>6. CASE UNCHANGED <<reason, answer>>
      BY <1>0, <3>6
    <3> QED
      BY <1>4, <3>1, <3>2, <3>3, <3>4, <3>5, <3>6
      DEF Ending, Moving, RecoverOne, Backstop, RecoverOneFails, Prepare, Push, PushFails,
          BackstopFails, runnerVars
  <2> QED
    BY <2>1, <2>2
<1> QED
  BY Kinds, <1>1, <1>2, <1>3, <1>4

\* A pushed answer is decided with the commit at hand, and no round opens, with
\* another base, while a repairer is writing.
LEMMA AnsweredStep == ASSUME UpkeepInv, UpkeepNext PROVE Answered'
<1> USE DEF UpkeepInv
<1>0. SUFFICES ASSUME NEW q \in Pull, NEW m \in Round, answer'[q][m] = "pushed"
               PROVE  runner'[q][m] = "writing" /\ work'[q][m] \in Sha /\ work'[q][m] # base'[q]
  BY DEF Answered
<1>1. CASE ProcessNext
  BY <1>0, <1>1, ProcessRunners, ProcessEffect DEF Fill, Answered, bumpVars
<1>2. ASSUME NEW p \in Pull, Bystander(p)
      PROVE  runner'[q][m] = "writing" /\ work'[q][m] \in Sha /\ work'[q][m] # base'[q]
  BY <1>0, <1>2, BystanderEffect, QuietEffect DEF Answered
<1>3. ASSUME NEW p \in Pull, Opening(p)
      PROVE  runner'[q][m] = "writing" /\ work'[q][m] \in Sha /\ work'[q][m] # base'[q]
  <2>1. StartRepair(p) /\ answer' = answer /\ work' = work
    BY <1>3 DEF Opening, OpenRound, OpenRoundUnacknowledged, runnerVars
  <2>2. runner[q][m] = "writing" /\ work[q][m] \in Sha /\ work[q][m] # base[q]
    BY <1>0, <2>1 DEF Answered
  <2>3. q # p
    BY <2>1, <2>2, OpeningEffect DEF Owned, OpenRounds
  <2>4. runner'[q][m] = runner[q][m]
    BY <1>3, <2>3 DEF Opening, OpenRound, OpenRoundUnacknowledged, runnerVars, UpkeepTypeOK
  <2> QED
    BY <2>1, <2>2, <2>3, <2>4, OpeningEffect
<1>4. ASSUME NEW p \in Pull, NEW n \in Round, Ending(p, n) \/ Moving(p, n)
      PROVE  runner'[q][m] = "writing" /\ work'[q][m] \in Sha /\ work'[q][m] # base'[q]
  <2>1. base' = base
    <3>1. CASE UNCHANGED bumpVars
      BY <3>1 DEF bumpVars
    <3>2. CASE \E o \in Outcome, s \in Sha : RecordOutcome(p, n, o, s)
      BY <3>2, OutcomeEffect
    <3> QED
      BY <1>4, <3>1, <3>2, EndingEffect, MovingEffect
  <2>2. CASE <<q, m>> # <<p, n>>
    <3>1. /\ answer'[q][m] = answer[q][m] /\ work'[q][m] = work[q][m]
          /\ runner'[q][m] = runner[q][m]
      BY <1>4, <2>2, Elsewhere
    <3> QED
      BY <1>0, <2>1, <3>1 DEF Answered
  <2>3. CASE q = p /\ m = n
    <3> USE DEF UpkeepTypeOK
    <3>1. CASE Bail(p, n) \/ Write(p, n) \/ WriteFails(p, n)
      BY <1>0, <2>3, <3>1 DEF Bail, Write, WriteFails, Return
    <3>2. CASE SetupFails(p, n)
      BY <1>0, <2>3, <3>2 DEF SetupFails
    <3>3. ASSUME NEW o \in Outcome \cup {"none"}, Decide(p, n, o)
          PROVE  runner'[q][m] = "writing" /\ work'[q][m] \in Sha /\ work'[q][m] # base'[q]
      <4>1. o = "pushed"
        BY <1>0, <2>3, <3>3 DEF Decide
      <4>2. work[p][n] # NoSha /\ work[p][n] # base[p]
        BY <3>3, <4>1 DEF Decide, Answers
      <4> QED
        BY <2>1, <2>3, <3>3, <4>2 DEF Decide, Move
    <3>4. CASE UNCHANGED <<runner, work, answer>>
      BY <1>0, <2>1, <3>4 DEF Answered
    <3>5. CASE Prepare(p, n) \/ Push(p, n) \/ PushFails(p, n) \/ Backstop(p, n) \/ BackstopFails(p, n)
      <4>1. runner[p][n] \in {"spawned", "running", "returning"} /\ answer' = answer
        BY <3>5 DEF Prepare, Push, PushFails, Backstop, BackstopFails, Move
      <4> QED
        BY <1>0, <2>3, <4>1 DEF Answered
    <3> QED
      BY <1>4, <3>1, <3>2, <3>3, <3>4, <3>5
      DEF Ending, Moving, RecoverOne, RecoverOneFails, CancelClosedBumps, ApiStop, runnerVars
  <2> QED
    BY <2>2, <2>3
<1> QED
  BY Kinds, <1>1, <1>2, <1>3, <1>4

\* The scheduler opens a round on a failing head, and a verdict is recorded once.
LEMMA GroundedStep == ASSUME UpkeepInv, UpkeepNext PROVE Grounded'
<1> USE DEF UpkeepInv
<1>1. CASE UNCHANGED bumpVars
  BY <1>1, NoEffect DEF Grounded, bumpVars
<1>2. ASSUME NEW p \in Pull, Quiet(p) PROVE Grounded'
  <2> USE DEF BumpInv, TypeOK
  <2>1. \A q \in Pull : state'[q] # "absent" => head'[q] \in Sha
    BY <1>2 DEF Quiet, NewBump, AdvanceHead, RecordVerdict, RecordRun, Abandon, Retry, Close,
       bumpVars, Grounded
  <2>2. \A q \in Pull, s \in Sha : verdict[q][s] = "failure" => verdict'[q][s] = "failure"
    <3>1. ASSUME NEW t \in Sha, NEW c \in Conclusion, RecordVerdict(p, t, c)
          PROVE  \A q \in Pull, s \in Sha : verdict[q][s] = "failure" => verdict'[q][s] = "failure"
      BY <3>1 DEF RecordVerdict
    <3>2. CASE verdict' = verdict
      BY <3>2
    <3> QED
      BY <1>2, <3>1, <3>2
      DEF Quiet, NewBump, AdvanceHead, RecordRun, Abandon, Retry, Close, bumpVars
  <2>3. base' = base /\ \A q \in Pull : OpenRounds(q)' = OpenRounds(q)
    BY <1>2, QuietEffect
  <2> QED
    BY <2>1, <2>2, <2>3 DEF Grounded
<1>3. ASSUME NEW p \in Pull, Opening(p) PROVE Grounded'
  <2> USE DEF BumpInv, TypeOK
  <2>1. StartRepair(p) /\ verdict[p][head[p]] = "failure"
    BY <1>3 DEF Opening, OpenRound, OpenRoundUnacknowledged, HasBrief, CurrentVerdict
  <2>2. /\ head' = head /\ verdict' = verdict
        /\ state[p] = "queued" /\ base'[p] = head[p]
        /\ \A q \in Pull \ {p} : state'[q] = state[q] /\ base'[q] = base[q]
    BY <2>1 DEF StartRepair
  <2>3. head[p] \in Sha
    BY <2>2 DEF Grounded
  <2>4. \A q \in Pull \ {p} : OpenRounds(q)' = OpenRounds(q)
    BY <2>1, OpeningEffect DEF OpenRounds
  <2> QED
    BY <2>1, <2>2, <2>3, <2>4 DEF Grounded
<1>4. ASSUME NEW p \in Pull, NEW n \in Round, NEW o \in Outcome, NEW s \in Sha, RecordOutcome(p, n, o, s)
      PROVE  Grounded'
  <2>1. \A q \in Pull : OpenRounds(q)' \subseteq OpenRounds(q)
    BY <1>4, OutcomeEffect DEF OpenRounds
  <2>2. base' = base /\ verdict' = verdict
    BY <1>4, OutcomeEffect
  <2>3. \A q \in Pull : state'[q] # "absent" => head'[q] \in Sha
    BY <1>4 DEF RecordOutcome, Grounded, BumpInv, TypeOK
  <2> QED
    BY <2>1, <2>2, <2>3 DEF Grounded
<1>5. ASSUME NEW p \in Pull, NEW n \in Round, Ending(p, n) \/ Moving(p, n) PROVE Grounded'
  BY <1>1, <1>4, <1>5, EndingEffect, MovingEffect
<1> QED
  BY Kinds, <1>1, <1>2, <1>3, <1>5, ProcessEffect, BystanderEffect

-----------------------------------------------------------------------------

\* The initial state: an idle daemon, no bump and no pull request.
LEMMA InitUpkeep == UpkeepInit => UpkeepInv
<1> SUFFICES ASSUME UpkeepInit PROVE UpkeepInv
  OBVIOUS
<1>1. BumpInv
  BY InitInv DEF UpkeepInit
<1>2. \A p \in Pull : OpenRounds(p) = {} /\ \A n \in Round : ~IsOpen(p, n)
  BY DEF UpkeepInit, Init, OpenRounds, IsOpen, Open
<1>3. /\ runner \in [Pull -> [Round -> RunnerPc]]
      /\ reason \in [Pull -> [Round -> {"none", "operator_stop", "pull_request_closed"}]]
      /\ work \in [Pull -> [Round -> Sha \cup {NoSha}]]
      /\ answer \in [Pull -> [Round -> Outcome \cup {"none"}]]
  BY FillType DEF UpkeepInit, RunnerPc
<1>4. UpkeepTypeOK
  BY <1>1, <1>3, UpkeepAssumption DEF BumpInv, UpkeepInit, UpkeepTypeOK, Serving, Live
<1>5. Quiescent /\ Attended
  BY <1>2 DEF UpkeepInit, Quiescent, Attended, Fill
<1>6. Owned /\ Truthful /\ Answered
  BY DEF UpkeepInit, Owned, Truthful, Answered, Fill, Registered
<1>7. Grounded
  BY <1>2 DEF UpkeepInit, Init, Grounded
<1> QED
  BY <1>1, <1>4, <1>5, <1>6, <1>7 DEF UpkeepInv

\* Every step keeps it; a step outside the daemon changes nothing it speaks of.
LEMMA StepUpkeep == UpkeepInv /\ [UpkeepNext]_vars => UpkeepInv'
<1> SUFFICES ASSUME UpkeepInv, [UpkeepNext]_vars PROVE UpkeepInv'
  OBVIOUS
<1>1. CASE UpkeepNext
  <2>1. BumpInv'
    BY <1>1, BumpStep, NextInv DEF UpkeepInv
  <2>2. UpkeepTypeOK'
    BY <1>1, <2>1, TypeStep DEF BumpInv
  <2> QED
    BY <1>1, <2>1, <2>2, QuiescentStep, OwnedStep, AttendedStep, TruthfulStep, AnsweredStep,
       GroundedStep
    DEF UpkeepInv
<1>2. CASE UNCHANGED vars
  <2>1. BumpInv'
    BY <1>2, NextInv DEF UpkeepInv, vars
  <2>2. /\ \A p \in Pull, n \in Round : IsOpen(p, n)' <=> IsOpen(p, n)
        /\ \A p \in Pull : OpenRounds(p)' = OpenRounds(p)
    BY <1>2, NoEffect DEF vars
  <2>3. UNCHANGED <<state, head, verdict, base, daemon, restarts, failures, watched, pr, tip, inbox,
                    visiting, runner, reason, work, answer, recovery, lost>>
    BY <1>2 DEF vars, bumpVars, processVars, githubVars, runnerVars
  <2>4. UpkeepTypeOK'
    BY <2>1, <2>3 DEF UpkeepInv, BumpInv, UpkeepTypeOK
  <2>5. Quiescent' /\ Owned' /\ Attended'
    BY <2>2, <2>3 DEF UpkeepInv, Quiescent, Owned, Attended
  <2>6. Truthful' /\ Answered' /\ Grounded'
    BY <2>2, <2>3 DEF UpkeepInv, Truthful, Answered, Grounded
  <2> QED
    BY <2>1, <2>4, <2>5, <2>6 DEF UpkeepInv
<1> QED
  BY <1>1, <1>2

\* The inductive invariant of the daemon.
THEOREM UpkeepInvariant == UpkeepSpec => []UpkeepInv
BY InitUpkeep, StepUpkeep, PTL DEF UpkeepSpec

-----------------------------------------------------------------------------
\* What follows from it.

\* Whatever translator, scheduler, repairers, backstops, restarts and the
\* operator do to a bump is one of its commands.
THEOREM DaemonImplementsBump == UpkeepSpec => ImplementsBump
<1>1. UpkeepInit => Init
  BY DEF UpkeepInit
<1>2. UpkeepInv /\ [UpkeepNext]_vars => [Next]_bumpVars
  BY BumpStep DEF vars
<1> QED
  BY <1>1, <1>2, UpkeepInvariant, PTL DEF UpkeepSpec, ImplementsBump, BumpSpec

\* The daemon's and GitHub's variables keep their types.
THEOREM DaemonTypeCorrect == UpkeepSpec => []UpkeepTypeOK
<1>1. UpkeepInv => UpkeepTypeOK
  BY DEF UpkeepInv
<1> QED
  BY <1>1, UpkeepInvariant, PTL

\* No sequence of deliveries, rounds, restarts and retries writes a bump that the
\* next load refuses.
THEOREM DaemonLoadable == UpkeepSpec => []Loadable
BY DaemonImplementsBump, AlwaysLoadable, PTL DEF ImplementsBump

\* Nor one that waits for a round the cap will refuse.
THEOREM DaemonCapped == UpkeepSpec => []CapHolds
BY DaemonImplementsBump, Capped, PTL DEF ImplementsBump

\* And every round of the daemon is paid for.
THEOREM DaemonJustified == UpkeepSpec => []RoundsAreJustified
BY DaemonImplementsBump, Justified, PTL DEF ImplementsBump

\* Nobody's round: only a failed write can leave one.
THEOREM RoundsAttended == UpkeepSpec => []RoundsAreAttended
<1>1. ASSUME UpkeepInv PROVE RoundsAreAttended
  <2>1. ASSUME daemon \in {"up", "hung"}, NEW r \in OpenRepairs \ lost PROVE runner[r[1]][r[2]] # "idle"
    <3>1. /\ r[1] \in Pull /\ r[2] \in Round /\ r = <<r[1], r[2]>>
          /\ IsOpen(r[1], r[2])
      BY <2>1 DEF OpenRepairs, RoundId
    <3> QED
      BY <1>1, <2>1, <3>1 DEF UpkeepInv, Attended, Quiescent, Live
  <2> QED
    BY <2>1 DEF RoundsAreAttended
<1> QED
  BY <1>1, UpkeepInvariant, PTL

\* A repairer never works on a round that somebody else has ended, and two never
\* work on one branch.
THEOREM RepairersOwn == UpkeepSpec => []RepairerOwnsRound
<1>1. ASSUME UpkeepInv PROVE RepairerOwnsRound
  <2>1. \A p \in Pull, n \in Round : IsOpen(p, n) => IsTarget(p, n) /\ n = rounds[p]
    BY <1>1, OpenIsTarget, TargetIsLatest DEF UpkeepInv
  <2> QED
    BY <1>1, <2>1 DEF UpkeepInv, Owned, RepairerOwnsRound
<1> QED
  BY <1>1, UpkeepInvariant, PTL

\* The store takes every repairer's answer.
THEOREM AnswersLand == UpkeepSpec => []AnswerLands
<1>1. ASSUME UpkeepInv PROVE AnswerLands
  <2>1. \A p \in Pull, n \in Round : runner[p][n] = "writing" => IsTarget(p, n)
    BY <1>1, OpenIsTarget DEF UpkeepInv, Owned
  <2> QED
    BY <1>1, <2>1 DEF UpkeepInv, Truthful, Answered, AnswerLands, Refused
<1> QED
  BY <1>1, UpkeepInvariant, PTL

\* autophage replaces only commits whose checks failed: the round was opened on
\* one, and the push's lease is that commit.
THEOREM PushesReplace == UpkeepSpec => PushesReplaceFailures
<1> DEFINE Replaces ==
      \A p \in Pull, n \in Round :
          runner[p][n] = "running" /\ runner'[p][n] = "pushed" /\ tip'[p] # tip[p]
              => verdict[p][tip[p]] = "failure"
<1>1. ASSUME UpkeepInv, [UpkeepNext]_vars PROVE [Replaces]_vars
  <2> USE <1>1 DEF UpkeepInv, UpkeepTypeOK
  <2>1. CASE UNCHANGED vars
    BY <2>1
  <2>2. CASE tip' = tip
    BY <2>2
  <2>3. CASE UNCHANGED runner
    BY <2>3
  <2>4. ASSUME NEW p \in Pull, NEW n \in Round, Push(p, n) \/ PushFails(p, n) PROVE Replaces
    <3>1. \A q \in Pull \ {p} : tip'[q] = tip[q]
      BY <2>4 DEF Push, PushFails
    <3>2. tip'[p] # tip[p] => tip[p] = base[p]
      BY <2>4 DEF Push, PushFails, AtBase
    <3>3. OpenRounds(p) # {}
      BY <2>4 DEF Push, PushFails, Move, Owned, OpenRounds, Registered
    <3> QED
      BY <3>1, <3>2, <3>3 DEF Grounded
  <2>5. CASE UpkeepNext /\ tip' # tip
    <3>1. \A p \in Pull : Bystander(p) => Replaces
      BY <2>3, BystanderEffect
    <3>2. ~ProcessNext /\ \A p \in Pull : ~Opening(p)
      BY <2>5, ProcessEffect DEF Opening, OpenRound, OpenRoundUnacknowledged, githubVars
    <3>3. ASSUME NEW p \in Pull, NEW n \in Round, Ending(p, n) \/ Moving(p, n)
          PROVE  Push(p, n) \/ PushFails(p, n)
      BY <2>5, <3>3
      DEF Ending, Moving, RecoverOne, Write, Backstop, RecoverOneFails, CancelClosedBumps, ApiStop,
          Prepare, SetupFails, Bail, Decide, WriteFails, BackstopFails, githubVars
    <3> QED
      BY <2>4, <2>5, <3>1, <3>2, <3>3, Kinds
  <2> QED
    BY <2>1, <2>2, <2>5
<1> QED
  BY <1>1, UpkeepInvariant, PTL DEF UpkeepSpec, PushesReplaceFailures
=============================================================================
