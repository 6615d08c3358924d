----------------------------- MODULE CaseProofs -----------------------------
(***************************************************************************)
(* Proofs about the aggregate of Case, for every finite set of issues and  *)
(* every bound.  The invariants the runs check are inductive once the      *)
(* shape of an attempt log (Shape) is known: attempts and kinds fill up    *)
(* from the front, and a case that was never queued has none.              *)
(***************************************************************************)
EXTENDS Case, FiniteSetTheorems, TLAPS

\* The log of attempts fills up from the front; a case that triage or an
\* approval has not queued yet has no attempt; the first approval is always
\* younger than the (missing) latest attempt.
Shape ==
    \A i \in Issue :
        /\ \A n \in Ordinal : n > attempts[i] => attempt[i][n] = "none" /\ kind[i][n] = "none"
        /\ state[i] \in {"absent", "gated", "received"} => attempts[i] = 0
        /\ approvals[i] > 0 /\ attempts[i] = 0 => approvedSince[i]

CaseInv ==
    /\ TypeOK
    /\ Shape
    /\ Loadable
    /\ AttemptingMatchesOpen
    /\ RunsAreJustified
    /\ GateHolds

\* The attempts of the approved tier, and a queued case whose next one will be
\* of that tier: what ApprovedRunsArePaid has to leave room for.
Bought(i) == {n \in Ordinal : kind[i][n] = "approved"}

Promised(i) == state[i] = "queued" /\ approvals[i] > 0 /\ approvedSince[i]

Covered(i) ==
    Cardinality(Bought(i)) + (IF Promised(i) THEN 1 ELSE 0)
        <= approvals[i] + (IF Restarted(i) THEN 1 ELSE 0)

AllCovered == \A i \in Issue : Covered(i)

-----------------------------------------------------------------------------

\* The initial states: no case, no fact.
LEMMA InitInv == Init => CaseInv
<1> SUFFICES ASSUME Init PROVE CaseInv
  OBVIOUS
<1> USE CaseAssumption
<1>1. TypeOK
  BY DEF Init, TypeOK
<1>2. \A i \in Issue : OpenOrdinals(i) = {}
  BY DEF Init, OpenOrdinals, IsOpen, Open
<1>3. Shape /\ Loadable /\ AttemptingMatchesOpen /\ GateHolds
  BY <1>2 DEF Init, Shape, Loadable, AttemptingMatchesOpen, GateHolds
<1>4. RunsAreJustified
  BY DEF Init, RunsAreJustified, Restarted
<1> QED
  BY <1>1, <1>3, <1>4 DEF CaseInv

\* NewCase: a fresh case has no attempt, whatever state it starts in.
LEMMA NewCaseInv == ASSUME CaseInv, NEW i \in Issue, NewCase(i) PROVE CaseInv'
<1> USE CaseAssumption DEF CaseInv, NewCase, InitialState, OpenOrdinals, IsOpen
<1>1. TypeOK'
  BY DEF TypeOK, CaseState
<1>2. Shape'
  BY DEF TypeOK, Shape
<1>3. Loadable'
  BY DEF TypeOK, Loadable
<1>4. AttemptingMatchesOpen'
  BY DEF TypeOK, Shape, AttemptingMatchesOpen, Open
<1>5. RunsAreJustified'
  BY DEF TypeOK, RunsAreJustified, Restarted
<1>6. GateHolds'
  BY DEF TypeOK, GateHolds
<1> QED
  BY <1>1, <1>2, <1>3, <1>4, <1>5, <1>6

\* RecordTriage: only a trusted requester's case is received.
LEMMA RecordTriageInv ==
  ASSUME CaseInv, NEW i \in Issue, NEW size \in {"small", "large"}, RecordTriage(i, size)
  PROVE  CaseInv'
<1> USE CaseAssumption DEF CaseInv, RecordTriage, TriageMove, OpenOrdinals, IsOpen
<1>1. TypeOK'
  BY DEF TypeOK, CaseState
<1>2. Shape'
  BY DEF TypeOK, Shape
<1>3. Loadable'
  BY DEF TypeOK, Loadable
<1>4. AttemptingMatchesOpen'
  BY DEF TypeOK, Shape, AttemptingMatchesOpen, Open
<1>5. RunsAreJustified'
  BY DEF TypeOK, RunsAreJustified, Restarted
<1>6. GateHolds'
  BY DEF TypeOK, GateHolds, Loadable, Shape
<1> QED
  BY <1>1, <1>2, <1>3, <1>4, <1>5, <1>6

\* RecordApproval: one more approval pays for the run it queues.
LEMMA RecordApprovalInv == ASSUME CaseInv, NEW i \in Issue, RecordApproval(i) PROVE CaseInv'
<1> USE CaseAssumption DEF CaseInv, RecordApproval, Approvable, OpenOrdinals, IsOpen
<1>1. TypeOK'
  BY DEF TypeOK, CaseState, Terminal
<1>2. Shape'
  BY DEF TypeOK, Shape
<1>3. Loadable'
  BY DEF TypeOK, Loadable
<1>4. AttemptingMatchesOpen'
  BY DEF TypeOK, AttemptingMatchesOpen, Open
<1>5. RunsAreJustified'
  BY DEF TypeOK, RunsAreJustified, Restarted
<1>6. GateHolds'
  BY DEF TypeOK, GateHolds
<1> QED
  BY <1>1, <1>2, <1>3, <1>4, <1>5, <1>6

\* StartAttempt: the run the case was queued for becomes an attempt.
LEMMA StartAttemptInv == ASSUME CaseInv, NEW i \in Issue, StartAttempt(i) PROVE CaseInv'
<1> USE CaseAssumption DEF CaseInv, StartAttempt
<1>1. TypeOK'
  <2>1. PICK same \in {FALSE, approvedSince[i]} : approvedSince' = [approvedSince EXCEPT ![i] = same]
    OBVIOUS
  <2>2. approvedSince' \in [Issue -> BOOLEAN]
    BY <2>1 DEF TypeOK
  <2>3. attempts[i] + 1 \in Ordinal /\ attempts' \in [Issue -> 0..MaxAttempts]
    BY DEF TypeOK, Ordinal
  <2>4. attempt' \in [Issue -> [Ordinal -> Open \cup Outcome \cup {"none"}]]
    BY <2>3 DEF TypeOK, Open
  <2>5. kind' \in [Issue -> [Ordinal -> {"none", "auto", "approved"}]]
    BY <2>3 DEF TypeOK, NextAttemptKind
  <2> QED
    BY <2>2, <2>3, <2>4, <2>5 DEF TypeOK, CaseState
<1>2. Shape'
  BY DEF TypeOK, Shape, Ordinal
<1>3. /\ OpenOrdinals(i)' = {attempts[i] + 1}
      /\ \A j \in Issue \ {i} : OpenOrdinals(j)' = OpenOrdinals(j)
  BY DEF TypeOK, OpenOrdinals, IsOpen, Open, Ordinal
<1>4. Loadable'
  BY <1>3 DEF TypeOK, Loadable
<1>5. AttemptingMatchesOpen'
  BY <1>3 DEF TypeOK, AttemptingMatchesOpen
<1>6. \A j \in Issue : Restarted(j)' <=> Restarted(j)
  <2>1. attempt[i][attempts[i] + 1] = "none"
    BY DEF TypeOK, Shape, Ordinal
  <2> QED
    BY <2>1 DEF TypeOK, Restarted
<1>7. RunsAreJustified'
  BY <1>6 DEF TypeOK, RunsAreJustified
<1>8. GateHolds'
  BY DEF TypeOK, GateHolds
<1> QED
  BY <1>1, <1>2, <1>4, <1>5, <1>7, <1>8

\* RecordRun: an open attempt stays open.
LEMMA RecordRunInv ==
  ASSUME CaseInv, NEW i \in Issue, NEW n \in Ordinal, RecordRun(i, n) PROVE CaseInv'
<1> USE CaseAssumption DEF CaseInv, RecordRun
<1>1. TypeOK'
  BY DEF TypeOK, Open
<1>2. \A j \in Issue : OpenOrdinals(j)' = OpenOrdinals(j)
  BY DEF TypeOK, OpenOrdinals, IsOpen, Open
<1>3. Shape'
  BY DEF TypeOK, Shape
<1>4. Loadable' /\ AttemptingMatchesOpen'
  BY <1>2 DEF Loadable, AttemptingMatchesOpen
<1>5. \A j \in Issue : Restarted(j)' = Restarted(j)
  BY DEF TypeOK, Restarted
<1>6. RunsAreJustified' /\ GateHolds'
  BY <1>5 DEF RunsAreJustified, GateHolds
<1> QED
  BY <1>1, <1>3, <1>4, <1>6

\* RecordOutcome: the only outcome that queues the case again is its first
\* daemon restart, which is the credit RunsAreJustified counts.
LEMMA RecordOutcomeInv ==
  ASSUME CaseInv, NEW i \in Issue, NEW n \in Ordinal, NEW o \in Outcome, RecordOutcome(i, n, o)
  PROVE  CaseInv'
<1> USE CaseAssumption DEF CaseInv, RecordOutcome
<1>1. TypeOK'
  BY DEF TypeOK, CaseState, Terminal, OutcomeMove
<1>2. n = attempts[i] /\ state[i] \in {"attempting", "closed"}
  BY DEF AttemptingMatchesOpen, IsTarget, OpenOrdinals
<1>3. /\ OpenOrdinals(i)' = {}
      /\ \A j \in Issue \ {i} : OpenOrdinals(j)' = OpenOrdinals(j)
  BY DEF TypeOK, Loadable, IsTarget, OpenOrdinals, IsOpen, Open, Outcome
<1>4. state'[i] \in {"done", "closed", "awaiting_approval", "failed", "queued"}
  BY DEF TypeOK, OutcomeMove
<1>5. Shape'
  BY <1>2, <1>4 DEF TypeOK, Shape
<1>6. Loadable' /\ AttemptingMatchesOpen'
  BY <1>3, <1>4 DEF TypeOK, Loadable, AttemptingMatchesOpen
<1>7. RunsAreJustified'
  <2>1. CASE state'[i] = "queued"
    <3>1. o = "daemon_restart" /\ ~RestartedBefore(i, n)
      BY <1>2, <2>1 DEF TypeOK, OutcomeMove, Outcome
    <3>2. ~Restarted(i) /\ Restarted(i)'
      BY <1>2, <3>1 DEF TypeOK, Shape, Restarted, RestartedBefore, Ordinal, IsTarget, IsOpen, Open
    <3> QED
      BY <1>2, <3>2 DEF TypeOK, RunsAreJustified, Restarted
  <2>2. CASE state'[i] # "queued"
    <3>1. Restarted(i) => Restarted(i)'
      BY DEF TypeOK, Restarted, IsTarget, IsOpen, Open
    <3>2. \A j \in Issue \ {i} : Restarted(j)' <=> Restarted(j)
      BY DEF TypeOK, Restarted
    <3>3. /\ attempts' = attempts /\ approvals' = approvals /\ triage' = triage
          /\ \A j \in Issue \ {i} : state'[j] = state[j]
      BY DEF TypeOK
    <3> QED
      BY <2>2, <3>1, <3>2, <3>3 DEF TypeOK, RunsAreJustified
  <2> QED
    BY <2>1, <2>2
<1>8. GateHolds'
  BY <1>2 DEF TypeOK, GateHolds, Ordinal
<1> QED
  BY <1>1, <1>5, <1>6, <1>7, <1>8

\* Close: an open attempt may stay behind a closed case.
LEMMA CloseInv == ASSUME CaseInv, NEW i \in Issue, Close(i) PROVE CaseInv'
<1> USE CaseAssumption DEF CaseInv, Close, OpenOrdinals, IsOpen
<1>1. TypeOK'
  BY DEF TypeOK, CaseState, Terminal
<1>2. Shape'
  BY DEF TypeOK, Shape
<1>3. Loadable'
  BY DEF TypeOK, Loadable
<1>4. AttemptingMatchesOpen'
  BY DEF TypeOK, AttemptingMatchesOpen
<1>5. RunsAreJustified'
  BY DEF TypeOK, RunsAreJustified, Restarted
<1>6. GateHolds'
  BY DEF TypeOK, GateHolds
<1> QED
  BY <1>1, <1>2, <1>3, <1>4, <1>5, <1>6

\* Every command preserves the invariant, and so does a step of somebody else.
LEMMA NextInv == CaseInv /\ [Next]_caseVars => CaseInv'
<1> SUFFICES ASSUME CaseInv, [Next]_caseVars PROVE CaseInv'
  OBVIOUS
<1>1. CASE Next
  BY <1>1, NewCaseInv, RecordTriageInv, RecordApprovalInv, StartAttemptInv, RecordRunInv,
     RecordOutcomeInv, CloseInv DEF Next
<1>2. CASE UNCHANGED caseVars
  BY <1>2 DEF caseVars, CaseInv, TypeOK, Shape, Loadable, AttemptingMatchesOpen,
     RunsAreJustified, GateHolds, OpenOrdinals, IsOpen, Restarted
<1> QED
  BY <1>1, <1>2

-----------------------------------------------------------------------------

\* The aggregate keeps every invariant the runs check, for any set of issues
\* and any bound on attempts and approvals.
THEOREM CaseInvariant == CaseSpec => []CaseInv
BY InitInv, NextInv, PTL DEF CaseSpec

\* Type correctness of the aggregate's facts.
THEOREM TypeCorrect == CaseSpec => []TypeOK
<1>1. CaseInv => TypeOK
  BY DEF CaseInv
<1> QED
  BY <1>1, CaseInvariant, PTL

\* No sequence of commands writes a case that LoadCase would refuse.
THEOREM AlwaysLoadable == CaseSpec => []Loadable
<1>1. CaseInv => Loadable
  BY DEF CaseInv
<1> QED
  BY <1>1, CaseInvariant, PTL

\* Every run is paid for by an approval, the Small triage or the one requeue.
THEOREM Justified == CaseSpec => []RunsAreJustified
<1>1. CaseInv => RunsAreJustified
  BY DEF CaseInv
<1> QED
  BY <1>1, CaseInvariant, PTL

\* Untrusted requesters and Large issues never run without an approval.
THEOREM Gated == CaseSpec => []GateHolds
<1>1. CaseInv => GateHolds
  BY DEF CaseInv
<1> QED
  BY <1>1, CaseInvariant, PTL

-----------------------------------------------------------------------------
\* The account of the approved tier.

\* What the account is made of.
LEMMA CoverType ==
  ASSUME TypeOK, NEW i \in Issue
  PROVE  /\ IsFiniteSet(Bought(i))
         /\ Cardinality(Bought(i)) \in Nat
         /\ approvals[i] \in Nat
<1>1. IsFiniteSet(Ordinal)
  BY CaseAssumption, FS_Interval DEF Ordinal
<1>2. IsFiniteSet(Bought(i))
  BY <1>1, FS_Subset DEF Bought
<1>3. approvals[i] \in Nat
  BY CaseAssumption DEF TypeOK
<1> QED
  BY <1>2, <1>3, FS_CardinalityType

\* A case that no command gives an attempt, or a promise of one, stays covered.
LEMMA StillCovered ==
  ASSUME TypeOK, NEW i \in Issue, Covered(i),
         kind'[i] = kind[i],
         approvals'[i] = approvals[i],
         Restarted(i) => Restarted(i)',
         Promised(i)' => Promised(i)
  PROVE  Covered(i)'
<1>1. Bought(i)' = Bought(i)
  BY DEF Bought
<1> QED
  BY <1>1, CoverType DEF Covered

\* A Small triage promises a first attempt, which an approval has paid for.
LEMMA RecordTriageCovers ==
  ASSUME CaseInv, NEW i \in Issue, NEW size \in {"small", "large"}, RecordTriage(i, size), Covered(i)
  PROVE  Covered(i)'
<1> USE DEF CaseInv, TypeOK, RecordTriage
<1>1. Bought(i) = {}
  BY CaseAssumption DEF Shape, Bought, Ordinal
<1>2. Bought(i)' = {} /\ approvals'[i] = approvals[i]
  BY <1>1 DEF Bought
<1>3. Cardinality({}) = 0
  BY FS_EmptySet
<1>4. Promised(i)' => approvals[i] > 0
  BY <1>2 DEF Promised
<1> QED
  BY <1>2, <1>3, <1>4, CoverType DEF Covered

\* An approval covers the attempt it promises.
LEMMA RecordApprovalCovers ==
  ASSUME CaseInv, NEW i \in Issue, RecordApproval(i), Covered(i) PROVE Covered(i)'
<1> USE DEF CaseInv, TypeOK, RecordApproval
<1>1. Bought(i)' = Bought(i) /\ (Restarted(i)' <=> Restarted(i))
  BY DEF Bought, Restarted
<1>2. approvals'[i] = approvals[i] + 1
  OBVIOUS
<1> QED
  BY <1>1, <1>2, CoverType DEF Covered

\* An attempt of the approved tier is the promised one: a first attempt has its
\* approval before it, a later one needs an approval since the latest.
LEMMA StartAttemptCovers ==
  ASSUME CaseInv, NEW i \in Issue, StartAttempt(i), Covered(i) PROVE Covered(i)'
<1> USE DEF CaseInv, TypeOK
<1>1. attempts[i] + 1 \in Ordinal
  BY CaseAssumption DEF StartAttempt, Ordinal
<1>2. kind[i][attempts[i] + 1] = "none" /\ attempt[i][attempts[i] + 1] = "none"
  BY <1>1, CaseAssumption DEF Shape
<1>3. Restarted(i)' <=> Restarted(i)
  BY <1>1, <1>2 DEF StartAttempt, Restarted
<1>4. approvals'[i] = approvals[i] /\ ~Promised(i)'
  BY DEF StartAttempt, Promised
<1>5. CASE NextAttemptKind(i) = "auto"
  <2>1. Bought(i)' = Bought(i)
    BY <1>1, <1>2, <1>5 DEF StartAttempt, Bought
  <2> QED
    BY <1>3, <1>4, <2>1, CoverType DEF Covered
<1>6. CASE NextAttemptKind(i) = "approved"
  <2>1. Promised(i)
    BY <1>6 DEF NextAttemptKind, StartAttempt, Shape, Promised
  <2>2. Bought(i)' = Bought(i) \cup {attempts[i] + 1} /\ attempts[i] + 1 \notin Bought(i)
    BY <1>1, <1>2, <1>6 DEF StartAttempt, Bought
  <2>3. Cardinality(Bought(i))' = Cardinality(Bought(i)) + 1
    BY <2>2, CoverType, FS_AddElement
  <2> QED
    BY <1>3, <1>4, <2>1, <2>3, CoverType DEF Covered
<1> QED
  BY <1>5, <1>6 DEF NextAttemptKind

\* The outcome that queues a case again is its first restart.
LEMMA RecordOutcomeCovers ==
  ASSUME CaseInv, NEW i \in Issue, NEW n \in Ordinal, NEW o \in Outcome, RecordOutcome(i, n, o),
         Covered(i)
  PROVE  Covered(i)'
<1> USE DEF CaseInv, TypeOK, RecordOutcome
<1>1. n = attempts[i] /\ state[i] \in {"attempting", "closed"} /\ IsOpen(i, n)
  BY DEF AttemptingMatchesOpen, IsTarget, OpenOrdinals
<1>2. Bought(i)' = Bought(i) /\ approvals'[i] = approvals[i]
  BY DEF Bought
<1>3. CASE state'[i] = "queued"
  <2>1. o = "daemon_restart" /\ ~RestartedBefore(i, n)
    BY <1>1, <1>3 DEF OutcomeMove, Outcome
  <2>2. Restarted(i)'
    BY <2>1 DEF Restarted
  <2>3. \A m \in Ordinal : m >= n => attempt[i][m] # "daemon_restart"
    <3>1. attempt[i][n] # "daemon_restart"
      BY <1>1 DEF IsOpen, Open
    <3>2. \A m \in Ordinal : m > n => attempt[i][m] = "none"
      BY <1>1 DEF Shape
    <3>3. \A m \in Ordinal : m >= n => m = n \/ m > n
      BY CaseAssumption DEF Ordinal
    <3> QED
      BY <3>1, <3>2, <3>3
  <2>4. ~Restarted(i)
    BY <2>1, <2>3, CaseAssumption DEF Restarted, RestartedBefore, Ordinal
  <2>5. ~Promised(i)
    BY <1>1 DEF Promised
  <2> QED
    BY <1>2, <2>2, <2>4, <2>5, CoverType DEF Covered
<1>4. CASE state'[i] # "queued"
  <2>1. Restarted(i) => Restarted(i)'
    BY <1>1 DEF Restarted, IsOpen, Open
  <2>2. ~Promised(i)'
    BY <1>4 DEF Promised
  <2> QED
    BY <1>2, <2>1, <2>2, StillCovered
<1> QED
  BY <1>3, <1>4

\* The commands that touch neither the log nor the approvals.
LEMMA QuietCovers ==
  ASSUME CaseInv, NEW i \in Issue, Covered(i),
         NewCase(i) \/ Close(i) \/ \E n \in Ordinal : RecordRun(i, n)
  PROVE  Covered(i)'
<1> USE DEF CaseInv, TypeOK
<1>1. kind' = kind /\ approvals' = approvals
  BY DEF NewCase, Close, RecordRun
<1>2. Promised(i)' => Promised(i)
  BY DEF NewCase, InitialState, Close, RecordRun, Promised
<1>3. Restarted(i) => Restarted(i)'
  BY DEF NewCase, Close, RecordRun, Restarted
<1> QED
  BY <1>1, <1>2, <1>3, StillCovered

\* A command leaves the accounts of the other cases alone.
LEMMA OthersCovered ==
  ASSUME CaseInv, NEW i \in Issue, NEW j \in Issue \ {i}, Covered(j),
         \/ NewCase(i) \/ RecordApproval(i) \/ StartAttempt(i) \/ Close(i)
         \/ \E size \in {"small", "large"} : RecordTriage(i, size)
         \/ \E n \in Ordinal : RecordRun(i, n)
         \/ \E n \in Ordinal, o \in Outcome : RecordOutcome(i, n, o)
  PROVE  Covered(j)'
<1>1. /\ state'[j] = state[j] /\ approvals'[j] = approvals[j] /\ kind'[j] = kind[j]
      /\ approvedSince'[j] = approvedSince[j] /\ attempt'[j] = attempt[j]
  BY DEF CaseInv, TypeOK, NewCase, RecordApproval, StartAttempt, Close, RecordTriage, RecordRun,
     RecordOutcome
<1>2. (Restarted(j)' <=> Restarted(j)) /\ (Promised(j)' <=> Promised(j))
  BY <1>1 DEF Restarted, Promised
<1> QED
  BY <1>1, <1>2, StillCovered DEF CaseInv

\* Initially nothing is bought.
LEMMA InitCovered == Init => AllCovered
<1> SUFFICES ASSUME Init, NEW i \in Issue PROVE Covered(i)
  BY DEF AllCovered
<1>1. Bought(i) = {} /\ ~Promised(i)
  BY DEF Init, Bought, Promised
<1>2. approvals[i] \in Nat
  BY InitInv, CoverType DEF CaseInv
<1> QED
  BY <1>1, <1>2, FS_EmptySet DEF Covered

\* Every command keeps the accounts.
LEMMA NextCovered == CaseInv /\ AllCovered /\ [Next]_caseVars => AllCovered'
<1> SUFFICES ASSUME CaseInv, AllCovered, [Next]_caseVars, NEW j \in Issue PROVE Covered(j)'
  BY DEF AllCovered
<1>1. Covered(j)
  BY DEF AllCovered
<1>2. CASE UNCHANGED caseVars
  BY <1>1, <1>2 DEF caseVars, Covered, Bought, Promised, Restarted
<1>3. ASSUME NEW i \in Issue,
             \/ NewCase(i) \/ RecordApproval(i) \/ StartAttempt(i) \/ Close(i)
             \/ \E size \in {"small", "large"} : RecordTriage(i, size)
             \/ \E n \in Ordinal : RecordRun(i, n)
             \/ \E n \in Ordinal, o \in Outcome : RecordOutcome(i, n, o)
      PROVE  Covered(j)'
  <2>1. CASE j # i
    BY <1>1, <1>3, <2>1, OthersCovered
  <2>2. CASE j = i
    BY <1>1, <1>3, <2>2, QuietCovers, RecordTriageCovers, RecordApprovalCovers,
       StartAttemptCovers, RecordOutcomeCovers
  <2> QED
    BY <2>1, <2>2
<1> QED
  BY <1>2, <1>3 DEF Next

\* The account says what the aggregate promises.
LEMMA CoveredIsPaid == CaseInv /\ AllCovered => ApprovedRunsArePaid
<1> SUFFICES ASSUME CaseInv, AllCovered, NEW i \in Issue
             PROVE  Cardinality(Bought(i)) <= approvals[i] + (IF Restarted(i) THEN 1 ELSE 0)
  BY DEF ApprovedRunsArePaid, Bought
<1> QED
  BY CoverType DEF CaseInv, AllCovered, Covered

\* The larger budget is bought: an approval, or the one restart, for each
\* attempt of the approved tier.
THEOREM ApprovedPaid == CaseSpec => []ApprovedRunsArePaid
BY InitCovered, NextCovered, CoveredIsPaid, CaseInvariant, PTL DEF CaseSpec

-----------------------------------------------------------------------------

\* No command rewrites what the log already says.
THEOREM AppendOnly == CaseSpec => HistoryIsFinal
<1> DEFINE Kept ==
      \A i \in Issue :
          /\ state[i] \in Terminal => state'[i] = state[i]
          /\ attempts'[i] >= attempts[i]
          /\ \A n \in Ordinal :
                /\ attempt[i][n] \in Outcome => attempt'[i][n] = attempt[i][n]
                /\ kind[i][n] # "none" => kind'[i][n] = kind[i][n]
<1>1. ASSUME CaseInv, [Next]_caseVars PROVE [Kept]_caseVars
  <2> USE CaseAssumption, <1>1 DEF CaseInv, TypeOK, Terminal
  <2>1. CASE UNCHANGED caseVars
    BY <2>1
  <2>2. ASSUME NEW i \in Issue, NewCase(i) PROVE Kept
    BY <2>2 DEF NewCase
  <2>3. ASSUME NEW i \in Issue, NEW size \in {"small", "large"}, RecordTriage(i, size) PROVE Kept
    BY <2>3 DEF RecordTriage
  <2>4. ASSUME NEW i \in Issue, RecordApproval(i) PROVE Kept
    BY <2>4 DEF RecordApproval
  <2>5. ASSUME NEW i \in Issue, StartAttempt(i) PROVE Kept
    BY <2>5 DEF StartAttempt, Shape, Ordinal, Outcome
  <2>6. ASSUME NEW i \in Issue, NEW n \in Ordinal, RecordRun(i, n) PROVE Kept
    BY <2>6 DEF RecordRun, IsTarget, IsOpen, Open, Outcome
  <2>7. ASSUME NEW i \in Issue, NEW n \in Ordinal, NEW o \in Outcome, RecordOutcome(i, n, o)
        PROVE Kept
    <3>1. state[i] \in {"attempting", "closed"}
      BY <2>7 DEF AttemptingMatchesOpen, RecordOutcome, IsTarget, OpenOrdinals
    <3>2. state[i] = "closed" => state'[i] = "closed"
      BY <2>7 DEF RecordOutcome, OutcomeMove
    <3>3. attempt[i][n] \notin Outcome
      BY <2>7 DEF RecordOutcome, IsTarget, IsOpen, Open, Outcome
    <3>4. \A j \in Issue : state[j] \in Terminal => state'[j] = state[j]
      BY <2>7, <3>1, <3>2 DEF RecordOutcome
    <3>5. \A j \in Issue, m \in Ordinal :
            attempt[j][m] \in Outcome => attempt'[j][m] = attempt[j][m]
      BY <2>7, <3>3 DEF RecordOutcome
    <3> QED
      BY <2>7, <3>4, <3>5 DEF RecordOutcome
  <2>8. ASSUME NEW i \in Issue, Close(i) PROVE Kept
    BY <2>8 DEF Close
  <2> QED
    BY <2>1, <2>2, <2>3, <2>4, <2>5, <2>6, <2>7, <2>8 DEF Next
<1> QED
  BY <1>1, CaseInvariant, PTL DEF CaseSpec, HistoryIsFinal
=============================================================================
