---------------------------- MODULE OutboxProofs ----------------------------
(***************************************************************************)
(* Theorems about Outbox, for any finite set of issues and any bounds.     *)
(* Two counts carry it: the copies of comments against the failures and    *)
(* crashes that paid for them, and the paid model calls of a case that is  *)
(* still received against the failed sizings it is remembered for.         *)
(***************************************************************************)
EXTENDS Outbox, CaseProofs, FiniteSetTheorems

\* What the steps listed is still to be done when they come to it, and at most
\* one size and one post are on their way into the store.
ListsHold ==
    /\ step = "triage" => \A i \in todo : state[i] = "received"
    /\ step \in {"triages", "outcomes"} => todo \cap queued = {}
    /\ step = "post" => todo \subseteq queued \ settled
    /\ sent \subseteq todo
    /\ \A x, y \in sent : x = y
    /\ step # "post" => sent = {}
    /\ \A s \in sizing : s.issue \in todo
    /\ \A s, t \in sizing : s = t
    /\ step # "triage" => sizing = {}

\* The copies there are, and the comments that would be posted again, are paid
\* for.
RepeatsArePaid == repeats + Cardinality(onIssue \ (settled \cup sent)) <= Slips

\* What k remembered failures of a case allow, before the park.
Allowed(k) == IF k < GiveUp THEN k ELSE GiveUp - 1

\* The earlier lives of the daemon, each of which may pay for a whole give-up.
Lives == GiveUp * restarts

Sized(i) == IF \E s \in sizing : s.issue = i THEN 1 ELSE 0

\* The calls of a received case in its earlier lives, in this one, and the one
\* whose answer is at hand.
CallsArePaid ==
    \A i \in Issue :
        /\ state[i] = "absent" => calls[i] = 0 /\ tries[i] = 0
        /\ state[i] = "received"
              => calls[i] <= Lives + failures + Allowed(tries[i]) + Sized(i)

OutboxInv ==
    CaseInv /\ OutboxTypeOK /\ ListsHold /\ RepeatsArePaid /\ CallsArePaid /\ CallsAreBounded

-----------------------------------------------------------------------------

LEMMA FiniteComments == IsFiniteSet(Comment)
  <1>1. IsFiniteSet(Ordinal)
    BY CaseAssumption, FS_Interval DEF Ordinal, CaseAssumption
  <1>2. IsFiniteSet(Ordinal \cup {0})
    BY <1>1, FS_AddElement
  <1> QED
    BY <1>2, CaseAssumption, FS_Product DEF Comment, CaseAssumption

\* A set of comments and the same with one more or one less.
LEMMA CountComments ==
  ASSUME NEW S, NEW T, S \subseteq Comment, T \subseteq Comment, NEW x
  PROVE  /\ Cardinality(S) \in Nat
         /\ T \subseteq S \cup {x} => Cardinality(T) <= Cardinality(S) + 1
         /\ T \subseteq S => Cardinality(T) <= Cardinality(S)
         /\ x \in S /\ T \subseteq S \ {x} => Cardinality(T) + 1 <= Cardinality(S)
  <1>1. IsFiniteSet(S) /\ IsFiniteSet(T)
    BY FiniteComments, FS_Subset
  <1>2. Cardinality(S) \in Nat /\ Cardinality(T) \in Nat
    BY <1>1, FS_CardinalityType
  <1>3. /\ IsFiniteSet(S \cup {x})
        /\ Cardinality(S \cup {x}) <= Cardinality(S) + 1
    <2>1. /\ IsFiniteSet(S \cup {x})
          /\ Cardinality(S \cup {x}) = IF x \in S THEN Cardinality(S) ELSE Cardinality(S) + 1
      BY <1>1, FS_AddElement
    <2> QED
      BY <1>2, <2>1
  <1>4. /\ IsFiniteSet(S \ {x})
        /\ x \in S => Cardinality(S \ {x}) = Cardinality(S) - 1
    BY <1>1, <1>2, FS_RemoveElement
  <1>5. T \subseteq S \cup {x} => Cardinality(T) <= Cardinality(S \cup {x})
    BY <1>3, FS_Subset
  <1>6. T \subseteq S => Cardinality(T) <= Cardinality(S)
    BY <1>1, FS_Subset
  <1>7. T \subseteq S \ {x} => Cardinality(T) <= Cardinality(S \ {x})
    BY <1>4, FS_Subset
  <1>8. Cardinality(S \cup {x}) \in Nat /\ Cardinality(S \ {x}) \in Nat
    BY <1>3, <1>4, FS_CardinalityType
  <1> QED
    BY <1>2, <1>3, <1>4, <1>5, <1>6, <1>7, <1>8

LEMMA OutboxInitInv == OutboxInit => OutboxInv
  <1> SUFFICES ASSUME OutboxInit PROVE OutboxInv
    OBVIOUS
  <1>1. CaseInv
    BY InitInv DEF OutboxInit
  <1>2. TypeOK
    BY <1>1 DEF CaseInv
  <1>3. Cardinality(onIssue \ (settled \cup sent)) = 0
    BY FS_EmptySet DEF OutboxInit
  <1>8. refuses \in [Issue -> {"nothing", "posts", "all"}]
    BY DEF OutboxInit
  <1>9. /\ enrolled \in BOOLEAN /\ up \in BOOLEAN /\ hung \in BOOLEAN
        /\ step = "idle" /\ todo = {} /\ sizing = {}
        /\ queued = {} /\ settled = {} /\ sent = {} /\ onIssue = {}
    BY DEF OutboxInit
  <1>10. /\ tries \in [Issue -> Nat] /\ calls \in [Issue -> Nat]
         /\ waiting \in [Issue -> BOOLEAN]
         /\ repeats \in Nat
         /\ failures \in 0..MaxFailures /\ restarts \in 0..MaxRestarts
    BY OutboxAssumption DEF OutboxInit
  <1>4. OutboxTypeOK
    BY <1>2, <1>8, <1>9, <1>10 DEF OutboxTypeOK
  <1>5. ListsHold /\ RepeatsArePaid
    BY <1>3 DEF OutboxInit, ListsHold, RepeatsArePaid, Slips
  <1>6. CallsArePaid
    BY DEF OutboxInit, Init, CallsArePaid
  <1>7. CallsAreBounded
    <2>1. GiveUp * (1 + restarts) + failures = GiveUp
      BY OutboxAssumption DEF OutboxInit, OutboxAssumption
    <2> QED
      BY <2>1, OutboxAssumption DEF OutboxInit, CallsAreBounded, OutboxAssumption
  <1> QED
    BY <1>1, <1>4, <1>5, <1>6, <1>7 DEF OutboxInv

-----------------------------------------------------------------------------

\* The sweep, the runner and the operator reach a case by its commands only.
LEMMA OutboxCaseStep == ASSUME OutboxTypeOK, [OutboxNext]_vars PROVE [Next]_caseVars
  <1>1. CASE \E i \in Issue : BetweenSteps(i) \/ AtAnyMoment(i)
    BY <1>1 DEF BetweenSteps, AtAnyMoment, Next
  <1>2. CASE \E i \in Issue, s \in sizing : RecordSize(s) \/ RecordSizeFails(s)
    <2>1. PICK s \in sizing : RecordTriage(s.issue, s.size) \/ UNCHANGED caseVars
      BY <1>2 DEF RecordSize, RecordSizeFails
    <2>2. s.issue \in Issue /\ s.size \in {"small", "large"}
      BY DEF OutboxTypeOK
    <2> QED
      BY <2>1, <2>2 DEF Next
  <1>3. CASE \E i \in Issue : \/ SkipWaiting(i) \/ GetIssueFails(i) \/ GetIssueRefused(i) \/ Classify(i) \/ ClassifyFails(i)
                              \/ BackoffEnds(i)
    BY <1>3 DEF SkipWaiting, GetIssueFails, GetIssueRefused, Classify, ClassifyFails, Call, BackoffEnds
  <1>4. CASE \E x \in Comment : Comments(x)
    BY <1>4 DEF Comments, Enqueue, EnqueueFails, Post, PostFails, PostRefused, RecordPost, RecordPostFails,
        CommentUnchanged
  <1>5. CASE \/ StartSweep \/ TriageDone \/ TriagesDone \/ OutcomesDone \/ PostDone \/ ListFails
             \/ Enrollment \/ Boot \/ Crash \/ SweepHangs \/ UNCHANGED vars
             \/ \E i \in Issue : Refuse(i)
    BY <1>5 DEF StartSweep, TriageDone, TriagesDone, OutcomesDone, PostDone, GoTo, ListFails,
        Enrollment, Boot, Crash, SweepHangs, Refuse, vars
  <1> QED
    BY <1>1, <1>2, <1>3, <1>4, <1>5 DEF OutboxNext, SweepNext, Size

\* The commands between the steps and at any moment touch nothing else.
LEMMA CaseOnlyStep ==
  ASSUME NEW i \in Issue, BetweenSteps(i) \/ AtAnyMoment(i)
  PROVE  UNCHANGED <<enrolled, refuses, up, hung, step, todo, triageVars, outboxVars, budgetVars>>
  BY DEF BetweenSteps, AtAnyMoment, CaseOnly

\* Only triage and the issue's closing end the wait of a received case.
LEMMA ReceivedStays ==
  ASSUME CaseInv, NEW i \in Issue, AtAnyMoment(i)
  PROVE  /\ \A j \in Issue : state[j] = "received" => state'[j] = "received"
         /\ \A j \in Issue : state'[j] \in {"absent", "received"} => state'[j] = state[j]
  <1>1. CASE RecordApproval(i)
    BY <1>1 DEF RecordApproval, Approvable, CaseInv, TypeOK, CaseState, Terminal
  <1>2. CASE \E n \in Ordinal : RecordRun(i, n)
    BY <1>2 DEF RecordRun
  <1>3. ASSUME NEW n \in Ordinal, NEW o \in Outcome, RecordOutcome(i, n, o)
        PROVE  /\ \A j \in Issue : state[j] = "received" => state'[j] = "received"
               /\ \A j \in Issue : state'[j] \in {"absent", "received"} => state'[j] = state[j]
    <2>1. state[i] \in {"attempting", "closed"}
      BY <1>3 DEF RecordOutcome, IsTarget, OpenOrdinals, CaseInv, AttemptingMatchesOpen
    <2>2. OutcomeMove(i, n, o) \notin {"absent", "received"}
      BY <1>3 DEF OutcomeMove, Outcome
    <2>3. state' = [state EXCEPT ![i] = OutcomeMove(i, n, o)]
      BY <1>3 DEF RecordOutcome
    <2> QED
      BY <2>1, <2>2, <2>3 DEF CaseInv, TypeOK
  <1> QED
    BY <1>1, <1>2, <1>3 DEF AtAnyMoment

LEMMA OutboxTypeStep ==
  ASSUME OutboxTypeOK, ListsHold, TypeOK', [OutboxNext]_vars
  PROVE  OutboxTypeOK'
  <1> USE DEF OutboxTypeOK, triageVars, outboxVars, budgetVars
  <1>1. CASE \E i \in Issue : BetweenSteps(i) \/ AtAnyMoment(i)
    BY <1>1, CaseOnlyStep
  <1>2. CASE \E i \in Issue : BackoffEnds(i)
    BY <1>2 DEF BackoffEnds, TriageUnchanged
  <1>3. CASE Enrollment \/ Boot \/ SweepHangs \/ \E i \in Issue : Refuse(i)
    BY <1>3 DEF Enrollment, Boot, SweepHangs, Refuse
  <1>4. CASE Crash
    <2>1. restarts' \in 0..MaxRestarts
      BY <1>4, OutboxAssumption DEF Crash, OutboxAssumption
    <2>2. tries' \in [Issue -> Nat] /\ waiting' \in [Issue -> BOOLEAN] /\ up' \in BOOLEAN
      BY <1>4 DEF Crash
    <2> QED
      BY <1>4, <2>1, <2>2 DEF Crash
  <1>5. CASE StartSweep
    BY <1>5 DEF StartSweep, GoTo, ToSize, Listed
  <1>6. CASE TriageDone \/ TriagesDone \/ OutcomesDone \/ PostDone
    BY <1>6 DEF TriageDone, TriagesDone, OutcomesDone, PostDone, GoTo, TriagesToEnqueue,
        OutcomesToEnqueue, ToEnqueue, ToPost, Listed
  <1>7. CASE ListFails
    BY <1>7, OutboxAssumption DEF ListFails, Fails, OutboxAssumption
  <1>8. ASSUME NEW i \in Issue, SkipWaiting(i) \/ GetIssueFails(i) \/ GetIssueRefused(i) \/ Classify(i) \/ ClassifyFails(i)
        PROVE  OutboxTypeOK'
    <2>1. CASE SkipWaiting(i) \/ GetIssueFails(i) \/ GetIssueRefused(i)
      BY <1>8, <2>1, OutboxAssumption
      DEF SkipWaiting, GetIssueFails, GetIssueRefused, AtCase, Visited, TriageUnchanged, Fails, OutboxAssumption
    <2>2. CASE Classify(i)
      BY <1>8, <2>2 DEF Classify, Call, AtCase, TriageUnchanged
    <2>3. CASE ClassifyFails(i)
      BY <1>8, <2>3 DEF ClassifyFails, Call, AtCase, Visited, TriageUnchanged
    <2> QED
      BY <1>8, <2>1, <2>2, <2>3
  <1>9. ASSUME NEW s \in sizing, RecordSize(s) \/ RecordSizeFails(s)
        PROVE  OutboxTypeOK'
    <2>1. s.issue \in Issue
      OBVIOUS
    <2>2. CASE RecordSize(s)
      <3>1. tries' \in [Issue -> Nat] /\ waiting' \in [Issue -> BOOLEAN]
        BY <2>1, <2>2 DEF RecordSize
      <3> QED
        BY <2>2, <3>1 DEF RecordSize, Visited, TriageUnchanged
    <2>3. CASE RecordSizeFails(s)
      <3>1. failures' \in 0..MaxFailures
        BY <2>3, OutboxAssumption DEF RecordSizeFails, Fails, OutboxAssumption
      <3> QED
        BY <2>3, <3>1 DEF RecordSizeFails, Visited, TriageUnchanged, Fails
    <2> QED
      BY <1>9, <2>2, <2>3
  <1>10. ASSUME NEW x \in Comment, Enqueue(x) \/ EnqueueFails(x) \/ RecordPost(x) \/ RecordPostFails(x)
         PROVE  OutboxTypeOK'
    BY <1>10, OutboxAssumption
    DEF Enqueue, EnqueueFails, RecordPost, RecordPostFails, Visited, CommentUnchanged, Fails,
        OutboxAssumption
  <1>11. ASSUME NEW x \in Comment, Post(x) \/ PostFails(x) \/ PostRefused(x)
         PROVE  OutboxTypeOK'
    BY <1>11, OutboxAssumption
    DEF Post, PostFails, PostRefused, AtComment, Lands, ListsHold, Visited, CommentUnchanged, Fails,
        OutboxAssumption
  <1>12. CASE UNCHANGED vars
    BY <1>12 DEF vars
  <1> QED
    BY <1>1, <1>2, <1>3, <1>4, <1>5, <1>6, <1>7, <1>8, <1>9, <1>10, <1>11, <1>12
    DEF OutboxNext, SweepNext, Size, Comments

\* What was listed stays to be done until the step comes to it.
LEMMA ListsStep ==
  ASSUME CaseInv, OutboxTypeOK, ListsHold, [OutboxNext]_vars
  PROVE  ListsHold'
  <1> USE DEF ListsHold, triageVars, outboxVars, budgetVars
  <1>1. ASSUME NEW i \in Issue, BetweenSteps(i) PROVE ListsHold'
    <2>1. step = "idle" /\ UNCHANGED <<step, todo, triageVars, outboxVars>>
      BY <1>1, CaseOnlyStep DEF BetweenSteps
    <2> QED
      BY <2>1 DEF ListsHold
  <1>2. ASSUME NEW i \in Issue, AtAnyMoment(i) PROVE ListsHold'
    <2>1. UNCHANGED <<step, todo, triageVars, outboxVars>>
      BY <1>2, CaseOnlyStep
    <2>2. step = "triage" => \A j \in todo : state'[j] = "received"
      BY <1>2, ReceivedStays DEF OutboxTypeOK
    <2> QED
      BY <2>1, <2>2 DEF ListsHold
  <1>3. CASE \/ Enrollment \/ Boot \/ SweepHangs \/ UNCHANGED vars
             \/ \E i \in Issue : Refuse(i) \/ BackoffEnds(i)
    BY <1>3 DEF Enrollment, Boot, SweepHangs, Refuse, BackoffEnds, TriageUnchanged, vars, caseVars
  <1>4. CASE Crash
    BY <1>4 DEF Crash
  <1>5. CASE StartSweep \/ TriageDone \/ TriagesDone \/ OutcomesDone \/ PostDone
    BY <1>5 DEF StartSweep, TriageDone, TriagesDone, OutcomesDone, PostDone, GoTo, ToSize,
        TriagesToEnqueue, OutcomesToEnqueue, ToEnqueue, ToPost, Listed, caseVars
  <1>6. CASE ListFails
    BY <1>6 DEF ListFails, caseVars
  <1>7. ASSUME NEW i \in Issue, SkipWaiting(i) \/ GetIssueFails(i) \/ GetIssueRefused(i) \/ Classify(i) \/ ClassifyFails(i)
        PROVE  ListsHold'
    <2>1. CASE SkipWaiting(i) \/ GetIssueFails(i) \/ GetIssueRefused(i)
      BY <2>1 DEF SkipWaiting, GetIssueFails, GetIssueRefused, AtCase, Visited, TriageUnchanged, caseVars
    <2>2. CASE Classify(i)
      BY <2>2 DEF Classify, Call, AtCase, TriageUnchanged, caseVars
    <2>3. CASE ClassifyFails(i)
      BY <2>3 DEF ClassifyFails, Call, AtCase, Visited, TriageUnchanged, caseVars
    <2> QED
      BY <1>7, <2>1, <2>2, <2>3
  <1>8. ASSUME NEW s \in sizing, RecordSize(s) \/ RecordSizeFails(s) PROVE ListsHold'
    <2>1. /\ sizing' = {} /\ todo' = todo \ {s.issue}
          /\ UNCHANGED <<step, outboxVars>>
      BY <1>8 DEF RecordSize, RecordSizeFails, Visited, TriageUnchanged
    <2>2. \A j \in Issue : j # s.issue => state'[j] = state[j]
      BY <1>8 DEF RecordSize, RecordSizeFails, RecordTriage, OutboxTypeOK, TypeOK, caseVars
    <2>3. step = "triage"
      OBVIOUS
    <2> QED
      BY <2>1, <2>2, <2>3 DEF OutboxTypeOK
  <1>9. ASSUME NEW x \in Comment, Comments(x) PROVE ListsHold'
    <2>1. CASE Enqueue(x) \/ EnqueueFails(x)
      BY <2>1 DEF Enqueue, EnqueueFails, Visited, CommentUnchanged
    <2>2. CASE Post(x) \/ PostFails(x) \/ PostRefused(x)
      BY <2>2 DEF Post, PostFails, PostRefused, AtComment, Visited, CommentUnchanged
    <2>3. CASE RecordPost(x) \/ RecordPostFails(x)
      BY <2>3 DEF RecordPost, RecordPostFails, Visited, CommentUnchanged
    <2> QED
      BY <1>9, <2>1, <2>2, <2>3 DEF Comments
  <1> QED
    BY <1>1, <1>2, <1>3, <1>4, <1>5, <1>6, <1>7, <1>8, <1>9 DEF OutboxNext, SweepNext, Size

LEMMA SumType == ASSUME NEW a \in Nat, NEW b \in Nat PROVE a + b \in Nat
  OBVIOUS

\* The comments that would be posted again.
Again == onIssue \ (settled \cup sent)

\* Every copy is paid for: a comment gets posted again only after a failure or
\* a crash kept its post from being recorded.
LEMMA RepeatsStep ==
  ASSUME OutboxTypeOK, OutboxTypeOK', ListsHold, RepeatsArePaid, [OutboxNext]_vars
  PROVE  RepeatsArePaid'
  <1> DEFINE n == Cardinality(Again)
             m == Cardinality(Again')
             s == failures + restarts
             t == failures' + restarts'
  <1> HIDE DEF n, m, s, t
  <1>0. Again \subseteq Comment /\ Again' \subseteq Comment
    BY DEF Again, OutboxTypeOK
  <1>1. n \in Nat /\ m \in Nat /\ repeats \in Nat /\ repeats + n <= s
    BY <1>0, CountComments DEF RepeatsArePaid, OutboxTypeOK, Again, Slips, n, m, s
  <1>2. /\ failures \in Nat /\ restarts \in Nat /\ failures' \in Nat /\ restarts' \in Nat
        /\ s \in Nat /\ t \in Nat
    <2>1. /\ failures \in Nat /\ restarts \in Nat
          /\ failures' \in Nat /\ restarts' \in Nat
      BY OutboxAssumption DEF OutboxTypeOK, OutboxAssumption
    <2> QED
      BY <2>1, SumType DEF s, t
  <1>10. Fails => t = s + 1
    BY <1>2 DEF Fails, s, t
  <1>3. SUFFICES repeats' + m <= t
    BY DEF RepeatsArePaid, Again, m, t, Slips
  <1>4. CASE UNCHANGED <<outboxVars, budgetVars>>
    BY <1>1, <1>4 DEF Again, n, m, s, t, outboxVars, budgetVars
  <1>5. CASE (ListFails \/ \E i \in Issue : GetIssueFails(i)) \/ \E z \in sizing : RecordSizeFails(z)
    <2>1. UNCHANGED outboxVars /\ t = s + 1
      BY <1>5, <1>10 DEF ListFails, GetIssueFails, RecordSizeFails, TriageUnchanged
    <2>2. m = n /\ repeats' = repeats
      BY <2>1 DEF Again, n, m, outboxVars
    <2> QED
      BY <1>1, <1>2, <2>1, <2>2
  <1>6. CASE Crash
    <2>1. UNCHANGED repeats /\ t = s + 1
      BY <1>2, <1>6 DEF Crash, s, t
    <2>2. m <= n + 1
      <3>1. PICK x : sent \subseteq {x}
        BY DEF ListsHold
      <3>2. Again' \subseteq Again \cup {x}
        BY <1>6, <3>1 DEF Crash, Again
      <3> QED
        BY <1>0, <3>2, CountComments DEF n, m
    <2> QED
      BY <1>1, <1>2, <2>1, <2>2
  <1>7. ASSUME NEW x \in Comment, Comments(x) PROVE repeats' + m <= t
    <2>1. CASE Enqueue(x)
      BY <1>1, <2>1 DEF Enqueue, Again, n, m, s, t, budgetVars
    <2>2. CASE EnqueueFails(x)
      <3>1. UNCHANGED <<settled, sent, onIssue, repeats>> /\ t = s + 1
        BY <1>10, <2>2 DEF EnqueueFails
      <3>2. m = n
        BY <3>1 DEF Again, n, m
      <3> QED
        BY <1>1, <1>2, <3>1, <3>2
    <2>3. CASE Post(x)
      <3>1. /\ t = s /\ x \notin settled
            /\ onIssue' = onIssue \cup {x} /\ sent' = {x} /\ sent = {} /\ settled' = settled
            /\ repeats' = repeats + (IF x \in onIssue THEN 1 ELSE 0)
        BY <2>3 DEF Post, AtComment, Lands, ListsHold, s, t, budgetVars
      <3>2. CASE x \in onIssue
        <4>1. x \in Again /\ Again' \subseteq Again \ {x}
          BY <3>1, <3>2 DEF Again
        <4>2. m + 1 <= n
          BY <1>0, <4>1, CountComments DEF n, m
        <4> QED
          BY <1>1, <1>2, <3>1, <3>2, <4>2
      <3>3. CASE x \notin onIssue
        <4>1. Again' \subseteq Again
          BY <3>1, <3>3 DEF Again
        <4>2. m <= n
          BY <1>0, <4>1, CountComments DEF n, m
        <4> QED
          BY <1>1, <1>2, <3>1, <3>3, <4>2
      <3> QED
        BY <3>2, <3>3
    <2>4. CASE PostFails(x)
      <3>1. /\ t = s + 1 /\ sent' = sent /\ settled' = settled
            /\ \/ /\ onIssue' = onIssue \cup {x}
                  /\ repeats' = repeats + (IF x \in onIssue THEN 1 ELSE 0)
               \/ UNCHANGED <<onIssue, repeats>>
        BY <1>10, <2>4 DEF PostFails, Lands
      <3>2. CASE x \in onIssue \/ onIssue' = onIssue
        <4>1. Again' \subseteq Again
          BY <3>1, <3>2 DEF Again
        <4>2. m <= n
          BY <1>0, <4>1, CountComments DEF n, m
        <4>3. /\ repeats' = repeats \/ repeats' = repeats + 1
              /\ t = s + 1
          BY <1>1, <3>1
        <4> QED
          BY <1>1, <1>2, <4>2, <4>3
      <3>3. CASE x \notin onIssue /\ onIssue' # onIssue
        <4>1. Again' \subseteq Again \cup {x} /\ repeats' = repeats
          BY <1>1, <3>1, <3>3 DEF Again
        <4>2. m <= n + 1
          BY <1>0, <4>1, CountComments DEF n, m
        <4> QED
          BY <1>1, <1>2, <3>1, <4>1, <4>2
      <3> QED
        BY <3>2, <3>3
    <2>5. CASE RecordPost(x)
      <3>1. repeats' = repeats /\ t = s
        BY <2>5 DEF RecordPost, s, t, budgetVars
      <3>2. sent = {x}
        BY <2>5 DEF RecordPost, ListsHold
      <3>3. Again' = Again
        BY <2>5, <3>2 DEF RecordPost, Again
      <3>4. m = n
        BY <3>3 DEF m, n
      <3> QED
        BY <1>1, <3>1, <3>4
    <2>6. CASE RecordPostFails(x)
      <3>1. /\ Again' \subseteq Again \cup {x} /\ repeats' = repeats
            /\ t = s + 1
        BY <1>10, <2>6 DEF RecordPostFails, Again, ListsHold
      <3>2. m <= n + 1
        BY <1>0, <3>1, CountComments DEF n, m
      <3> QED
        BY <1>1, <1>2, <3>1, <3>2
    <2>7. CASE PostRefused(x)
      BY <1>4, <2>7 DEF PostRefused, CommentUnchanged, outboxVars, budgetVars
    <2> QED
      BY <1>7, <2>1, <2>2, <2>3, <2>4, <2>5, <2>6, <2>7 DEF Comments
  <1>8. \/ UNCHANGED <<outboxVars, budgetVars>>
        \/ (ListFails \/ \E i \in Issue : GetIssueFails(i)) \/ \E z \in sizing : RecordSizeFails(z)
        \/ Crash
        \/ \E x \in Comment : Comments(x)
    BY CaseOnlyStep
    DEF OutboxNext, SweepNext, Size, Enrollment, Boot, SweepHangs, Refuse, BackoffEnds,
        StartSweep, TriageDone, TriagesDone, OutcomesDone, PostDone, GoTo, SkipWaiting, GetIssueRefused, Classify, ClassifyFails, Call, RecordSize,
        TriageUnchanged, vars
  <1> QED
    BY <1>4, <1>5, <1>6, <1>7, <1>8

\* An allowance is below the give-up and grows by the failure it remembers.
LEMMA AllowedBounds ==
  ASSUME NEW k \in Nat
  PROVE  /\ Allowed(k) \in Nat /\ Allowed(k) + 1 <= GiveUp
         /\ k + 1 < GiveUp => Allowed(k + 1) = Allowed(k) + 1
         /\ Allowed(k + 1) >= Allowed(k)
         /\ Allowed(0) = 0
  BY OutboxAssumption DEF OutboxAssumption, Allowed

LEMMA SizedType == \A i \in Issue : Sized(i) \in {0, 1}
  BY DEF Sized

\* A case comes to be received by its creation only.
LEMMA ReceivedBegins ==
  ASSUME CaseInv, NEW j \in Issue, BetweenSteps(j) \/ AtAnyMoment(j), NEW i \in Issue
  PROVE  /\ state'[i] = "absent" => state[i] = "absent"
         /\ state'[i] = "received" => state[i] \in {"absent", "received"}
  <1>1. CASE AtAnyMoment(j)
    BY <1>1, ReceivedStays
  <1>2. CASE NewCase(j)
    BY <1>2 DEF NewCase, InitialState, CaseInv, TypeOK
  <1>3. CASE Close(j) \/ StartAttempt(j)
    BY <1>3 DEF Close, StartAttempt, CaseInv, TypeOK
  <1> QED
    BY <1>1, <1>2, <1>3 DEF BetweenSteps

LEMMA LivesType ==
  ASSUME NEW r \in Nat
  PROVE  /\ GiveUp \in Nat /\ GiveUp * r \in Nat
         /\ GiveUp * (1 + r) = GiveUp * r + GiveUp
         /\ GiveUp * (r + 1) = GiveUp * r + GiveUp
  BY OutboxAssumption DEF OutboxAssumption

\* The calls of one case, from step to step: a call is remembered as a failed
\* sizing, has its answer at hand, or is paid by the failure that lost it.
LEMMA CallsStep ==
  ASSUME CaseInv, OutboxTypeOK, OutboxTypeOK', ListsHold, CallsArePaid, [OutboxNext]_vars,
         NEW i \in Issue
  PROVE  /\ state'[i] = "absent" => calls'[i] = 0 /\ tries'[i] = 0
         /\ state'[i] = "received"
               => calls'[i] <= Lives' + failures' + Allowed(tries'[i]) + Sized(i)'
         /\ calls'[i] = calls[i] \/ state'[i] = "received"
         /\ Lives' >= Lives /\ failures' >= failures
  <1> DEFINE Goal ==
        /\ state'[i] = "absent" => calls'[i] = 0 /\ tries'[i] = 0
        /\ state'[i] = "received"
              => calls'[i] <= Lives' + failures' + Allowed(tries'[i]) + Sized(i)'
        /\ calls'[i] = calls[i] \/ state'[i] = "received"
        /\ Lives' >= Lives /\ failures' >= failures
  <1>1. /\ Lives \in Nat /\ failures \in Nat /\ GiveUp \in Nat
        /\ Lives' \in Nat /\ failures' \in Nat
    <2>1. restarts \in Nat /\ failures \in Nat /\ restarts' \in Nat /\ failures' \in Nat
      BY OutboxAssumption DEF OutboxAssumption, OutboxTypeOK
    <2> QED
      BY <2>1, LivesType DEF Lives
  <1>2. /\ calls[i] \in Nat /\ tries[i] \in Nat /\ calls'[i] \in Nat /\ tries'[i] \in Nat
        /\ Sized(i) \in {0, 1} /\ Sized(i)' \in {0, 1}
    BY DEF OutboxTypeOK, Sized
  <1>3. /\ Allowed(tries[i]) \in Nat /\ Allowed(tries[i]) + 1 <= GiveUp
        /\ Allowed(tries'[i]) \in Nat
    BY <1>2, AllowedBounds
  <1>4. /\ state[i] = "absent" => calls[i] = 0 /\ tries[i] = 0
        /\ state[i] = "received" => calls[i] <= Lives + failures + Allowed(tries[i]) + Sized(i)
    BY DEF CallsArePaid
  <1>5. ASSUME UNCHANGED <<restarts, failures, calls, tries, sizing>>,
               state'[i] = "absent" => state[i] = "absent",
               state'[i] = "received" => state[i] \in {"absent", "received"}
        PROVE  Goal
    <2>1. /\ calls'[i] = calls[i] /\ tries'[i] = tries[i] /\ Lives' = Lives
          /\ failures' = failures /\ Sized(i)' = Sized(i)
      BY <1>5 DEF Lives, Sized
    <2> QED
      BY <1>1, <1>2, <1>3, <1>4, <1>5, <2>1
  <1>6. ASSUME NEW j \in Issue, BetweenSteps(j) \/ AtAnyMoment(j) PROVE Goal
    <2>1. UNCHANGED <<restarts, failures, calls, tries, sizing>>
      BY <1>6, CaseOnlyStep DEF triageVars, budgetVars
    <2> QED
      BY <1>5, <1>6, <2>1, ReceivedBegins
  <1>7. CASE \/ StartSweep \/ TriageDone \/ TriagesDone \/ OutcomesDone \/ PostDone
             \/ Enrollment \/ Boot \/ SweepHangs \/ (\E k \in Issue : Refuse(k)) \/ UNCHANGED vars
             \/ \E j \in Issue : BackoffEnds(j) \/ SkipWaiting(j) \/ GetIssueRefused(j)
             \/ \E x \in Comment : Enqueue(x) \/ Post(x) \/ PostRefused(x) \/ RecordPost(x)
    <2>1. UNCHANGED <<restarts, failures, calls, tries, sizing, state>>
      BY <1>7 DEF StartSweep, TriageDone, TriagesDone, OutcomesDone, PostDone, GoTo, Enrollment,
          SweepHangs, Refuse, Boot, BackoffEnds, SkipWaiting, GetIssueRefused, Enqueue, Post,
          PostRefused, RecordPost, TriageUnchanged,
          CommentUnchanged, triageVars, budgetVars, caseVars, vars
    <2> QED
      BY <1>5, <2>1
  <1>8. CASE \/ ListFails \/ \E j \in Issue : GetIssueFails(j)
             \/ \E x \in Comment : EnqueueFails(x) \/ PostFails(x) \/ RecordPostFails(x)
    <2>1. UNCHANGED <<restarts, calls, tries, sizing, state>> /\ Fails
      BY <1>8 DEF ListFails, GetIssueFails, EnqueueFails, PostFails, RecordPostFails,
          TriageUnchanged, CommentUnchanged, triageVars, budgetVars, caseVars, Fails
    <2>2. /\ calls'[i] = calls[i] /\ tries'[i] = tries[i] /\ Lives' = Lives
          /\ failures' = failures + 1 /\ Sized(i)' = Sized(i) /\ state'[i] = state[i]
      BY <2>1 DEF Lives, Sized, Fails
    <2> QED
      BY <1>1, <1>2, <1>3, <1>4, <2>2
  <1>9. CASE Crash
    <2>1. /\ calls'[i] = calls[i] /\ tries'[i] = 0 /\ state'[i] = state[i]
          /\ failures' = failures /\ restarts' = restarts + 1
      BY <1>9 DEF Crash, caseVars
    <2>2. Lives' = Lives + GiveUp
      <3>1. restarts \in Nat
        BY OutboxAssumption DEF OutboxAssumption, OutboxTypeOK
      <3>2. Lives = GiveUp * restarts /\ Lives' = GiveUp * (restarts + 1)
        BY <2>1 DEF Lives
      <3> QED
        BY <3>1, <3>2, LivesType
    <2>3. state[i] = "received" => calls[i] <= Lives' + failures'
      BY <1>1, <1>2, <1>3, <1>4, <2>1, <2>2
    <2> QED
      BY <1>1, <1>2, <1>3, <1>4, <2>1, <2>2, <2>3
  <1>10. ASSUME NEW j \in Issue, Classify(j) \/ ClassifyFails(j) PROVE Goal
    <2>1. /\ step = "triage" /\ j \in todo /\ sizing = {}
          /\ calls' = [calls EXCEPT ![j] = @ + 1]
          /\ UNCHANGED <<state, failures, restarts>>
      BY <1>10 DEF Classify, ClassifyFails, Call, AtCase, caseVars, budgetVars
    <2>2. state[j] = "received" /\ Lives' = Lives /\ Sized(i) = 0
      BY <2>1 DEF ListsHold, Lives, Sized
    <2>3. CASE i # j
      <3>1. calls'[i] = calls[i] /\ tries'[i] = tries[i]
        BY <1>10, <2>1, <2>3 DEF Classify, ClassifyFails, OutboxTypeOK
      <3> QED
        BY <1>1, <1>2, <1>3, <1>4, <2>1, <2>2, <3>1
    <2>4. CASE i = j
      <3>1. calls'[i] = calls[i] + 1 /\ calls[i] <= Lives + failures + Allowed(tries[i])
        BY <1>1, <1>2, <1>3, <1>4, <2>1, <2>2, <2>4 DEF OutboxTypeOK
      <3>2. Allowed(tries'[i]) + Sized(i)' >= Allowed(tries[i]) + 1
        <4>1. CASE Classify(j)
          <5>1. tries'[i] = tries[i] /\ Sized(i)' = 1
            BY <2>4, <4>1 DEF Classify, Sized
          <5> QED
            BY <1>3, <5>1
        <4>2. CASE ClassifyFails(j)
          <5>1. tries'[i] = tries[i] + 1
            BY <2>4, <4>2 DEF ClassifyFails, OutboxTypeOK
          <5>2. CASE tries[i] + 1 < GiveUp
            BY <1>2, <1>3, <5>1, <5>2, AllowedBounds
          <5>3. CASE ~(tries[i] + 1 < GiveUp)
            <6>1. sizing' = {[issue |-> i, size |-> "large"]}
              BY <2>4, <4>2, <5>3 DEF ClassifyFails
            <6>2. Sized(i)' = 1
              BY <6>1 DEF Sized
            <6> QED
              BY <1>2, <1>3, <5>1, <6>2, AllowedBounds
          <5> QED
            BY <5>2, <5>3
        <4> QED
          BY <1>10, <4>1, <4>2
      <3> QED
        BY <1>1, <1>2, <1>3, <2>1, <2>2, <2>4, <3>1, <3>2
    <2> QED
      BY <2>3, <2>4
  <1>11. ASSUME NEW z \in sizing, RecordSize(z) PROVE Goal
    <2>1. /\ z.issue \in Issue /\ RecordTriage(z.issue, z.size) /\ sizing' = {}
          /\ sizing = {z} /\ tries' = [tries EXCEPT ![z.issue] = 0]
          /\ UNCHANGED <<calls, failures, restarts>>
      BY <1>11 DEF RecordSize, OutboxTypeOK, ListsHold, budgetVars
    <2>2. state' = [state EXCEPT ![z.issue] = TriageMove(z.size)]
      BY <2>1 DEF RecordTriage
    <2>3. Lives' = Lives /\ calls'[i] = calls[i]
      BY <2>1 DEF Lives
    <2>4. CASE i = z.issue
      <3>1. state'[i] \notin {"absent", "received"}
        BY <2>2, <2>4 DEF CaseInv, TypeOK, TriageMove
      <3> QED
        BY <1>1, <2>1, <2>3, <3>1
    <2>5. CASE i # z.issue
      <3>1. state'[i] = state[i] /\ tries'[i] = tries[i]
        BY <2>1, <2>2, <2>5 DEF CaseInv, TypeOK, OutboxTypeOK
      <3>2. Sized(i) = 0 /\ Sized(i)' = 0
        BY <2>1, <2>5 DEF Sized
      <3> QED
        BY <1>1, <1>2, <1>3, <1>4, <2>1, <2>3, <3>1, <3>2
    <2> QED
      BY <2>4, <2>5
  <1>12. ASSUME NEW z \in sizing, RecordSizeFails(z) PROVE Goal
    <2>1. /\ UNCHANGED <<calls, tries, restarts>> /\ sizing' = {} /\ failures' = failures + 1
          /\ z.issue \in Issue
      BY <1>12 DEF RecordSizeFails, Fails, OutboxTypeOK
    <2>2. /\ state'[i] = "absent" => state[i] = "absent"
          /\ state'[i] = "received" => state[i] = "received"
      BY <1>12, <2>1 DEF RecordSizeFails, RecordTriage, TriageMove, CaseInv, TypeOK, caseVars
    <2>3. calls'[i] = calls[i] /\ tries'[i] = tries[i] /\ Lives' = Lives /\ Sized(i)' = 0
      BY <2>1 DEF Lives, Sized
    <2> QED
      BY <1>1, <1>2, <1>3, <1>4, <2>1, <2>2, <2>3
  <1> QED
    BY <1>6, <1>7, <1>8, <1>9, <1>10, <1>11, <1>12
    DEF OutboxNext, SweepNext, Size, Comments

LEMMA BoundStep ==
  ASSUME CaseInv, OutboxTypeOK, OutboxTypeOK', ListsHold, CallsArePaid, CallsAreBounded,
         [OutboxNext]_vars
  PROVE  CallsArePaid' /\ CallsAreBounded'
  <1>1. CallsArePaid'
    <2>1. \A i \in Issue :
             /\ state'[i] = "absent" => calls'[i] = 0 /\ tries'[i] = 0
             /\ state'[i] = "received"
                   => calls'[i] <= Lives' + failures' + Allowed(tries'[i]) + Sized(i)'
      BY CallsStep
    <2> QED
      BY <2>1 DEF CallsArePaid
  <1>2. ASSUME NEW i \in Issue PROVE calls'[i] <= GiveUp * (1 + restarts') + failures'
    <2>1. /\ restarts \in Nat /\ failures \in Nat /\ restarts' \in Nat /\ failures' \in Nat
          /\ calls[i] \in Nat /\ calls'[i] \in Nat /\ tries'[i] \in Nat
      BY OutboxAssumption DEF OutboxAssumption, OutboxTypeOK
    <2>2. /\ Lives \in Nat /\ Lives' \in Nat /\ GiveUp \in Nat
          /\ GiveUp * (1 + restarts) = Lives + GiveUp
          /\ GiveUp * (1 + restarts') = Lives' + GiveUp
      BY <2>1, LivesType DEF Lives
    <2>3. /\ state'[i] = "received"
                => calls'[i] <= Lives' + failures' + Allowed(tries'[i]) + Sized(i)'
          /\ calls'[i] = calls[i] \/ state'[i] = "received"
          /\ Lives' >= Lives /\ failures' >= failures
      BY CallsStep
    <2>4. calls[i] <= Lives + GiveUp + failures
      BY <2>2 DEF CallsAreBounded
    <2>5. Allowed(tries'[i]) \in Nat /\ Allowed(tries'[i]) + 1 <= GiveUp /\ Sized(i)' \in {0, 1}
      BY <2>1, AllowedBounds DEF Sized
    <2>6. calls'[i] <= Lives' + GiveUp + failures'
      BY <2>1, <2>2, <2>3, <2>4, <2>5
    <2> QED
      BY <2>2, <2>6
  <1> QED
    BY <1>1, <1>2 DEF CallsAreBounded

LEMMA OutboxStep == OutboxInv /\ [OutboxNext]_vars => OutboxInv'
  <1> SUFFICES ASSUME OutboxInv, [OutboxNext]_vars PROVE OutboxInv'
    OBVIOUS
  <1> USE DEF OutboxInv
  <1>1. CaseInv'
    BY OutboxCaseStep, NextInv
  <1>2. OutboxTypeOK'
    <2>1. TypeOK'
      BY <1>1 DEF CaseInv
    <2> QED
      BY <2>1, OutboxTypeStep
  <1>3. ListsHold'
    BY ListsStep
  <1>4. RepeatsArePaid'
    BY <1>2, RepeatsStep
  <1>5. CallsArePaid' /\ CallsAreBounded'
    BY <1>2, BoundStep
  <1> QED
    BY <1>1, <1>2, <1>3, <1>4, <1>5

-----------------------------------------------------------------------------

\* The inductive invariant of the two services' sweep steps, beside every
\* command the rest of the daemon gives a case.
THEOREM OutboxInvariant == OutboxSpec => []OutboxInv
  <1> QED
    BY OutboxInitInv, OutboxStep, PTL DEF OutboxSpec

\* The sweep's, the outbox's and GitHub's state keep their types; a settled
\* comment is on the issue, and what is on the issue was queued.
THEOREM OutboxTypeCorrect == OutboxSpec => []OutboxTypeOK
  <1>1. OutboxInv => OutboxTypeOK
    BY DEF OutboxInv
  <1> QED
    BY <1>1, OutboxInvariant, PTL

\* fail, eligible and clear of the triage service: however often the model, the
\* store and the daemon fail, a case costs at most the give-up's number of paid
\* calls in each life of the daemon, and one for each answer that was lost.
THEOREM CallsBounded == OutboxSpec => []CallsAreBounded
  <1>1. OutboxInv => CallsAreBounded
    BY DEF OutboxInv
  <1> QED
    BY <1>1, OutboxInvariant, PTL

\* With the sweep, the triage service and the commenter around it, no command
\* writes a case that the next load refuses.
THEOREM OutboxLoadable == OutboxSpec => []Loadable
  <1>1. OutboxInv => Loadable
    BY DEF OutboxInv, CaseInv
  <1> QED
    BY <1>1, OutboxInvariant, PTL

\* Every attempt is paid for by an approval, the first triage or the one requeue
\* of a restart, also when a size is recorded twice or late.
THEOREM OutboxJustified == OutboxSpec => []RunsAreJustified
  <1>1. OutboxInv => RunsAreJustified
    BY DEF OutboxInv, CaseInv
  <1> QED
    BY <1>1, OutboxInvariant, PTL

\* Neither a park nor a size opens the gate of an untrusted author's issue.
THEOREM OutboxGated == OutboxSpec => []GateHolds
  <1>1. OutboxInv => GateHolds
    BY DEF OutboxInv, CaseInv
  <1> QED
    BY <1>1, OutboxInvariant, PTL

\* The approved tier is bought, whatever the operator, the translator, the
\* scheduler and the runners do beside these steps.
THEOREM OutboxApprovedPaid == OutboxSpec => []ApprovedRunsArePaid
  <1>1. OutboxInit => AllCovered
    BY InitCovered DEF OutboxInit
  <1>2. OutboxInv /\ AllCovered /\ [OutboxNext]_vars => AllCovered'
    BY OutboxCaseStep, NextCovered DEF OutboxInv
  <1>3. OutboxInv /\ AllCovered => ApprovedRunsArePaid
    BY CoveredIsPaid DEF OutboxInv
  <1> QED
    BY <1>1, <1>2, <1>3, OutboxInvariant, PTL DEF OutboxSpec

noticeVars == <<queued, onIssue, settled, repeats, Slips>>

\* A copy is posted only against a failure or a crash.
LEMMA CopiesArePaid ==
  ASSUME OutboxInv, NEW x \in Comment, AtComment(x), Lands(x)
  PROVE  /\ x \in queued \ settled
         /\ repeats + (IF x \in onIssue THEN 1 ELSE 0) <= failures + restarts
  <1>1. x \in queued \ settled /\ sent = {}
    BY DEF AtComment, OutboxInv, ListsHold
  <1>2. Again \subseteq Comment
    BY DEF Again, OutboxInv, OutboxTypeOK
  <1> DEFINE n == Cardinality(Again)
             s == failures + restarts
  <1> HIDE DEF n, s
  <1>3. n \in Nat /\ repeats \in Nat /\ repeats + n <= s
    BY <1>2, CountComments DEF OutboxInv, RepeatsArePaid, OutboxTypeOK, Again, Slips, n, s
  <1>4. failures \in Nat /\ restarts \in Nat
    BY OutboxAssumption DEF OutboxInv, OutboxTypeOK, OutboxAssumption
  <1>5. s \in Nat
    BY <1>4, SumType DEF s
  <1>6. x \in onIssue => 1 <= n
    <2>1. SUFFICES ASSUME x \in onIssue PROVE 1 <= n
      OBVIOUS
    <2>2. x \in Again /\ {} \subseteq Again \ {x} /\ {} \subseteq Comment
      BY <1>1, <2>1 DEF Again
    <2>3. Cardinality({}) + 1 <= Cardinality(Again)
      BY <1>2, <2>2, CountComments
    <2> QED
      BY <1>3, <2>3, FS_EmptySet DEF n
  <1>7. repeats + (IF x \in onIssue THEN 1 ELSE 0) <= s
    BY <1>3, <1>5, <1>6
  <1> QED
    BY <1>1, <1>7 DEF s

LEMMA NoticeStep == OutboxInv /\ OutboxInv' /\ [OutboxNext]_vars => [N!Next]_noticeVars
  <1> SUFFICES ASSUME OutboxInv, OutboxInv', [OutboxNext]_vars PROVE [N!Next]_noticeVars
    OBVIOUS
  <1>1. /\ failures \in Nat /\ restarts \in Nat /\ failures' \in Nat /\ restarts' \in Nat
    BY OutboxAssumption DEF OutboxInv, OutboxTypeOK, OutboxAssumption
  <1>2. Fails => Slips' > Slips /\ Slips' >= Slips
    BY <1>1 DEF Fails, Slips
  <1>3. UNCHANGED budgetVars => Slips' >= Slips /\ Slips' = Slips
    BY <1>1 DEF budgetVars, Slips
  <1>4. CASE UNCHANGED <<outboxVars, budgetVars>>
    BY <1>3, <1>4 DEF noticeVars, outboxVars
  <1>5. CASE (ListFails \/ \E i \in Issue : GetIssueFails(i)) \/ \E z \in sizing : RecordSizeFails(z)
    <2>1. UNCHANGED outboxVars /\ Slips' > Slips
      BY <1>2, <1>5 DEF ListFails, GetIssueFails, RecordSizeFails, TriageUnchanged
    <2> QED
      BY <2>1 DEF N!Next, N!Slip, outboxVars
  <1>6. CASE Crash
    <2>1. Slips' > Slips /\ UNCHANGED <<queued, onIssue, settled, repeats>>
      BY <1>1, <1>6 DEF Crash, Slips
    <2> QED
      BY <2>1 DEF N!Next, N!Slip
  <1>7. ASSUME NEW x \in Comment, Comments(x) PROVE [N!Next]_noticeVars
    <2>1. CASE Enqueue(x) \/ EnqueueFails(x)
      <3>1. /\ x \notin queued /\ UNCHANGED <<onIssue, settled, repeats>>
            /\ \/ queued' = queued \cup {x} /\ Slips' >= Slips
               \/ queued' = queued /\ Slips' > Slips
        <4>1. x \notin queued
          BY <2>1 DEF Enqueue, EnqueueFails, OutboxInv, ListsHold
        <4>2. CASE Enqueue(x)
          BY <1>3, <4>1, <4>2 DEF Enqueue
        <4>3. CASE EnqueueFails(x)
          BY <1>2, <4>1, <4>3 DEF EnqueueFails
        <4> QED
          BY <2>1, <4>2, <4>3
      <3> QED
        BY <3>1 DEF N!Next, N!Queue, N!Slip
    <2>2. CASE Post(x) \/ PostFails(x)
      <3>1. AtComment(x) /\ UNCHANGED <<queued, settled>>
        BY <2>2 DEF Post, PostFails
      <3>2. CASE Lands(x)
        <4>1. /\ x \in queued \ settled
              /\ repeats + (IF x \in onIssue THEN 1 ELSE 0) <= Slips
          BY <3>1, <3>2, CopiesArePaid DEF Slips
        <4>2. Slips' >= Slips
          BY <1>2, <1>3, <2>2 DEF Post, PostFails
        <4>3. N!Post(x)
          BY <3>1, <3>2, <4>1, <4>2 DEF Lands, N!Post
        <4> QED
          BY <4>3 DEF N!Next
      <3>3. CASE ~Lands(x)
        <4>1. Slips' > Slips /\ UNCHANGED <<onIssue, repeats>>
          BY <1>2, <2>2, <3>3 DEF Post, PostFails
        <4> QED
          BY <3>1, <4>1 DEF N!Next, N!Slip
      <3> QED
        BY <3>2, <3>3
    <2>3. CASE RecordPost(x) \/ RecordPostFails(x)
      <3>1. x \in queued \cap onIssue /\ UNCHANGED <<queued, onIssue, repeats>>
        BY <2>3 DEF RecordPost, RecordPostFails, OutboxInv, OutboxTypeOK
      <3>2. \/ settled' = settled \cup {x} /\ Slips' >= Slips
            \/ settled' = settled /\ Slips' > Slips
        <4>1. CASE RecordPost(x)
          BY <1>3, <4>1 DEF RecordPost
        <4>2. CASE RecordPostFails(x)
          BY <1>2, <4>2 DEF RecordPostFails
        <4> QED
          BY <2>3, <4>1, <4>2
      <3> QED
        BY <3>1, <3>2 DEF N!Next, N!Settle, N!Slip
    <2>4. CASE PostRefused(x)
      BY <1>4, <2>4 DEF PostRefused, CommentUnchanged, outboxVars, budgetVars
    <2> QED
      BY <1>7, <2>1, <2>2, <2>3, <2>4 DEF Comments
  <1>8. \/ UNCHANGED <<outboxVars, budgetVars>>
        \/ (ListFails \/ \E i \in Issue : GetIssueFails(i)) \/ \E z \in sizing : RecordSizeFails(z)
        \/ Crash
        \/ \E x \in Comment : Comments(x)
    BY CaseOnlyStep
    DEF OutboxNext, SweepNext, Size, Enrollment, Boot, SweepHangs, Refuse, BackoffEnds,
        StartSweep, TriageDone, TriagesDone, OutcomesDone, PostDone, GoTo, SkipWaiting, GetIssueRefused, Classify, ClassifyFails, Call, RecordSize,
        TriageUnchanged, vars
  <1> QED
    BY <1>4, <1>5, <1>6, <1>7, <1>8

\* The commenter's three steps implement the notice: nothing unqueued is posted,
\* nothing is settled before it is posted, and each copy has its failure.
THEOREM OutboxImplementsNotice == OutboxSpec => ImplementsNotice
  <1>1. OutboxInit => N!Init
    <2>1. 0 + 0 = 0
      OBVIOUS
    <2> QED
      BY <2>1 DEF OutboxInit, N!Init, Slips
  <1> QED
    BY <1>1, OutboxInvariant, NoticeStep, PTL
    DEF OutboxSpec, ImplementsNotice, N!NoticeSpec, noticeVars
=============================================================================
