-------------------------- MODULE ResolutionProofs --------------------------
(***************************************************************************)
(* Proofs about the daemon of Resolution, for every finite set of issues,  *)
(* every Concurrency and every bound.  The daemon reaches the cases by the *)
(* commands of the aggregate only (CaseStep), so the invariant of          *)
(* CaseProofs carries over; on top of it ResInv adds what the daemon's own *)
(* state says about the attempts, one conjunct per concern.                *)
(***************************************************************************)
EXTENDS Resolution, CaseProofs, FiniteSetTheorems

\* The system's bookkeeping speaks of attempts that were opened.
Known ==
    \A i \in Issue, n \in Ordinal :
        runner[i][n] # "idle" \/ <<i, n>> \in lost \cup recovery => n <= attempts[i]

\* A runner that gets as far as its write has an outcome to write.
Answered ==
    \A i \in Issue, n \in Ordinal : runner[i][n] = "writing" => answer[i][n] \in Outcome

\* The slots still to be given away are free.
Counted ==
    /\ Cardinality(OpenAttempts \ lost) <= Concurrency
    /\ step = "schedule" => Cardinality(OpenAttempts \ lost) + slots <= Concurrency

\* From the boot scan on, somebody is going to end every open attempt.
Attended ==
    daemon \in {"recovering", "up"} =>
        \A a \in OpenAttempts \ lost :
            runner[a[1]][a[2]] # "idle" \/ (daemon = "recovering" /\ a \in recovery)

\* The sweep that removes a repository empties its queue before scheduling.
QueueEnrolled == step = "schedule" => \A i \in queue : enrolled[i]

\* Without a run request during the boot nothing runs until recovery is done.
Quiescent ==
    daemon \in {"down", "booting", "recovering"} =>
        /\ step = "idle"
        /\ ~apiSweep
        /\ \A i \in Issue, n \in Ordinal : runner[i][n] = "idle"

\* So recovery and the failed writes concern attempts nobody works on.
Owned ==
    \A i \in Issue, n \in Ordinal :
        /\ runner[i][n] \in Executing \cup {"writing"} => IsOpen(i, n)
        /\ runner[i][n] # "idle" => <<i, n>> \notin lost

\* A runner says "issue closed" of closed issues only.
Truthful ==
    \A i \in Issue, n \in Ordinal :
        "issue_closed" \in {reason[i][n], answer[i][n]} => state[i] = "closed"

ResInv ==
    /\ CaseInv
    /\ ResTypeOK
    /\ Known
    /\ Answered
    /\ Counted
    /\ Attended
    /\ QueueEnrolled
    /\ Truthful
    /\ ~EarlyRun => Quiescent /\ Owned

-----------------------------------------------------------------------------
\* What the commands of a case do to the set of open attempts.

\* An outcome closes one attempt; no other fact about attempts changes.
LEMMA OutcomeEffect ==
  ASSUME CaseInv, NEW i \in Issue, NEW n \in Ordinal, NEW o, RecordOutcome(i, n, o), o \in Outcome
  PROVE  /\ OpenAttempts' = OpenAttempts \ {<<i, n>>}
         /\ ~IsOpen(i, n)'
         /\ \A j \in Issue, m \in Ordinal : <<j, m>> # <<i, n>> => (IsOpen(j, m)' <=> IsOpen(j, m))
         /\ attempts' = attempts
         /\ \A j \in Issue : state[j] = "closed" => state'[j] = "closed"
<1> USE DEF CaseInv, TypeOK
<1>1. ~IsOpen(i, n)'
  BY DEF RecordOutcome, IsOpen, Open, Outcome
<1>2. \A j \in Issue, m \in Ordinal : <<j, m>> # <<i, n>> => (IsOpen(j, m)' <=> IsOpen(j, m))
  BY DEF RecordOutcome, IsOpen
<1>3. OpenAttempts' = OpenAttempts \ {<<i, n>>}
  BY <1>1, <1>2 DEF OpenAttempts, Attempt
<1>4. \A j \in Issue : state[j] = "closed" => state'[j] = "closed"
  BY DEF RecordOutcome, OutcomeMove
<1> QED
  BY <1>1, <1>2, <1>3, <1>4 DEF RecordOutcome

\* A start opens the next attempt.
LEMMA StartEffect ==
  ASSUME CaseInv, NEW i \in Issue, StartAttempt(i)
  PROVE  /\ attempts[i] + 1 \in Ordinal
         /\ attempts' = [attempts EXCEPT ![i] = attempts[i] + 1]
         /\ OpenAttempts' = OpenAttempts \cup {<<i, attempts[i] + 1>>}
         /\ \A j \in Issue, m \in Ordinal :
               IsOpen(j, m)' <=> IsOpen(j, m) \/ <<j, m>> = <<i, attempts[i] + 1>>
         /\ \A j \in Issue : state[j] = "closed" => state'[j] = "closed"
<1> USE DEF CaseInv, TypeOK
<1>1. attempts[i] + 1 \in Ordinal
  BY CaseAssumption DEF StartAttempt, Ordinal
<1>2. \A j \in Issue, m \in Ordinal :
         IsOpen(j, m)' <=> IsOpen(j, m) \/ <<j, m>> = <<i, attempts[i] + 1>>
  BY <1>1 DEF StartAttempt, IsOpen, Open
<1>3. OpenAttempts' = OpenAttempts \cup {<<i, attempts[i] + 1>>}
  BY <1>1, <1>2 DEF OpenAttempts, Attempt
<1> QED
  BY <1>1, <1>2, <1>3 DEF StartAttempt

\* The other commands leave the attempts alone.
LEMMA OtherEffect ==
  ASSUME CaseInv, NEW i \in Issue,
         \/ NewCase(i)
         \/ \E size \in {"small", "large"} : RecordTriage(i, size)
         \/ RecordApproval(i)
         \/ \E n \in Ordinal : RecordRun(i, n)
         \/ Close(i)
  PROVE  /\ OpenAttempts' = OpenAttempts
         /\ attempts' = attempts
         /\ \A j \in Issue, m \in Ordinal : IsOpen(j, m)' <=> IsOpen(j, m)
         /\ \A j \in Issue : state[j] = "closed" => state'[j] = "closed"
<1> USE DEF CaseInv, TypeOK
<1>1. \A j \in Issue, m \in Ordinal : IsOpen(j, m)' <=> IsOpen(j, m)
  <2>1. CASE \E n \in Ordinal : RecordRun(i, n)
    BY <2>1 DEF RecordRun, IsTarget, IsOpen, Open
  <2> QED
    BY <2>1 DEF NewCase, RecordTriage, RecordApproval, Close, IsOpen
<1>2. OpenAttempts' = OpenAttempts
  BY <1>1 DEF OpenAttempts, Attempt
<1> QED
  BY <1>1, <1>2 DEF NewCase, RecordTriage, RecordApproval, RecordRun, Close, CaseState, Terminal

\* Nothing opens or ends when no command is given.
LEMMA NoEffect ==
  ASSUME UNCHANGED caseVars
  PROVE  /\ OpenAttempts' = OpenAttempts
         /\ attempts' = attempts
         /\ state' = state
         /\ \A j \in Issue, m \in Ordinal : IsOpen(j, m)' <=> IsOpen(j, m)
BY DEF caseVars, OpenAttempts, IsOpen

\* The daemon's ways to end an attempt close that one or, when refused, nothing.
LEMMA EndingEffect ==
  ASSUME CaseInv, Answered, NEW i \in Issue, NEW n \in Ordinal,
         RecoverOne(i, n) \/ Write(i, n) \/ Backstop(i, n)
  PROVE  /\ OpenAttempts' \subseteq OpenAttempts
         /\ attempts' = attempts
         /\ \A j \in Issue, m \in Ordinal :
               /\ IsOpen(j, m)' => IsOpen(j, m)
               /\ <<j, m>> # <<i, n>> => (IsOpen(j, m)' <=> IsOpen(j, m))
         /\ \A j \in Issue : state[j] = "closed" => state'[j] = "closed"
<1>1. PICK o \in Outcome : RecordOutcome(i, n, o) \/ UNCHANGED caseVars
  <2>1. CASE RecoverOne(i, n)
    BY <2>1 DEF RecoverOne, RecoveryOutcome, Outcome
  <2>2. CASE Write(i, n)
    <3>1. answer[i][n] \in Outcome
      BY <2>2 DEF Write, Return, Move, Answered
    <3> QED
      BY <2>2, <3>1 DEF Write
  <2>3. CASE Backstop(i, n)
    BY <2>3 DEF Backstop, Outcome
  <2> QED
    BY <2>1, <2>2, <2>3
<1>2. CASE RecordOutcome(i, n, o)
  BY <1>2, OutcomeEffect
<1>3. CASE UNCHANGED caseVars
  BY <1>3, NoEffect
<1> QED
  BY <1>1, <1>2, <1>3

\* A process that dies leaves its variables as a fresh one finds them.
LEMMA DieType ==
  ASSUME Die
  PROVE  /\ runner' \in [Issue -> [Ordinal -> RunnerPc]]
         /\ reason' \in [Issue -> [Ordinal -> {"none", "operator_stop", "issue_closed"}]]
         /\ answer' \in [Issue -> [Ordinal -> Outcome \cup {"none"}]]
         /\ step' \in {"idle", "translate", "cancel", "triage", "schedule", "hung"}
         /\ queue' \in SUBSET Issue
         /\ slots' \in 0..Concurrency
         /\ apiSweep' \in BOOLEAN
         /\ recovery' \in SUBSET Attempt
<1>1. runner' \in [Issue -> [Ordinal -> RunnerPc]]
  BY DEF Die, Fill, RunnerPc
<1>2. reason' \in [Issue -> [Ordinal -> {"none", "operator_stop", "issue_closed"}]]
  BY DEF Die, Fill
<1>3. answer' \in [Issue -> [Ordinal -> Outcome \cup {"none"}]]
  BY DEF Die, Fill
<1>4. slots' \in 0..Concurrency
  BY ResolutionAssumption DEF Die
<1>5. /\ queue' \in SUBSET Issue
      /\ recovery' \in SUBSET Attempt
      /\ step' \in {"idle", "translate", "cancel", "triage", "schedule", "hung"}
  BY DEF Die
<1>6. apiSweep' \in BOOLEAN
  BY DEF Die
<1> QED
  BY <1>1, <1>2, <1>3, <1>4, <1>5, <1>6

\* The attempts are finitely many.
LEMMA AttemptsFinite == IsFiniteSet(Attempt) /\ \A S \in SUBSET Attempt : IsFiniteSet(S)
<1>1. IsFiniteSet(Ordinal)
  BY CaseAssumption, FS_Interval DEF Ordinal
<1>2. IsFiniteSet(Attempt)
  BY <1>1, CaseAssumption, FS_Product DEF Attempt
<1> QED
  BY <1>2, FS_Subset

\* A case never has two open attempts, so an open one is the target.
LEMMA OpenIsTarget ==
  ASSUME CaseInv, NEW i \in Issue, NEW n \in Ordinal
  PROVE  IsOpen(i, n) <=> IsTarget(i, n)
BY DEF CaseInv, Loadable, IsTarget, OpenOrdinals, Ordinal

\* Slots stay respected as long as no attempt joins the counted ones.
LEMMA CountedQuiet ==
  ASSUME ResTypeOK, Counted, OpenAttempts' \ lost' \subseteq OpenAttempts \ lost,
         step' = "schedule" => step = "schedule" /\ slots' = slots
  PROVE  Counted'
<1>1. /\ IsFiniteSet(OpenAttempts \ lost)
      /\ Cardinality(OpenAttempts' \ lost') <= Cardinality(OpenAttempts \ lost)
  BY AttemptsFinite, FS_Subset DEF OpenAttempts
<1>2. IsFiniteSet(OpenAttempts' \ lost')
  BY <1>1, FS_Subset
<1>3. /\ Cardinality(OpenAttempts \ lost) \in Nat
      /\ Cardinality(OpenAttempts' \ lost') \in Nat
      /\ slots \in Int
      /\ Concurrency \in Nat
  BY <1>1, <1>2, FS_CardinalityType, ResolutionAssumption DEF ResTypeOK
<1> QED
  BY <1>1, <1>3 DEF Counted

-----------------------------------------------------------------------------
\* Every step of the daemon is a command of the aggregate or none.
LEMMA CaseStep == ASSUME Answered, ResNext PROVE [Next]_caseVars
<1> USE DEF Next
<1>1. CASE Boot
  BY <1>1 DEF Boot
<1>2. CASE RecoveryList
  BY <1>2 DEF RecoveryList
<1>3. CASE RecoveryDone
  BY <1>3 DEF RecoveryDone
<1>4. CASE Shutdown
  BY <1>4 DEF Shutdown
<1>5. CASE Exit
  BY <1>5 DEF Exit, Die
<1>6. CASE Crash
  BY <1>6 DEF Crash, Die
<1>7. CASE StartSweep
  BY <1>7 DEF StartSweep
<1>8. CASE TranslateDone
  BY <1>8 DEF TranslateDone
<1>9. CASE CancelClosed
  BY <1>9 DEF CancelClosed
<1>10. CASE ListQueue
  BY <1>10 DEF ListQueue
<1>11. CASE SweepDone
  BY <1>11 DEF SweepDone
<1>35. CASE ListFails
  BY <1>35 DEF ListFails
<1>36. CASE SweepHangs
  BY <1>36 DEF SweepHangs
<1>12. ASSUME NEW i \in Issue, TranslateOpened(i) PROVE [Next]_caseVars
  BY <1>12 DEF TranslateOpened
<1>13. ASSUME NEW i \in Issue, TranslateLabeled(i) PROVE [Next]_caseVars
  BY <1>13 DEF TranslateLabeled
<1>14. ASSUME NEW i \in Issue, TranslateClosed(i) PROVE [Next]_caseVars
  BY <1>14 DEF TranslateClosed
<1>15. ASSUME NEW i \in Issue, TranslateEnrollment(i) PROVE [Next]_caseVars
  BY <1>15 DEF TranslateEnrollment
<1>16. ASSUME NEW i \in Issue, NEW size \in {"small", "large"}, Triage(i, size) PROVE [Next]_caseVars
  BY <1>16 DEF Triage
<1>17. ASSUME NEW i \in Issue, Start(i) PROVE [Next]_caseVars
  BY <1>17 DEF Start, Visit
<1>18. ASSUME NEW i \in Issue, StartUnacknowledged(i) PROVE [Next]_caseVars
  BY <1>18 DEF StartUnacknowledged, Visit
<1>19. ASSUME NEW i \in Issue, Skip(i) PROVE [Next]_caseVars
  BY <1>19 DEF Skip, Visit
<1>20. ASSUME NEW i \in Issue, ApiRunCreate(i) PROVE [Next]_caseVars
  BY <1>20 DEF ApiRunCreate
<1>21. ASSUME NEW i \in Issue, ApiRun(i) PROVE [Next]_caseVars
  BY <1>21 DEF ApiRun
<1>22. ASSUME NEW i \in Issue, NEW n \in Ordinal, RecoverOne(i, n) PROVE [Next]_caseVars
  <2>1. RecoveryOutcome(i) \in Outcome
    BY DEF RecoveryOutcome, Outcome
  <2> QED
    BY <1>22, <2>1 DEF RecoverOne
<1>23. ASSUME NEW i \in Issue, NEW n \in Ordinal, RecoverOneFails(i, n) PROVE [Next]_caseVars
  BY <1>23 DEF RecoverOneFails
<1>24. ASSUME NEW i \in Issue, NEW n \in Ordinal, Register(i, n) PROVE [Next]_caseVars
  BY <1>24 DEF Register
<1>25. ASSUME NEW i \in Issue, NEW n \in Ordinal, Load(i, n) PROVE [Next]_caseVars
  BY <1>25 DEF Load
<1>26. ASSUME NEW i \in Issue, NEW n \in Ordinal, Bail(i, n) PROVE [Next]_caseVars
  BY <1>26 DEF Bail
<1>27. ASSUME NEW i \in Issue, NEW n \in Ordinal, RunBegan(i, n) PROVE [Next]_caseVars
  BY <1>27 DEF RunBegan
<1>28. ASSUME NEW i \in Issue, NEW n \in Ordinal,
            NEW o \in Outcome \cup {"none"}, Decide(i, n, o)
      PROVE [Next]_caseVars
  BY <1>28 DEF Decide
<1>29. ASSUME NEW i \in Issue, NEW n \in Ordinal, Unregister(i, n) PROVE [Next]_caseVars
  BY <1>29 DEF Unregister
<1>30. ASSUME NEW i \in Issue, NEW n \in Ordinal, Write(i, n) PROVE [Next]_caseVars
  <2>1. CASE RecordOutcome(i, n, answer[i][n])
    <3>1. answer[i][n] \in Outcome
      BY <1>30 DEF Write, Return, Move, Answered
    <3> QED
      BY <2>1, <3>1
  <2>2. CASE UNCHANGED caseVars
    BY <2>2
  <2> QED
    BY <1>30, <2>1, <2>2 DEF Write
<1>31. ASSUME NEW i \in Issue, NEW n \in Ordinal, WriteFails(i, n) PROVE [Next]_caseVars
  BY <1>31 DEF WriteFails
<1>32. ASSUME NEW i \in Issue, NEW n \in Ordinal, Backstop(i, n) PROVE [Next]_caseVars
  <2>1. "failed" \in Outcome
    BY DEF Outcome
  <2> QED
    BY <1>32, <2>1 DEF Backstop
<1>33. ASSUME NEW i \in Issue, NEW n \in Ordinal, BackstopFails(i, n) PROVE [Next]_caseVars
  BY <1>33 DEF BackstopFails
<1>34. ASSUME NEW i \in Issue, NEW n \in Ordinal, ApiStop(i, n) PROVE [Next]_caseVars
  BY <1>34 DEF ApiStop
<1> QED
  BY <1>1, <1>2, <1>3, <1>4, <1>5, <1>6, <1>7, <1>8, <1>9, <1>10, <1>11, <1>35, <1>36, <1>12, <1>13, <1>14, <1>15, <1>16, <1>17,
     <1>18, <1>19, <1>20, <1>21, <1>22, <1>23, <1>24, <1>25, <1>26, <1>27, <1>28, <1>29, <1>30, <1>31, <1>32, <1>33, <1>34
  DEF ResNext, ProcessNext, SweepNext, AttemptNext

\* Every step keeps the daemon's state in its types.
LEMMA TypeStep == ASSUME CaseInv, ResTypeOK, TypeOK', ResNext PROVE ResTypeOK'
<1> USE CaseAssumption, ResolutionAssumption DEF ResTypeOK, Serving, Live, RunnerPc, Executing, Registered, daemonVars, sweepVars, runnerVars
<1>1. CASE Boot
  BY <1>1 DEF Boot
<1>2. CASE RecoveryList
  BY <1>2 DEF RecoveryList, OpenAttempts
<1>3. CASE RecoveryDone
  BY <1>3 DEF RecoveryDone
<1>4. CASE Shutdown
  BY <1>4 DEF Shutdown
<1>5. CASE Exit
  BY <1>5, DieType DEF Exit, Die
<1>6. CASE Crash
  <2>1. Die /\ restarts' \in 0..MaxRestarts
    BY <1>6 DEF Crash
  <2> QED
    BY <2>1, DieType DEF Die
<1>7. CASE StartSweep
  BY <1>7 DEF StartSweep
<1>8. CASE TranslateDone
  BY <1>8 DEF TranslateDone, InStep
<1>9. CASE CancelClosed
  BY <1>9 DEF CancelClosed, InStep
<1>10. CASE ListQueue
  <2>1. Cardinality(OpenAttempts) \in Nat
    BY AttemptsFinite, FS_CardinalityType DEF OpenAttempts
  <2>2. FreeSlots \in Int /\ (~(FreeSlots <= 0) => FreeSlots \in 0..Concurrency)
    BY <2>1 DEF FreeSlots
  <2>3. /\ slots' \in 0..Concurrency
        /\ queue' \in SUBSET Issue
        /\ step' \in {"idle", "schedule"}
    BY <1>10, <2>2 DEF ListQueue
  <2> QED
    BY <1>10, <2>3 DEF ListQueue, InStep
<1>11. CASE SweepDone
  BY <1>11 DEF SweepDone, InStep
<1>35. CASE ListFails
  BY <1>35 DEF ListFails, InStep
<1>36. CASE SweepHangs
  BY <1>36 DEF SweepHangs
<1>12. ASSUME NEW i \in Issue, TranslateOpened(i) PROVE ResTypeOK'
  BY <1>12 DEF TranslateOpened, InStep
<1>13. ASSUME NEW i \in Issue, TranslateLabeled(i) PROVE ResTypeOK'
  BY <1>13 DEF TranslateLabeled, InStep
<1>14. ASSUME NEW i \in Issue, TranslateClosed(i) PROVE ResTypeOK'
  BY <1>14 DEF TranslateClosed, InStep
<1>15. ASSUME NEW i \in Issue, TranslateEnrollment(i) PROVE ResTypeOK'
  BY <1>15 DEF TranslateEnrollment, InStep
<1>16. ASSUME NEW i \in Issue, NEW size \in {"small", "large"}, Triage(i, size) PROVE ResTypeOK'
  BY <1>16 DEF Triage, InStep
<1>17. ASSUME NEW i \in Issue, Start(i) PROVE ResTypeOK'
  <2>1. attempts[i] + 1 \in Ordinal
    BY <1>17, StartEffect DEF Start
  <2> QED
    BY <1>17, <2>1 DEF Start, Visit, InStep
<1>18. ASSUME NEW i \in Issue, StartUnacknowledged(i) PROVE ResTypeOK'
  <2>1. <<i, attempts[i] + 1>> \in Attempt
    BY <1>18, StartEffect DEF StartUnacknowledged, Attempt
  <2> QED
    BY <1>18, <2>1 DEF StartUnacknowledged, Visit, InStep
<1>19. ASSUME NEW i \in Issue, Skip(i) PROVE ResTypeOK'
  BY <1>19 DEF Skip, Visit, InStep
<1>20. ASSUME NEW i \in Issue, ApiRunCreate(i) PROVE ResTypeOK'
  BY <1>20 DEF ApiRunCreate
<1>21. ASSUME NEW i \in Issue, ApiRun(i) PROVE ResTypeOK'
  BY <1>21 DEF ApiRun
<1>22. ASSUME NEW i \in Issue, NEW n \in Ordinal, RecoverOne(i, n) PROVE ResTypeOK'
  BY <1>22 DEF RecoverOne
<1>23. ASSUME NEW i \in Issue, NEW n \in Ordinal, RecoverOneFails(i, n) PROVE ResTypeOK'
  BY <1>23 DEF RecoverOneFails, Attempt
<1>24. ASSUME NEW i \in Issue, NEW n \in Ordinal, Register(i, n) PROVE ResTypeOK'
  BY <1>24 DEF Register, Move
<1>25. ASSUME NEW i \in Issue, NEW n \in Ordinal, Load(i, n) PROVE ResTypeOK'
  BY <1>25 DEF Load, Move
<1>26. ASSUME NEW i \in Issue, NEW n \in Ordinal, Bail(i, n) PROVE ResTypeOK'
  BY <1>26 DEF Bail, Return, Move
<1>27. ASSUME NEW i \in Issue, NEW n \in Ordinal, RunBegan(i, n) PROVE ResTypeOK'
  BY <1>27 DEF RunBegan
<1>28. ASSUME NEW i \in Issue, NEW n \in Ordinal,
            NEW o \in Outcome \cup {"none"}, Decide(i, n, o)
      PROVE ResTypeOK'
  BY <1>28 DEF Decide, Move
<1>29. ASSUME NEW i \in Issue, NEW n \in Ordinal, Unregister(i, n) PROVE ResTypeOK'
  <2>1. UNCHANGED <<caseVars, daemonVars, sweepVars, recovery, lost>>
    BY <1>29 DEF Unregister
  <2>2. CASE Return(i, n, {"teardown"})
    BY <2>1, <2>2 DEF Return, Move
  <2>3. CASE Move(i, n, {"teardown"}, "writing") /\ UNCHANGED <<reason, answer>>
    BY <2>1, <2>3 DEF Move
  <2> QED
    BY <1>29, <2>2, <2>3 DEF Unregister
<1>30. ASSUME NEW i \in Issue, NEW n \in Ordinal, Write(i, n) PROVE ResTypeOK'
  BY <1>30 DEF Write, Return, Move
<1>31. ASSUME NEW i \in Issue, NEW n \in Ordinal, WriteFails(i, n) PROVE ResTypeOK'
  BY <1>31 DEF WriteFails, Return, Move
<1>32. ASSUME NEW i \in Issue, NEW n \in Ordinal, Backstop(i, n) PROVE ResTypeOK'
  BY <1>32 DEF Backstop, Move
<1>33. ASSUME NEW i \in Issue, NEW n \in Ordinal, BackstopFails(i, n) PROVE ResTypeOK'
  BY <1>33 DEF BackstopFails, Move, Attempt
<1>34. ASSUME NEW i \in Issue, NEW n \in Ordinal, ApiStop(i, n) PROVE ResTypeOK'
  BY <1>34 DEF ApiStop
<1> QED
  BY <1>1, <1>2, <1>3, <1>4, <1>5, <1>6, <1>7, <1>8, <1>9, <1>10, <1>11, <1>35, <1>36, <1>12, <1>13, <1>14, <1>15, <1>16, <1>17,
     <1>18, <1>19, <1>20, <1>21, <1>22, <1>23, <1>24, <1>25, <1>26, <1>27, <1>28, <1>29, <1>30, <1>31, <1>32, <1>33, <1>34
  DEF ResNext, ProcessNext, SweepNext, AttemptNext

\* A runner is sent to its write with the outcome it decided on.
LEMMA AnsweredStep == ASSUME ResTypeOK, Answered, ResNext PROVE Answered'
<1> USE DEF ResTypeOK, Answered, daemonVars, sweepVars, runnerVars
<1>1. CASE Boot
  BY <1>1 DEF Boot
<1>2. CASE RecoveryList
  BY <1>2 DEF RecoveryList
<1>3. CASE RecoveryDone
  BY <1>3 DEF RecoveryDone
<1>4. CASE Shutdown
  BY <1>4 DEF Shutdown
<1>5. CASE Exit
  BY <1>5 DEF Exit, Die, Fill
<1>6. CASE Crash
  BY <1>6 DEF Crash, Die, Fill
<1>7. CASE StartSweep
  BY <1>7 DEF StartSweep
<1>8. CASE TranslateDone
  BY <1>8 DEF TranslateDone, InStep
<1>9. CASE CancelClosed
  BY <1>9 DEF CancelClosed, InStep
<1>10. CASE ListQueue
  BY <1>10 DEF ListQueue, InStep
<1>11. CASE SweepDone
  BY <1>11 DEF SweepDone, InStep
<1>35. CASE ListFails
  BY <1>35 DEF ListFails, InStep
<1>36. CASE SweepHangs
  BY <1>36 DEF SweepHangs
<1>12. ASSUME NEW i \in Issue, TranslateOpened(i) PROVE Answered'
  BY <1>12 DEF TranslateOpened, InStep
<1>13. ASSUME NEW i \in Issue, TranslateLabeled(i) PROVE Answered'
  BY <1>13 DEF TranslateLabeled, InStep
<1>14. ASSUME NEW i \in Issue, TranslateClosed(i) PROVE Answered'
  BY <1>14 DEF TranslateClosed, InStep
<1>15. ASSUME NEW i \in Issue, TranslateEnrollment(i) PROVE Answered'
  BY <1>15 DEF TranslateEnrollment, InStep
<1>16. ASSUME NEW i \in Issue, NEW size \in {"small", "large"}, Triage(i, size) PROVE Answered'
  BY <1>16 DEF Triage, InStep
<1>17. ASSUME NEW i \in Issue, Start(i) PROVE Answered'
  BY <1>17 DEF Start, Visit, InStep
<1>18. ASSUME NEW i \in Issue, StartUnacknowledged(i) PROVE Answered'
  BY <1>18 DEF StartUnacknowledged, Visit, InStep
<1>19. ASSUME NEW i \in Issue, Skip(i) PROVE Answered'
  BY <1>19 DEF Skip, Visit, InStep
<1>20. ASSUME NEW i \in Issue, ApiRunCreate(i) PROVE Answered'
  BY <1>20 DEF ApiRunCreate
<1>21. ASSUME NEW i \in Issue, ApiRun(i) PROVE Answered'
  BY <1>21 DEF ApiRun
<1>22. ASSUME NEW i \in Issue, NEW n \in Ordinal, RecoverOne(i, n) PROVE Answered'
  BY <1>22 DEF RecoverOne
<1>23. ASSUME NEW i \in Issue, NEW n \in Ordinal, RecoverOneFails(i, n) PROVE Answered'
  BY <1>23 DEF RecoverOneFails
<1>24. ASSUME NEW i \in Issue, NEW n \in Ordinal, Register(i, n) PROVE Answered'
  BY <1>24 DEF Register, Move
<1>25. ASSUME NEW i \in Issue, NEW n \in Ordinal, Load(i, n) PROVE Answered'
  BY <1>25 DEF Load, Move
<1>26. ASSUME NEW i \in Issue, NEW n \in Ordinal, Bail(i, n) PROVE Answered'
  BY <1>26 DEF Bail, Return, Move
<1>27. ASSUME NEW i \in Issue, NEW n \in Ordinal, RunBegan(i, n) PROVE Answered'
  BY <1>27 DEF RunBegan
<1>28. ASSUME NEW i \in Issue, NEW n \in Ordinal,
            NEW o \in Outcome \cup {"none"}, Decide(i, n, o)
      PROVE Answered'
  BY <1>28 DEF Decide, Move
<1>29. ASSUME NEW i \in Issue, NEW n \in Ordinal, Unregister(i, n) PROVE Answered'
  <2>1. CASE Return(i, n, {"teardown"})
    BY <2>1 DEF Return, Move
  <2>2. CASE answer[i][n] # "none" /\ Move(i, n, {"teardown"}, "writing") /\ UNCHANGED <<reason, answer>>
    BY <2>2 DEF Move
  <2> QED
    BY <1>29, <2>1, <2>2 DEF Unregister
<1>30. ASSUME NEW i \in Issue, NEW n \in Ordinal, Write(i, n) PROVE Answered'
  BY <1>30 DEF Write, Return, Move
<1>31. ASSUME NEW i \in Issue, NEW n \in Ordinal, WriteFails(i, n) PROVE Answered'
  BY <1>31 DEF WriteFails, Return, Move
<1>32. ASSUME NEW i \in Issue, NEW n \in Ordinal, Backstop(i, n) PROVE Answered'
  BY <1>32 DEF Backstop, Move
<1>33. ASSUME NEW i \in Issue, NEW n \in Ordinal, BackstopFails(i, n) PROVE Answered'
  BY <1>33 DEF BackstopFails, Move
<1>34. ASSUME NEW i \in Issue, NEW n \in Ordinal, ApiStop(i, n) PROVE Answered'
  BY <1>34 DEF ApiStop
<1> QED
  BY <1>1, <1>2, <1>3, <1>4, <1>5, <1>6, <1>7, <1>8, <1>9, <1>10, <1>11, <1>35, <1>36, <1>12, <1>13, <1>14, <1>15, <1>16, <1>17,
     <1>18, <1>19, <1>20, <1>21, <1>22, <1>23, <1>24, <1>25, <1>26, <1>27, <1>28, <1>29, <1>30, <1>31, <1>32, <1>33, <1>34
  DEF ResNext, ProcessNext, SweepNext, AttemptNext

\* Repositories come and go in the translate step, before the queue is read.
LEMMA QueueStep == ASSUME ResTypeOK, QueueEnrolled, ResNext PROVE QueueEnrolled'
<1> USE DEF ResTypeOK, QueueEnrolled, daemonVars, sweepVars, runnerVars
<1>1. CASE Boot
  BY <1>1 DEF Boot
<1>2. CASE RecoveryList
  BY <1>2 DEF RecoveryList
<1>3. CASE RecoveryDone
  BY <1>3 DEF RecoveryDone
<1>4. CASE Shutdown
  BY <1>4 DEF Shutdown
<1>5. CASE Exit
  BY <1>5 DEF Exit, Die
<1>6. CASE Crash
  BY <1>6 DEF Crash, Die
<1>7. CASE StartSweep
  BY <1>7 DEF StartSweep
<1>8. CASE TranslateDone
  BY <1>8 DEF TranslateDone, InStep
<1>9. CASE CancelClosed
  BY <1>9 DEF CancelClosed, InStep
<1>10. CASE ListQueue
  BY <1>10 DEF ListQueue, InStep
<1>11. CASE SweepDone
  BY <1>11 DEF SweepDone, InStep
<1>35. CASE ListFails
  BY <1>35 DEF ListFails, InStep
<1>36. CASE SweepHangs
  BY <1>36 DEF SweepHangs
<1>12. ASSUME NEW i \in Issue, TranslateOpened(i) PROVE QueueEnrolled'
  BY <1>12 DEF TranslateOpened, InStep
<1>13. ASSUME NEW i \in Issue, TranslateLabeled(i) PROVE QueueEnrolled'
  BY <1>13 DEF TranslateLabeled, InStep
<1>14. ASSUME NEW i \in Issue, TranslateClosed(i) PROVE QueueEnrolled'
  BY <1>14 DEF TranslateClosed, InStep
<1>15. ASSUME NEW i \in Issue, TranslateEnrollment(i) PROVE QueueEnrolled'
  BY <1>15 DEF TranslateEnrollment, InStep
<1>16. ASSUME NEW i \in Issue, NEW size \in {"small", "large"}, Triage(i, size) PROVE QueueEnrolled'
  BY <1>16 DEF Triage, InStep
<1>17. ASSUME NEW i \in Issue, Start(i) PROVE QueueEnrolled'
  BY <1>17 DEF Start, Visit, InStep
<1>18. ASSUME NEW i \in Issue, StartUnacknowledged(i) PROVE QueueEnrolled'
  BY <1>18 DEF StartUnacknowledged, Visit, InStep
<1>19. ASSUME NEW i \in Issue, Skip(i) PROVE QueueEnrolled'
  BY <1>19 DEF Skip, Visit, InStep
<1>20. ASSUME NEW i \in Issue, ApiRunCreate(i) PROVE QueueEnrolled'
  BY <1>20 DEF ApiRunCreate
<1>21. ASSUME NEW i \in Issue, ApiRun(i) PROVE QueueEnrolled'
  BY <1>21 DEF ApiRun
<1>22. ASSUME NEW i \in Issue, NEW n \in Ordinal, RecoverOne(i, n) PROVE QueueEnrolled'
  BY <1>22 DEF RecoverOne
<1>23. ASSUME NEW i \in Issue, NEW n \in Ordinal, RecoverOneFails(i, n) PROVE QueueEnrolled'
  BY <1>23 DEF RecoverOneFails
<1>24. ASSUME NEW i \in Issue, NEW n \in Ordinal, Register(i, n) PROVE QueueEnrolled'
  BY <1>24 DEF Register, Move
<1>25. ASSUME NEW i \in Issue, NEW n \in Ordinal, Load(i, n) PROVE QueueEnrolled'
  BY <1>25 DEF Load, Move
<1>26. ASSUME NEW i \in Issue, NEW n \in Ordinal, Bail(i, n) PROVE QueueEnrolled'
  BY <1>26 DEF Bail, Return, Move
<1>27. ASSUME NEW i \in Issue, NEW n \in Ordinal, RunBegan(i, n) PROVE QueueEnrolled'
  BY <1>27 DEF RunBegan
<1>28. ASSUME NEW i \in Issue, NEW n \in Ordinal,
            NEW o \in Outcome \cup {"none"}, Decide(i, n, o)
      PROVE QueueEnrolled'
  BY <1>28 DEF Decide, Move
<1>29. ASSUME NEW i \in Issue, NEW n \in Ordinal, Unregister(i, n) PROVE QueueEnrolled'
  BY <1>29 DEF Unregister, Return, Move
<1>30. ASSUME NEW i \in Issue, NEW n \in Ordinal, Write(i, n) PROVE QueueEnrolled'
  BY <1>30 DEF Write, Return, Move
<1>31. ASSUME NEW i \in Issue, NEW n \in Ordinal, WriteFails(i, n) PROVE QueueEnrolled'
  BY <1>31 DEF WriteFails, Return, Move
<1>32. ASSUME NEW i \in Issue, NEW n \in Ordinal, Backstop(i, n) PROVE QueueEnrolled'
  BY <1>32 DEF Backstop, Move
<1>33. ASSUME NEW i \in Issue, NEW n \in Ordinal, BackstopFails(i, n) PROVE QueueEnrolled'
  BY <1>33 DEF BackstopFails, Move
<1>34. ASSUME NEW i \in Issue, NEW n \in Ordinal, ApiStop(i, n) PROVE QueueEnrolled'
  BY <1>34 DEF ApiStop
<1> QED
  BY <1>1, <1>2, <1>3, <1>4, <1>5, <1>6, <1>7, <1>8, <1>9, <1>10, <1>11, <1>35, <1>36, <1>12, <1>13, <1>14, <1>15, <1>16, <1>17,
     <1>18, <1>19, <1>20, <1>21, <1>22, <1>23, <1>24, <1>25, <1>26, <1>27, <1>28, <1>29, <1>30, <1>31, <1>32, <1>33, <1>34
  DEF ResNext, ProcessNext, SweepNext, AttemptNext

\* Runners, lost attempts and the boot scan's list are about opened attempts.
LEMMA KnownStep == ASSUME CaseInv, ResTypeOK, Answered, Known, ResNext PROVE Known'
<1> USE DEF ResTypeOK, Known, daemonVars, sweepVars, runnerVars, CaseInv, TypeOK
<1>1. CASE Boot
  BY <1>1, NoEffect DEF Boot
<1>2. CASE RecoveryList
  BY <1>2, NoEffect DEF RecoveryList, OpenAttempts, Attempt, AttemptingMatchesOpen, OpenOrdinals, Shape
<1>3. CASE RecoveryDone
  BY <1>3, NoEffect DEF RecoveryDone
<1>4. CASE Shutdown
  BY <1>4, NoEffect DEF Shutdown
<1>5. CASE Exit
  BY <1>5, NoEffect DEF Exit, Die, Fill
<1>6. CASE Crash
  BY <1>6, NoEffect DEF Crash, Die, Fill
<1>7. CASE StartSweep
  BY <1>7, NoEffect DEF StartSweep
<1>8. CASE TranslateDone
  BY <1>8, NoEffect DEF TranslateDone, InStep
<1>9. CASE CancelClosed
  BY <1>9, NoEffect DEF CancelClosed, InStep
<1>10. CASE ListQueue
  BY <1>10, NoEffect DEF ListQueue, InStep
<1>11. CASE SweepDone
  BY <1>11, NoEffect DEF SweepDone, InStep
<1>35. CASE ListFails
  BY <1>35, NoEffect DEF ListFails, InStep
<1>36. CASE SweepHangs
  BY <1>36, NoEffect DEF SweepHangs
<1>12. ASSUME NEW i \in Issue, TranslateOpened(i) PROVE Known'
  BY <1>12, OtherEffect DEF TranslateOpened, InStep
<1>13. ASSUME NEW i \in Issue, TranslateLabeled(i) PROVE Known'
  BY <1>13, OtherEffect DEF TranslateLabeled, InStep
<1>14. ASSUME NEW i \in Issue, TranslateClosed(i) PROVE Known'
  BY <1>14, OtherEffect DEF TranslateClosed, InStep
<1>15. ASSUME NEW i \in Issue, TranslateEnrollment(i) PROVE Known'
  BY <1>15, NoEffect DEF TranslateEnrollment, InStep
<1>16. ASSUME NEW i \in Issue, NEW size \in {"small", "large"}, Triage(i, size) PROVE Known'
  BY <1>16, OtherEffect DEF Triage, InStep
<1>17. ASSUME NEW i \in Issue, Start(i) PROVE Known'
  <2>1. \A j \in Issue : attempts'[j] \in Nat /\ attempts[j] <= attempts'[j]
    BY <1>17, StartEffect DEF Start, Ordinal
  <2>2. attempts[i] + 1 \in Ordinal /\ attempts'[i] = attempts[i] + 1
    BY <1>17, StartEffect DEF Start
  <2>3. /\ UNCHANGED <<lost, recovery>>
        /\ \A j \in Issue, m \in Ordinal :
              runner'[j][m] # "idle" => runner[j][m] # "idle" \/ <<j, m>> = <<i, attempts[i] + 1>>
    BY <1>17, <2>2 DEF Start
  <2> QED
    BY <2>1, <2>2, <2>3 DEF Ordinal
<1>18. ASSUME NEW i \in Issue, StartUnacknowledged(i) PROVE Known'
  <2>0. StartAttempt(i)
    BY <1>18 DEF StartUnacknowledged
  <2>1. \A j \in Issue : attempts'[j] \in Nat /\ attempts[j] <= attempts'[j]
    <3>1. attempts' = [attempts EXCEPT ![i] = attempts[i] + 1]
      BY <2>0, StartEffect
    <3> QED
      BY <3>1, CaseAssumption
  <2>2. attempts[i] + 1 \in Ordinal /\ attempts'[i] = attempts[i] + 1
    BY <1>18, StartEffect DEF StartUnacknowledged
  <2>3. UNCHANGED <<runner, recovery>> /\ lost' = lost \cup {<<i, attempts[i] + 1>>}
    BY <1>18 DEF StartUnacknowledged, runnerVars
  <2> QED
    BY <2>1, <2>2, <2>3 DEF Ordinal
<1>19. ASSUME NEW i \in Issue, Skip(i) PROVE Known'
  BY <1>19, NoEffect DEF Skip, Visit, InStep
<1>20. ASSUME NEW i \in Issue, ApiRunCreate(i) PROVE Known'
  BY <1>20, OtherEffect DEF ApiRunCreate
<1>21. ASSUME NEW i \in Issue, ApiRun(i) PROVE Known'
  BY <1>21, OtherEffect DEF ApiRun
<1>22. ASSUME NEW i \in Issue, NEW n \in Ordinal, RecoverOne(i, n) PROVE Known'
  BY <1>22, EndingEffect DEF RecoverOne
<1>23. ASSUME NEW i \in Issue, NEW n \in Ordinal, RecoverOneFails(i, n) PROVE Known'
  BY <1>23, NoEffect DEF RecoverOneFails
<1>24. ASSUME NEW i \in Issue, NEW n \in Ordinal, Register(i, n) PROVE Known'
  BY <1>24, NoEffect DEF Register, Move
<1>25. ASSUME NEW i \in Issue, NEW n \in Ordinal, Load(i, n) PROVE Known'
  BY <1>25, NoEffect DEF Load, Move
<1>26. ASSUME NEW i \in Issue, NEW n \in Ordinal, Bail(i, n) PROVE Known'
  BY <1>26, NoEffect DEF Bail, Return, Move
<1>27. ASSUME NEW i \in Issue, NEW n \in Ordinal, RunBegan(i, n) PROVE Known'
  BY <1>27, OtherEffect DEF RunBegan
<1>28. ASSUME NEW i \in Issue, NEW n \in Ordinal,
            NEW o \in Outcome \cup {"none"}, Decide(i, n, o)
      PROVE Known'
  BY <1>28, NoEffect DEF Decide, Move
<1>29. ASSUME NEW i \in Issue, NEW n \in Ordinal, Unregister(i, n) PROVE Known'
  <2>1. attempts' = attempts /\ UNCHANGED <<lost, recovery>>
    BY <1>29, NoEffect DEF Unregister
  <2>2. \A j \in Issue, m \in Ordinal : runner'[j][m] # "idle" => runner[j][m] # "idle"
    <3>1. CASE Return(i, n, {"teardown"})
      BY <3>1 DEF Return, Move
    <3>2. CASE Move(i, n, {"teardown"}, "writing")
      BY <3>2 DEF Move
    <3> QED
      BY <1>29, <3>1, <3>2 DEF Unregister
  <2> QED
    BY <2>1, <2>2
<1>30. ASSUME NEW i \in Issue, NEW n \in Ordinal, Write(i, n) PROVE Known'
  BY <1>30, EndingEffect DEF Write, Return, Move
<1>31. ASSUME NEW i \in Issue, NEW n \in Ordinal, WriteFails(i, n) PROVE Known'
  BY <1>31, NoEffect DEF WriteFails, Return, Move
<1>32. ASSUME NEW i \in Issue, NEW n \in Ordinal, Backstop(i, n) PROVE Known'
  BY <1>32, EndingEffect DEF Backstop, Move
<1>33. ASSUME NEW i \in Issue, NEW n \in Ordinal, BackstopFails(i, n) PROVE Known'
  BY <1>33, NoEffect DEF BackstopFails, Move
<1>34. ASSUME NEW i \in Issue, NEW n \in Ordinal, ApiStop(i, n) PROVE Known'
  BY <1>34, NoEffect DEF ApiStop
<1> QED
  BY <1>1, <1>2, <1>3, <1>4, <1>5, <1>6, <1>7, <1>8, <1>9, <1>10, <1>11, <1>35, <1>36, <1>12, <1>13, <1>14, <1>15, <1>16, <1>17,
     <1>18, <1>19, <1>20, <1>21, <1>22, <1>23, <1>24, <1>25, <1>26, <1>27, <1>28, <1>29, <1>30, <1>31, <1>32, <1>33, <1>34
  DEF ResNext, ProcessNext, SweepNext, AttemptNext

\* The slots are never overdrawn: a start takes a slot that was free when the sweep
\* counted, and since then attempts have only ended or been lost.
LEMMA CountedStep == ASSUME CaseInv, ResTypeOK, Answered, Counted, ResNext PROVE Counted'
<1> USE DEF daemonVars, sweepVars, runnerVars
<1>1. CASE Boot
  BY <1>1, NoEffect, CountedQuiet DEF Boot
<1>2. CASE RecoveryList
  BY <1>2, NoEffect, CountedQuiet DEF RecoveryList
<1>3. CASE RecoveryDone
  BY <1>3, NoEffect, CountedQuiet DEF RecoveryDone
<1>4. CASE Shutdown
  BY <1>4, NoEffect, CountedQuiet DEF Shutdown
<1>5. CASE Exit
  BY <1>5, NoEffect, CountedQuiet DEF Exit, Die
<1>6. CASE Crash
  BY <1>6, NoEffect, CountedQuiet DEF Crash, Die
<1>7. CASE StartSweep
  BY <1>7, NoEffect, CountedQuiet DEF StartSweep
<1>8. CASE TranslateDone
  BY <1>8, NoEffect, CountedQuiet DEF TranslateDone, InStep
<1>9. CASE CancelClosed
  BY <1>9, NoEffect, CountedQuiet DEF CancelClosed, InStep
<1>10. CASE ListQueue
  <2>1. OpenAttempts' \ lost' = OpenAttempts \ lost
    BY <1>10, NoEffect DEF ListQueue
  <2>2. /\ IsFiniteSet(OpenAttempts) /\ IsFiniteSet(OpenAttempts \ lost)
        /\ Cardinality(OpenAttempts \ lost) <= Cardinality(OpenAttempts)
    BY AttemptsFinite, FS_Subset DEF OpenAttempts
  <2>3. Cardinality(OpenAttempts) \in Nat /\ Cardinality(OpenAttempts \ lost) \in Nat
    BY <2>2, FS_CardinalityType
  <2>4. step' = "schedule" => slots' = Concurrency - Cardinality(OpenAttempts)
    BY <1>10 DEF ListQueue, FreeSlots
  <2> QED
    BY <2>1, <2>2, <2>3, <2>4, ResolutionAssumption DEF Counted
<1>11. CASE SweepDone
  BY <1>11, NoEffect, CountedQuiet DEF SweepDone, InStep
<1>35. CASE ListFails
  BY <1>35, NoEffect, CountedQuiet DEF ListFails, InStep
<1>36. CASE SweepHangs
  BY <1>36, NoEffect, CountedQuiet DEF SweepHangs
<1>12. ASSUME NEW i \in Issue, TranslateOpened(i) PROVE Counted'
  BY <1>12, OtherEffect, CountedQuiet DEF TranslateOpened, InStep
<1>13. ASSUME NEW i \in Issue, TranslateLabeled(i) PROVE Counted'
  BY <1>13, OtherEffect, CountedQuiet DEF TranslateLabeled, InStep
<1>14. ASSUME NEW i \in Issue, TranslateClosed(i) PROVE Counted'
  BY <1>14, OtherEffect, CountedQuiet DEF TranslateClosed, InStep
<1>15. ASSUME NEW i \in Issue, TranslateEnrollment(i) PROVE Counted'
  BY <1>15, NoEffect, CountedQuiet DEF TranslateEnrollment, InStep
<1>16. ASSUME NEW i \in Issue, NEW size \in {"small", "large"}, Triage(i, size) PROVE Counted'
  BY <1>16, OtherEffect, CountedQuiet DEF Triage, InStep
<1>17. ASSUME NEW i \in Issue, Start(i) PROVE Counted'
  <2> DEFINE new == <<i, attempts[i] + 1>>
             free == OpenAttempts \ lost
  <2>1. /\ OpenAttempts' \ lost' \subseteq free \cup {new}
        /\ step = "schedule" /\ step' = "schedule" /\ slots > 0 /\ slots' = slots - 1
    BY <1>17, StartEffect DEF Start, Visit, InStep
  <2>2. IsFiniteSet(free)
    BY AttemptsFinite, FS_Subset DEF OpenAttempts
  <2>3. /\ IsFiniteSet(free \cup {new})
        /\ Cardinality(free \cup {new}) <= Cardinality(free) + 1
    <3> HIDE DEF new, free
    <3>1. /\ IsFiniteSet(free \cup {new})
          /\ \/ Cardinality(free \cup {new}) = Cardinality(free)
             \/ Cardinality(free \cup {new}) = Cardinality(free) + 1
      BY <2>2, FS_AddElement, Zenon
    <3> QED
      BY <2>2, <3>1, FS_CardinalityType
  <2>4. /\ IsFiniteSet(OpenAttempts' \ lost')
        /\ Cardinality(OpenAttempts' \ lost') <= Cardinality(free \cup {new})
    BY <2>1, <2>3, FS_Subset
  <2>5. /\ Cardinality(free) \in Nat
        /\ Cardinality(free \cup {new}) \in Nat
        /\ Cardinality(OpenAttempts' \ lost') \in Nat
        /\ slots \in Int /\ Concurrency \in Nat
    BY <2>2, <2>3, <2>4, FS_CardinalityType, ResolutionAssumption DEF ResTypeOK
  <2>6. Cardinality(free) + slots <= Concurrency
    BY <2>1 DEF Counted
  <2> QED
    BY <2>1, <2>3, <2>4, <2>5, <2>6 DEF Counted
<1>18. ASSUME NEW i \in Issue, StartUnacknowledged(i) PROVE Counted'
  BY <1>18, StartEffect, CountedQuiet DEF StartUnacknowledged, Visit, InStep
<1>19. ASSUME NEW i \in Issue, Skip(i) PROVE Counted'
  BY <1>19, NoEffect, CountedQuiet DEF Skip, Visit, InStep
<1>20. ASSUME NEW i \in Issue, ApiRunCreate(i) PROVE Counted'
  BY <1>20, OtherEffect, CountedQuiet DEF ApiRunCreate
<1>21. ASSUME NEW i \in Issue, ApiRun(i) PROVE Counted'
  BY <1>21, OtherEffect, CountedQuiet DEF ApiRun
<1>22. ASSUME NEW i \in Issue, NEW n \in Ordinal, RecoverOne(i, n) PROVE Counted'
  BY <1>22, EndingEffect, CountedQuiet DEF RecoverOne
<1>23. ASSUME NEW i \in Issue, NEW n \in Ordinal, RecoverOneFails(i, n) PROVE Counted'
  BY <1>23, NoEffect, CountedQuiet DEF RecoverOneFails
<1>24. ASSUME NEW i \in Issue, NEW n \in Ordinal, Register(i, n) PROVE Counted'
  BY <1>24, NoEffect, CountedQuiet DEF Register, Move
<1>25. ASSUME NEW i \in Issue, NEW n \in Ordinal, Load(i, n) PROVE Counted'
  BY <1>25, NoEffect, CountedQuiet DEF Load, Move
<1>26. ASSUME NEW i \in Issue, NEW n \in Ordinal, Bail(i, n) PROVE Counted'
  BY <1>26, NoEffect, CountedQuiet DEF Bail, Return, Move
<1>27. ASSUME NEW i \in Issue, NEW n \in Ordinal, RunBegan(i, n) PROVE Counted'
  BY <1>27, OtherEffect, CountedQuiet DEF RunBegan
<1>28. ASSUME NEW i \in Issue, NEW n \in Ordinal,
            NEW o \in Outcome \cup {"none"}, Decide(i, n, o)
      PROVE Counted'
  BY <1>28, NoEffect, CountedQuiet DEF Decide, Move
<1>29. ASSUME NEW i \in Issue, NEW n \in Ordinal, Unregister(i, n) PROVE Counted'
  BY <1>29, NoEffect, CountedQuiet DEF Unregister, Return, Move
<1>30. ASSUME NEW i \in Issue, NEW n \in Ordinal, Write(i, n) PROVE Counted'
  BY <1>30, EndingEffect, CountedQuiet DEF Write, Return, Move
<1>31. ASSUME NEW i \in Issue, NEW n \in Ordinal, WriteFails(i, n) PROVE Counted'
  BY <1>31, NoEffect, CountedQuiet DEF WriteFails, Return, Move
<1>32. ASSUME NEW i \in Issue, NEW n \in Ordinal, Backstop(i, n) PROVE Counted'
  BY <1>32, EndingEffect, CountedQuiet DEF Backstop, Move
<1>33. ASSUME NEW i \in Issue, NEW n \in Ordinal, BackstopFails(i, n) PROVE Counted'
  BY <1>33, NoEffect, CountedQuiet DEF BackstopFails, Move
<1>34. ASSUME NEW i \in Issue, NEW n \in Ordinal, ApiStop(i, n) PROVE Counted'
  BY <1>34, NoEffect, CountedQuiet DEF ApiStop
<1> QED
  BY <1>1, <1>2, <1>3, <1>4, <1>5, <1>6, <1>7, <1>8, <1>9, <1>10, <1>11, <1>35, <1>36, <1>12, <1>13, <1>14, <1>15, <1>16, <1>17,
     <1>18, <1>19, <1>20, <1>21, <1>22, <1>23, <1>24, <1>25, <1>26, <1>27, <1>28, <1>29, <1>30, <1>31, <1>32, <1>33, <1>34
  DEF ResNext, ProcessNext, SweepNext, AttemptNext

\* An attempt that stays open keeps its goroutine or its place on the boot scan's list.
LEMMA AttendedStep == ASSUME CaseInv, ResTypeOK, Answered, Attended, ResNext PROVE Attended'
<1> USE DEF Attended, ResTypeOK, Live, Serving, daemonVars, sweepVars, runnerVars, OpenAttempts, Attempt
<1>1. CASE Boot
  BY <1>1, NoEffect DEF Boot
<1>2. CASE RecoveryList
  BY <1>2, NoEffect DEF RecoveryList
<1>3. CASE RecoveryDone
  BY <1>3, NoEffect DEF RecoveryDone
<1>4. CASE Shutdown
  BY <1>4, NoEffect DEF Shutdown
<1>5. CASE Exit
  BY <1>5, NoEffect DEF Exit, Die
<1>6. CASE Crash
  BY <1>6, NoEffect DEF Crash, Die
<1>7. CASE StartSweep
  BY <1>7, NoEffect DEF StartSweep
<1>8. CASE TranslateDone
  BY <1>8, NoEffect DEF TranslateDone, InStep
<1>9. CASE CancelClosed
  BY <1>9, NoEffect DEF CancelClosed, InStep
<1>10. CASE ListQueue
  BY <1>10, NoEffect DEF ListQueue, InStep
<1>11. CASE SweepDone
  BY <1>11, NoEffect DEF SweepDone, InStep
<1>35. CASE ListFails
  BY <1>35, NoEffect DEF ListFails, InStep
<1>36. CASE SweepHangs
  BY <1>36, NoEffect DEF SweepHangs
<1>12. ASSUME NEW i \in Issue, TranslateOpened(i) PROVE Attended'
  BY <1>12, OtherEffect DEF TranslateOpened, InStep
<1>13. ASSUME NEW i \in Issue, TranslateLabeled(i) PROVE Attended'
  BY <1>13, OtherEffect DEF TranslateLabeled, InStep
<1>14. ASSUME NEW i \in Issue, TranslateClosed(i) PROVE Attended'
  BY <1>14, OtherEffect DEF TranslateClosed, InStep
<1>15. ASSUME NEW i \in Issue, TranslateEnrollment(i) PROVE Attended'
  BY <1>15, NoEffect DEF TranslateEnrollment, InStep
<1>16. ASSUME NEW i \in Issue, NEW size \in {"small", "large"}, Triage(i, size) PROVE Attended'
  BY <1>16, OtherEffect DEF Triage, InStep
<1>17. ASSUME NEW i \in Issue, Start(i) PROVE Attended'
  <2>1. /\ attempts[i] + 1 \in Ordinal
        /\ \A j \in Issue, m \in Ordinal : IsOpen(j, m)' <=> IsOpen(j, m) \/ <<j, m>> = <<i, attempts[i] + 1>>
    BY <1>17, StartEffect DEF Start
  <2>2. \A j \in Issue, m \in Ordinal :
           runner'[j][m] = IF <<j, m>> = <<i, attempts[i] + 1>> THEN "spawned" ELSE runner[j][m]
    BY <1>17, <2>1 DEF Start
  <2>3. UNCHANGED <<daemon, recovery, lost>>
    BY <1>17 DEF Start
  <2>4. \A a \in Attempt : IsOpen(a[1], a[2])' => IsOpen(a[1], a[2]) \/ runner'[a[1]][a[2]] = "spawned"
    BY <2>1, <2>2
  <2>5. \A a \in Attempt : runner[a[1]][a[2]] # "idle" => runner'[a[1]][a[2]] # "idle"
    BY <2>2
  <2> QED
    BY <2>3, <2>4, <2>5
<1>18. ASSUME NEW i \in Issue, StartUnacknowledged(i) PROVE Attended'
  BY <1>18, StartEffect DEF StartUnacknowledged, Visit, InStep
<1>19. ASSUME NEW i \in Issue, Skip(i) PROVE Attended'
  BY <1>19, NoEffect DEF Skip, Visit, InStep
<1>20. ASSUME NEW i \in Issue, ApiRunCreate(i) PROVE Attended'
  BY <1>20, OtherEffect DEF ApiRunCreate
<1>21. ASSUME NEW i \in Issue, ApiRun(i) PROVE Attended'
  BY <1>21, OtherEffect DEF ApiRun
<1>22. ASSUME NEW i \in Issue, NEW n \in Ordinal, RecoverOne(i, n) PROVE Attended'
  <2>1. \A a \in Attempt : IsOpen(a[1], a[2])' => IsOpen(a[1], a[2]) /\ a # <<i, n>>
    <3>1. CASE RecordOutcome(i, n, RecoveryOutcome(i))
      BY <3>1, OutcomeEffect DEF RecoveryOutcome, Outcome
    <3>2. CASE ~IsTarget(i, n) /\ UNCHANGED caseVars
      BY <3>2, OpenIsTarget, NoEffect
    <3> QED
      BY <1>22, <3>1, <3>2 DEF RecoverOne
  <2> QED
    BY <1>22, <2>1 DEF RecoverOne
<1>23. ASSUME NEW i \in Issue, NEW n \in Ordinal, RecoverOneFails(i, n) PROVE Attended'
  BY <1>23, NoEffect DEF RecoverOneFails
<1>24. ASSUME NEW i \in Issue, NEW n \in Ordinal, Register(i, n) PROVE Attended'
  BY <1>24, NoEffect DEF Register, Move
<1>25. ASSUME NEW i \in Issue, NEW n \in Ordinal, Load(i, n) PROVE Attended'
  BY <1>25, NoEffect DEF Load, Move
<1>26. ASSUME NEW i \in Issue, NEW n \in Ordinal, Bail(i, n) PROVE Attended'
  BY <1>26, NoEffect DEF Bail, Return, Move
<1>27. ASSUME NEW i \in Issue, NEW n \in Ordinal, RunBegan(i, n) PROVE Attended'
  BY <1>27, OtherEffect DEF RunBegan
<1>28. ASSUME NEW i \in Issue, NEW n \in Ordinal,
            NEW o \in Outcome \cup {"none"}, Decide(i, n, o)
      PROVE Attended'
  BY <1>28, NoEffect DEF Decide, Move
<1>29. ASSUME NEW i \in Issue, NEW n \in Ordinal, Unregister(i, n) PROVE Attended'
  <2>1. \A j \in Issue, m \in Ordinal : runner[j][m] # "idle" => runner'[j][m] # "idle"
    <3>1. CASE Return(i, n, {"teardown"})
      BY <3>1 DEF Return, Move
    <3>2. CASE Move(i, n, {"teardown"}, "writing")
      BY <3>2 DEF Move
    <3> QED
      BY <1>29, <3>1, <3>2 DEF Unregister
  <2> QED
    BY <1>29, <2>1, NoEffect DEF Unregister
<1>30. ASSUME NEW i \in Issue, NEW n \in Ordinal, Write(i, n) PROVE Attended'
  <2>1. \A j \in Issue, m \in Ordinal : runner[j][m] # "idle" => runner'[j][m] # "idle"
    BY <1>30 DEF Write, Return, Move
  <2>2. \A j \in Issue, m \in Ordinal : IsOpen(j, m)' => IsOpen(j, m)
    BY <1>30, EndingEffect
  <2> QED
    BY <1>30, <2>1, <2>2 DEF Write
<1>31. ASSUME NEW i \in Issue, NEW n \in Ordinal, WriteFails(i, n) PROVE Attended'
  BY <1>31, NoEffect DEF WriteFails, Return, Move
<1>32. ASSUME NEW i \in Issue, NEW n \in Ordinal, Backstop(i, n) PROVE Attended'
  <2>1. daemon \in {"recovering", "up"} =>
           \A a \in Attempt : IsOpen(a[1], a[2])' => IsOpen(a[1], a[2]) /\ a # <<i, n>>
    <3>1. CASE RecordOutcome(i, n, "failed")
      BY <3>1, OutcomeEffect DEF Outcome
    <3>2. CASE ~IsTarget(i, n) /\ UNCHANGED caseVars
      BY <3>2, OpenIsTarget, NoEffect
    <3> QED
      BY <1>32, <3>1, <3>2 DEF Backstop
  <2>2. \A a \in Attempt : a # <<i, n>> => runner'[a[1]][a[2]] = runner[a[1]][a[2]]
    BY <1>32 DEF Backstop, Move
  <2> QED
    BY <1>32, <2>1, <2>2 DEF Backstop
<1>33. ASSUME NEW i \in Issue, NEW n \in Ordinal, BackstopFails(i, n) PROVE Attended'
  BY <1>33, NoEffect DEF BackstopFails, Move
<1>34. ASSUME NEW i \in Issue, NEW n \in Ordinal, ApiStop(i, n) PROVE Attended'
  BY <1>34, NoEffect DEF ApiStop
<1> QED
  BY <1>1, <1>2, <1>3, <1>4, <1>5, <1>6, <1>7, <1>8, <1>9, <1>10, <1>11, <1>35, <1>36, <1>12, <1>13, <1>14, <1>15, <1>16, <1>17,
     <1>18, <1>19, <1>20, <1>21, <1>22, <1>23, <1>24, <1>25, <1>26, <1>27, <1>28, <1>29, <1>30, <1>31, <1>32, <1>33, <1>34
  DEF ResNext, ProcessNext, SweepNext, AttemptNext

\* Before recovery is done only a run request could start a sweep.
LEMMA QuiescentStep == ASSUME ~EarlyRun, ResTypeOK, Quiescent, ResNext PROVE Quiescent'
<1> USE DEF Quiescent, ResTypeOK, Live, Serving, Executing, Registered, daemonVars, sweepVars, runnerVars
<1>1. CASE Boot
  BY <1>1 DEF Boot
<1>2. CASE RecoveryList
  BY <1>2 DEF RecoveryList
<1>3. CASE RecoveryDone
  BY <1>3 DEF RecoveryDone
<1>4. CASE Shutdown
  BY <1>4 DEF Shutdown
<1>5. CASE Exit
  BY <1>5 DEF Exit, Die, Fill
<1>6. CASE Crash
  BY <1>6 DEF Crash, Die, Fill
<1>7. CASE StartSweep
  BY <1>7 DEF StartSweep
<1>8. CASE TranslateDone
  BY <1>8 DEF TranslateDone, InStep
<1>9. CASE CancelClosed
  BY <1>9 DEF CancelClosed, InStep
<1>10. CASE ListQueue
  BY <1>10 DEF ListQueue, InStep
<1>11. CASE SweepDone
  BY <1>11 DEF SweepDone, InStep
<1>35. CASE ListFails
  BY <1>35 DEF ListFails, InStep
<1>36. CASE SweepHangs
  BY <1>36 DEF SweepHangs
<1>12. ASSUME NEW i \in Issue, TranslateOpened(i) PROVE Quiescent'
  BY <1>12 DEF TranslateOpened, InStep
<1>13. ASSUME NEW i \in Issue, TranslateLabeled(i) PROVE Quiescent'
  BY <1>13 DEF TranslateLabeled, InStep
<1>14. ASSUME NEW i \in Issue, TranslateClosed(i) PROVE Quiescent'
  BY <1>14 DEF TranslateClosed, InStep
<1>15. ASSUME NEW i \in Issue, TranslateEnrollment(i) PROVE Quiescent'
  BY <1>15 DEF TranslateEnrollment, InStep
<1>16. ASSUME NEW i \in Issue, NEW size \in {"small", "large"}, Triage(i, size) PROVE Quiescent'
  BY <1>16 DEF Triage, InStep
<1>17. ASSUME NEW i \in Issue, Start(i) PROVE Quiescent'
  BY <1>17 DEF Start, Visit, InStep
<1>18. ASSUME NEW i \in Issue, StartUnacknowledged(i) PROVE Quiescent'
  BY <1>18 DEF StartUnacknowledged, Visit, InStep
<1>19. ASSUME NEW i \in Issue, Skip(i) PROVE Quiescent'
  BY <1>19 DEF Skip, Visit, InStep
<1>20. ASSUME NEW i \in Issue, ApiRunCreate(i) PROVE Quiescent'
  BY <1>20 DEF ApiRunCreate, ApiOpen
<1>21. ASSUME NEW i \in Issue, ApiRun(i) PROVE Quiescent'
  BY <1>21 DEF ApiRun, ApiOpen
<1>22. ASSUME NEW i \in Issue, NEW n \in Ordinal, RecoverOne(i, n) PROVE Quiescent'
  BY <1>22 DEF RecoverOne
<1>23. ASSUME NEW i \in Issue, NEW n \in Ordinal, RecoverOneFails(i, n) PROVE Quiescent'
  BY <1>23 DEF RecoverOneFails
<1>24. ASSUME NEW i \in Issue, NEW n \in Ordinal, Register(i, n) PROVE Quiescent'
  BY <1>24 DEF Register, Move
<1>25. ASSUME NEW i \in Issue, NEW n \in Ordinal, Load(i, n) PROVE Quiescent'
  BY <1>25 DEF Load, Move
<1>26. ASSUME NEW i \in Issue, NEW n \in Ordinal, Bail(i, n) PROVE Quiescent'
  BY <1>26 DEF Bail, Return, Move
<1>27. ASSUME NEW i \in Issue, NEW n \in Ordinal, RunBegan(i, n) PROVE Quiescent'
  BY <1>27 DEF RunBegan
<1>28. ASSUME NEW i \in Issue, NEW n \in Ordinal,
            NEW o \in Outcome \cup {"none"}, Decide(i, n, o)
      PROVE Quiescent'
  BY <1>28 DEF Decide, Move
<1>29. ASSUME NEW i \in Issue, NEW n \in Ordinal, Unregister(i, n) PROVE Quiescent'
  <2>1. CASE Return(i, n, {"teardown"})
    BY <1>29, <2>1 DEF Unregister, Return, Move
  <2>2. CASE Move(i, n, {"teardown"}, "writing") /\ UNCHANGED <<reason, answer>>
    BY <1>29, <2>2 DEF Unregister, Move
  <2> QED
    BY <1>29, <2>1, <2>2 DEF Unregister
<1>30. ASSUME NEW i \in Issue, NEW n \in Ordinal, Write(i, n) PROVE Quiescent'
  BY <1>30 DEF Write, Return, Move
<1>31. ASSUME NEW i \in Issue, NEW n \in Ordinal, WriteFails(i, n) PROVE Quiescent'
  BY <1>31 DEF WriteFails, Return, Move
<1>32. ASSUME NEW i \in Issue, NEW n \in Ordinal, Backstop(i, n) PROVE Quiescent'
  BY <1>32 DEF Backstop, Move
<1>33. ASSUME NEW i \in Issue, NEW n \in Ordinal, BackstopFails(i, n) PROVE Quiescent'
  BY <1>33 DEF BackstopFails, Move
<1>34. ASSUME NEW i \in Issue, NEW n \in Ordinal, ApiStop(i, n) PROVE Quiescent'
  BY <1>34 DEF ApiStop, ApiOpen
<1> QED
  BY <1>1, <1>2, <1>3, <1>4, <1>5, <1>6, <1>7, <1>8, <1>9, <1>10, <1>11, <1>35, <1>36, <1>12, <1>13, <1>14, <1>15, <1>16, <1>17,
     <1>18, <1>19, <1>20, <1>21, <1>22, <1>23, <1>24, <1>25, <1>26, <1>27, <1>28, <1>29, <1>30, <1>31, <1>32, <1>33, <1>34
  DEF ResNext, ProcessNext, SweepNext, AttemptNext

\* Without a run request during the boot nobody else ends a runner's attempt.
LEMMA OwnedStep == ASSUME CaseInv, ResTypeOK, Answered, Known, Quiescent, Owned, ResNext PROVE Owned'
<1> USE DEF Owned, Quiescent, ResTypeOK, Live, Serving, Executing, Registered, daemonVars, sweepVars, runnerVars
<1>1. CASE Boot
  BY <1>1, NoEffect DEF Boot
<1>2. CASE RecoveryList
  BY <1>2, NoEffect DEF RecoveryList
<1>3. CASE RecoveryDone
  BY <1>3, NoEffect DEF RecoveryDone
<1>4. CASE Shutdown
  BY <1>4, NoEffect DEF Shutdown
<1>5. CASE Exit
  BY <1>5 DEF Exit, Die, Fill
<1>6. CASE Crash
  BY <1>6 DEF Crash, Die, Fill
<1>7. CASE StartSweep
  BY <1>7, NoEffect DEF StartSweep
<1>8. CASE TranslateDone
  BY <1>8, NoEffect DEF TranslateDone, InStep
<1>9. CASE CancelClosed
  BY <1>9, NoEffect DEF CancelClosed, InStep
<1>10. CASE ListQueue
  BY <1>10, NoEffect DEF ListQueue, InStep
<1>11. CASE SweepDone
  BY <1>11, NoEffect DEF SweepDone, InStep
<1>35. CASE ListFails
  BY <1>35, NoEffect DEF ListFails, InStep
<1>36. CASE SweepHangs
  BY <1>36, NoEffect DEF SweepHangs
<1>12. ASSUME NEW i \in Issue, TranslateOpened(i) PROVE Owned'
  BY <1>12, OtherEffect DEF TranslateOpened, InStep
<1>13. ASSUME NEW i \in Issue, TranslateLabeled(i) PROVE Owned'
  BY <1>13, OtherEffect DEF TranslateLabeled, InStep
<1>14. ASSUME NEW i \in Issue, TranslateClosed(i) PROVE Owned'
  BY <1>14, OtherEffect DEF TranslateClosed, InStep
<1>15. ASSUME NEW i \in Issue, TranslateEnrollment(i) PROVE Owned'
  BY <1>15, NoEffect DEF TranslateEnrollment, InStep
<1>16. ASSUME NEW i \in Issue, NEW size \in {"small", "large"}, Triage(i, size) PROVE Owned'
  BY <1>16, OtherEffect DEF Triage, InStep
<1>17. ASSUME NEW i \in Issue, Start(i) PROVE Owned'
  <2>1. /\ attempts[i] + 1 \in Ordinal
        /\ \A j \in Issue, m \in Ordinal : IsOpen(j, m)' <=> IsOpen(j, m) \/ <<j, m>> = <<i, attempts[i] + 1>>
    BY <1>17, StartEffect DEF Start
  <2>2. \A j \in Issue, m \in Ordinal :
           runner'[j][m] = IF <<j, m>> = <<i, attempts[i] + 1>> THEN "spawned" ELSE runner[j][m]
    BY <1>17, <2>1 DEF Start
  <2>3. <<i, attempts[i] + 1>> \notin lost
    BY <2>1, CaseAssumption DEF Known, CaseInv, TypeOK, Ordinal
  <2>4. \A j \in Issue, m \in Ordinal :
           runner'[j][m] \in Executing \cup {"writing"} =>
              runner[j][m] \in Executing \cup {"writing"} \/ <<j, m>> = <<i, attempts[i] + 1>>
    BY <2>2
  <2>5. \A j \in Issue, m \in Ordinal :
           runner'[j][m] # "idle" => runner[j][m] # "idle" \/ <<j, m>> = <<i, attempts[i] + 1>>
    BY <2>2
  <2>6. UNCHANGED lost
    BY <1>17 DEF Start
  <2> QED
    BY <2>1, <2>3, <2>4, <2>5, <2>6
<1>18. ASSUME NEW i \in Issue, StartUnacknowledged(i) PROVE Owned'
  <2>1. /\ attempts[i] + 1 \in Ordinal
        /\ \A j \in Issue, m \in Ordinal : IsOpen(j, m) => IsOpen(j, m)'
    BY <1>18, StartEffect DEF StartUnacknowledged
  <2>2. runner[i][attempts[i] + 1] = "idle"
    <3>1. ~(attempts[i] + 1 <= attempts[i])
      BY CaseAssumption DEF CaseInv, TypeOK
    <3> QED
      BY <2>1, <3>1 DEF Known
  <2>3. UNCHANGED runner /\ lost' = lost \cup {<<i, attempts[i] + 1>>}
    BY <1>18 DEF StartUnacknowledged, runnerVars
  <2> QED
    BY <2>1, <2>2, <2>3
<1>19. ASSUME NEW i \in Issue, Skip(i) PROVE Owned'
  BY <1>19, NoEffect DEF Skip, Visit, InStep
<1>20. ASSUME NEW i \in Issue, ApiRunCreate(i) PROVE Owned'
  BY <1>20, OtherEffect DEF ApiRunCreate
<1>21. ASSUME NEW i \in Issue, ApiRun(i) PROVE Owned'
  BY <1>21, OtherEffect DEF ApiRun
<1>22. ASSUME NEW i \in Issue, NEW n \in Ordinal, RecoverOne(i, n) PROVE Owned'
  BY <1>22, EndingEffect DEF RecoverOne
<1>23. ASSUME NEW i \in Issue, NEW n \in Ordinal, RecoverOneFails(i, n) PROVE Owned'
  BY <1>23, NoEffect DEF RecoverOneFails
<1>24. ASSUME NEW i \in Issue, NEW n \in Ordinal, Register(i, n) PROVE Owned'
  BY <1>24, NoEffect DEF Register, Move
<1>25. ASSUME NEW i \in Issue, NEW n \in Ordinal, Load(i, n) PROVE Owned'
  BY <1>25, NoEffect DEF Load, Move
<1>26. ASSUME NEW i \in Issue, NEW n \in Ordinal, Bail(i, n) PROVE Owned'
  BY <1>26, NoEffect DEF Bail, Return, Move
<1>27. ASSUME NEW i \in Issue, NEW n \in Ordinal, RunBegan(i, n) PROVE Owned'
  BY <1>27, OtherEffect DEF RunBegan
<1>28. ASSUME NEW i \in Issue, NEW n \in Ordinal,
            NEW o \in Outcome \cup {"none"}, Decide(i, n, o)
      PROVE Owned'
  BY <1>28, NoEffect DEF Decide, Move
<1>29. ASSUME NEW i \in Issue, NEW n \in Ordinal, Unregister(i, n) PROVE Owned'
  <2>1. CASE Return(i, n, {"teardown"})
    BY <1>29, <2>1, NoEffect DEF Unregister, Return, Move
  <2>2. CASE Move(i, n, {"teardown"}, "writing") /\ UNCHANGED <<reason, answer>>
    BY <1>29, <2>2, NoEffect DEF Unregister, Move
  <2> QED
    BY <1>29, <2>1, <2>2 DEF Unregister
<1>30. ASSUME NEW i \in Issue, NEW n \in Ordinal, Write(i, n) PROVE Owned'
  BY <1>30, EndingEffect DEF Write, Return, Move
<1>31. ASSUME NEW i \in Issue, NEW n \in Ordinal, WriteFails(i, n) PROVE Owned'
  BY <1>31, NoEffect DEF WriteFails, Return, Move
<1>32. ASSUME NEW i \in Issue, NEW n \in Ordinal, Backstop(i, n) PROVE Owned'
  BY <1>32, EndingEffect DEF Backstop, Move
<1>33. ASSUME NEW i \in Issue, NEW n \in Ordinal, BackstopFails(i, n) PROVE Owned'
  BY <1>33, NoEffect DEF BackstopFails, Move
<1>34. ASSUME NEW i \in Issue, NEW n \in Ordinal, ApiStop(i, n) PROVE Owned'
  BY <1>34, NoEffect DEF ApiStop
<1> HIDE DEF Owned, Quiescent, ResTypeOK
<1> QED
  BY <1>1, <1>2, <1>3, <1>4, <1>5, <1>6, <1>7, <1>8, <1>9, <1>10, <1>11, <1>35, <1>36, <1>12, <1>13, <1>14, <1>15, <1>16, <1>17,
     <1>18, <1>19, <1>20, <1>21, <1>22, <1>23, <1>24, <1>25, <1>26, <1>27, <1>28, <1>29, <1>30, <1>31, <1>32, <1>33, <1>34
  DEF ResNext, ProcessNext, SweepNext, AttemptNext

\* Only a Closed case makes a cancellation say so, and Closed is final.
LEMMA TruthfulStep == ASSUME CaseInv, ResTypeOK, Answered, Truthful, ResNext PROVE Truthful'
<1> USE DEF Truthful, ResTypeOK, CaseInv, TypeOK, daemonVars, sweepVars, runnerVars
<1>1. CASE Boot
  BY <1>1, NoEffect DEF Boot
<1>2. CASE RecoveryList
  BY <1>2, NoEffect DEF RecoveryList
<1>3. CASE RecoveryDone
  BY <1>3, NoEffect DEF RecoveryDone
<1>4. CASE Shutdown
  BY <1>4, NoEffect DEF Shutdown
<1>5. CASE Exit
  BY <1>5 DEF Exit, Die, Fill
<1>6. CASE Crash
  BY <1>6 DEF Crash, Die, Fill
<1>7. CASE StartSweep
  BY <1>7, NoEffect DEF StartSweep
<1>8. CASE TranslateDone
  BY <1>8, NoEffect DEF TranslateDone, InStep
<1>9. CASE CancelClosed
  BY <1>9, NoEffect DEF CancelClosed, InStep
<1>10. CASE ListQueue
  BY <1>10, NoEffect DEF ListQueue, InStep
<1>11. CASE SweepDone
  BY <1>11, NoEffect DEF SweepDone, InStep
<1>35. CASE ListFails
  BY <1>35, NoEffect DEF ListFails, InStep
<1>36. CASE SweepHangs
  BY <1>36, NoEffect DEF SweepHangs
<1>12. ASSUME NEW i \in Issue, TranslateOpened(i) PROVE Truthful'
  BY <1>12, OtherEffect DEF TranslateOpened, InStep
<1>13. ASSUME NEW i \in Issue, TranslateLabeled(i) PROVE Truthful'
  BY <1>13, OtherEffect DEF TranslateLabeled, InStep
<1>14. ASSUME NEW i \in Issue, TranslateClosed(i) PROVE Truthful'
  BY <1>14, OtherEffect DEF TranslateClosed, InStep
<1>15. ASSUME NEW i \in Issue, TranslateEnrollment(i) PROVE Truthful'
  BY <1>15, NoEffect DEF TranslateEnrollment, InStep
<1>16. ASSUME NEW i \in Issue, NEW size \in {"small", "large"}, Triage(i, size) PROVE Truthful'
  BY <1>16, OtherEffect DEF Triage, InStep
<1>17. ASSUME NEW i \in Issue, Start(i) PROVE Truthful'
  BY <1>17, StartEffect DEF Start, Visit, InStep
<1>18. ASSUME NEW i \in Issue, StartUnacknowledged(i) PROVE Truthful'
  BY <1>18, StartEffect DEF StartUnacknowledged, Visit, InStep
<1>19. ASSUME NEW i \in Issue, Skip(i) PROVE Truthful'
  BY <1>19, NoEffect DEF Skip, Visit, InStep
<1>20. ASSUME NEW i \in Issue, ApiRunCreate(i) PROVE Truthful'
  BY <1>20, OtherEffect DEF ApiRunCreate
<1>21. ASSUME NEW i \in Issue, ApiRun(i) PROVE Truthful'
  BY <1>21, OtherEffect DEF ApiRun
<1>22. ASSUME NEW i \in Issue, NEW n \in Ordinal, RecoverOne(i, n) PROVE Truthful'
  BY <1>22, EndingEffect DEF RecoverOne
<1>23. ASSUME NEW i \in Issue, NEW n \in Ordinal, RecoverOneFails(i, n) PROVE Truthful'
  BY <1>23, NoEffect DEF RecoverOneFails
<1>24. ASSUME NEW i \in Issue, NEW n \in Ordinal, Register(i, n) PROVE Truthful'
  BY <1>24, NoEffect DEF Register, Move
<1>25. ASSUME NEW i \in Issue, NEW n \in Ordinal, Load(i, n) PROVE Truthful'
  BY <1>25, NoEffect DEF Load, Move
<1>26. ASSUME NEW i \in Issue, NEW n \in Ordinal, Bail(i, n) PROVE Truthful'
  BY <1>26, NoEffect DEF Bail, Return, Move
<1>27. ASSUME NEW i \in Issue, NEW n \in Ordinal, RunBegan(i, n) PROVE Truthful'
  BY <1>27, OtherEffect DEF RunBegan
<1>28. ASSUME NEW i \in Issue, NEW n \in Ordinal,
            NEW o \in Outcome \cup {"none"}, Decide(i, n, o)
      PROVE Truthful'
  BY <1>28, NoEffect DEF Decide, Move, Answers
<1>29. ASSUME NEW i \in Issue, NEW n \in Ordinal, Unregister(i, n) PROVE Truthful'
  <2>1. CASE Return(i, n, {"teardown"})
    BY <1>29, <2>1, NoEffect DEF Unregister, Return, Move
  <2>2. CASE Move(i, n, {"teardown"}, "writing") /\ UNCHANGED <<reason, answer>>
    BY <1>29, <2>2, NoEffect DEF Unregister, Move
  <2> QED
    BY <1>29, <2>1, <2>2 DEF Unregister
<1>30. ASSUME NEW i \in Issue, NEW n \in Ordinal, Write(i, n) PROVE Truthful'
  BY <1>30, EndingEffect DEF Write, Return, Move
<1>31. ASSUME NEW i \in Issue, NEW n \in Ordinal, WriteFails(i, n) PROVE Truthful'
  BY <1>31, NoEffect DEF WriteFails, Return, Move
<1>32. ASSUME NEW i \in Issue, NEW n \in Ordinal, Backstop(i, n) PROVE Truthful'
  BY <1>32, EndingEffect DEF Backstop, Move
<1>33. ASSUME NEW i \in Issue, NEW n \in Ordinal, BackstopFails(i, n) PROVE Truthful'
  BY <1>33, NoEffect DEF BackstopFails, Move
<1>34. ASSUME NEW i \in Issue, NEW n \in Ordinal, ApiStop(i, n) PROVE Truthful'
  BY <1>34, NoEffect DEF ApiStop
<1> HIDE DEF Truthful, ResTypeOK, CaseInv, TypeOK
<1> QED
  BY <1>1, <1>2, <1>3, <1>4, <1>5, <1>6, <1>7, <1>8, <1>9, <1>10, <1>11, <1>35, <1>36, <1>12, <1>13, <1>14, <1>15, <1>16, <1>17,
     <1>18, <1>19, <1>20, <1>21, <1>22, <1>23, <1>24, <1>25, <1>26, <1>27, <1>28, <1>29, <1>30, <1>31, <1>32, <1>33, <1>34
  DEF ResNext, ProcessNext, SweepNext, AttemptNext

\* Attempts are opened by a start only.
LEMMA QuietEffect == ASSUME CaseInv, Answered, ~(\E i \in Issue : Start(i) \/ StartUnacknowledged(i)), ResNext PROVE attempts' = attempts
<1> USE DEF daemonVars, sweepVars, runnerVars
<1>1. CASE Boot
  BY <1>1, NoEffect DEF Boot
<1>2. CASE RecoveryList
  BY <1>2, NoEffect DEF RecoveryList
<1>3. CASE RecoveryDone
  BY <1>3, NoEffect DEF RecoveryDone
<1>4. CASE Shutdown
  BY <1>4, NoEffect DEF Shutdown
<1>5. CASE Exit
  BY <1>5, NoEffect DEF Exit, Die
<1>6. CASE Crash
  BY <1>6, NoEffect DEF Crash, Die
<1>7. CASE StartSweep
  BY <1>7, NoEffect DEF StartSweep
<1>8. CASE TranslateDone
  BY <1>8, NoEffect DEF TranslateDone, InStep
<1>9. CASE CancelClosed
  BY <1>9, NoEffect DEF CancelClosed, InStep
<1>10. CASE ListQueue
  BY <1>10, NoEffect DEF ListQueue, InStep
<1>11. CASE SweepDone
  BY <1>11, NoEffect DEF SweepDone, InStep
<1>35. CASE ListFails
  BY <1>35, NoEffect DEF ListFails, InStep
<1>36. CASE SweepHangs
  BY <1>36, NoEffect DEF SweepHangs
<1>12. ASSUME NEW i \in Issue, TranslateOpened(i) PROVE attempts' = attempts
  BY <1>12, OtherEffect DEF TranslateOpened, InStep
<1>13. ASSUME NEW i \in Issue, TranslateLabeled(i) PROVE attempts' = attempts
  BY <1>13, OtherEffect DEF TranslateLabeled, InStep
<1>14. ASSUME NEW i \in Issue, TranslateClosed(i) PROVE attempts' = attempts
  BY <1>14, OtherEffect DEF TranslateClosed, InStep
<1>15. ASSUME NEW i \in Issue, TranslateEnrollment(i) PROVE attempts' = attempts
  BY <1>15, NoEffect DEF TranslateEnrollment, InStep
<1>16. ASSUME NEW i \in Issue, NEW size \in {"small", "large"}, Triage(i, size) PROVE attempts' = attempts
  BY <1>16, OtherEffect DEF Triage, InStep
<1>17. ASSUME NEW i \in Issue, Start(i) PROVE attempts' = attempts
  BY <1>17
<1>18. ASSUME NEW i \in Issue, StartUnacknowledged(i) PROVE attempts' = attempts
  BY <1>18
<1>19. ASSUME NEW i \in Issue, Skip(i) PROVE attempts' = attempts
  BY <1>19, NoEffect DEF Skip, Visit, InStep
<1>20. ASSUME NEW i \in Issue, ApiRunCreate(i) PROVE attempts' = attempts
  BY <1>20, OtherEffect DEF ApiRunCreate
<1>21. ASSUME NEW i \in Issue, ApiRun(i) PROVE attempts' = attempts
  BY <1>21, OtherEffect DEF ApiRun
<1>22. ASSUME NEW i \in Issue, NEW n \in Ordinal, RecoverOne(i, n) PROVE attempts' = attempts
  BY <1>22, EndingEffect DEF RecoverOne
<1>23. ASSUME NEW i \in Issue, NEW n \in Ordinal, RecoverOneFails(i, n) PROVE attempts' = attempts
  BY <1>23, NoEffect DEF RecoverOneFails
<1>24. ASSUME NEW i \in Issue, NEW n \in Ordinal, Register(i, n) PROVE attempts' = attempts
  BY <1>24, NoEffect DEF Register, Move
<1>25. ASSUME NEW i \in Issue, NEW n \in Ordinal, Load(i, n) PROVE attempts' = attempts
  BY <1>25, NoEffect DEF Load, Move
<1>26. ASSUME NEW i \in Issue, NEW n \in Ordinal, Bail(i, n) PROVE attempts' = attempts
  BY <1>26, NoEffect DEF Bail, Return, Move
<1>27. ASSUME NEW i \in Issue, NEW n \in Ordinal, RunBegan(i, n) PROVE attempts' = attempts
  BY <1>27, OtherEffect DEF RunBegan
<1>28. ASSUME NEW i \in Issue, NEW n \in Ordinal,
            NEW o \in Outcome \cup {"none"}, Decide(i, n, o)
      PROVE attempts' = attempts
  BY <1>28, NoEffect DEF Decide, Move
<1>29. ASSUME NEW i \in Issue, NEW n \in Ordinal, Unregister(i, n) PROVE attempts' = attempts
  BY <1>29, NoEffect DEF Unregister, Return, Move
<1>30. ASSUME NEW i \in Issue, NEW n \in Ordinal, Write(i, n) PROVE attempts' = attempts
  BY <1>30, EndingEffect DEF Write, Return, Move
<1>31. ASSUME NEW i \in Issue, NEW n \in Ordinal, WriteFails(i, n) PROVE attempts' = attempts
  BY <1>31, NoEffect DEF WriteFails, Return, Move
<1>32. ASSUME NEW i \in Issue, NEW n \in Ordinal, Backstop(i, n) PROVE attempts' = attempts
  BY <1>32, EndingEffect DEF Backstop, Move
<1>33. ASSUME NEW i \in Issue, NEW n \in Ordinal, BackstopFails(i, n) PROVE attempts' = attempts
  BY <1>33, NoEffect DEF BackstopFails, Move
<1>34. ASSUME NEW i \in Issue, NEW n \in Ordinal, ApiStop(i, n) PROVE attempts' = attempts
  BY <1>34, NoEffect DEF ApiStop
<1> QED
  BY <1>1, <1>2, <1>3, <1>4, <1>5, <1>6, <1>7, <1>8, <1>9, <1>10, <1>11, <1>35, <1>36, <1>12, <1>13, <1>14, <1>15, <1>16, <1>17,
     <1>18, <1>19, <1>20, <1>21, <1>22, <1>23, <1>24, <1>25, <1>26, <1>27, <1>28, <1>29, <1>30, <1>31, <1>32, <1>33, <1>34
  DEF ResNext, ProcessNext, SweepNext, AttemptNext

-----------------------------------------------------------------------------
\* The invariant.

\* A fresh daemon over an empty store.
LEMMA InitRes == ResInit => ResInv
<1> SUFFICES ASSUME ResInit PROVE ResInv
  OBVIOUS
<1>1. CaseInv
  BY InitInv DEF ResInit
<1>2. \A i \in Issue, n \in Ordinal :
         runner[i][n] = "idle" /\ reason[i][n] = "none" /\ answer[i][n] = "none"
  BY DEF ResInit, Fill
<1>3. OpenAttempts = {}
  BY DEF ResInit, Init, OpenAttempts, Attempt, IsOpen, Open
<1>4. ResTypeOK
  <2>1. /\ runner \in [Issue -> [Ordinal -> RunnerPc]]
        /\ reason \in [Issue -> [Ordinal -> {"none", "operator_stop", "issue_closed"}]]
        /\ answer \in [Issue -> [Ordinal -> Outcome \cup {"none"}]]
    BY DEF ResInit, Fill, RunnerPc
  <2>2. /\ restarts \in 0..MaxRestarts
        /\ failures \in 0..MaxFailures
        /\ slots \in 0..Concurrency
    BY ResolutionAssumption DEF ResInit
  <2>3. /\ enrolled \in [Issue -> BOOLEAN]
        /\ apiSweep \in BOOLEAN
    BY DEF ResInit
  <2>4. /\ TypeOK
        /\ daemon \in Serving \cup {"down"}
        /\ step \in {"idle", "translate", "cancel", "triage", "schedule", "hung"}
        /\ queue \in SUBSET Issue
        /\ recovery \in SUBSET Attempt
        /\ lost \in SUBSET Attempt
    BY <1>1 DEF ResInit, CaseInv, Serving
  <2> QED
    BY <2>1, <2>2, <2>3, <2>4 DEF ResTypeOK
<1>5. Counted
  BY <1>3, FS_EmptySet, ResolutionAssumption DEF ResInit, Counted
<1>6. Known /\ Answered /\ Truthful /\ Owned
  BY <1>2 DEF ResInit, Known, Answered, Truthful, Owned, Executing, Registered
<1>7. Attended /\ QueueEnrolled /\ Quiescent
  BY <1>2 DEF ResInit, Attended, QueueEnrolled, Quiescent
<1> QED
  BY <1>1, <1>4, <1>5, <1>6, <1>7 DEF ResInv

\* Every step keeps it; a step outside the daemon changes nothing it speaks of.
LEMMA StepRes == ResInv /\ [ResNext]_vars => ResInv'
<1> SUFFICES ASSUME ResInv, [ResNext]_vars PROVE ResInv'
  OBVIOUS
<1>1. CASE ResNext
  <2>1. CaseInv'
    BY <1>1, CaseStep, NextInv DEF ResInv
  <2>2. ResTypeOK'
    BY <1>1, <2>1, TypeStep DEF ResInv, CaseInv
  <2>3. Known' /\ Answered' /\ Counted' /\ Attended'
    BY <1>1, KnownStep, AnsweredStep, CountedStep, AttendedStep DEF ResInv
  <2>4. QueueEnrolled' /\ Truthful'
    BY <1>1, QueueStep, TruthfulStep DEF ResInv
  <2>5. ~EarlyRun => Quiescent' /\ Owned'
    BY <1>1, QuiescentStep, OwnedStep DEF ResInv
  <2> QED
    BY <2>1, <2>2, <2>3, <2>4, <2>5 DEF ResInv
<1>2. CASE UNCHANGED vars
  <2>1. CaseInv'
    BY <1>2, NextInv DEF ResInv, vars
  <2>2. OpenAttempts' = OpenAttempts /\ \A j \in Issue, m \in Ordinal : IsOpen(j, m)' <=> IsOpen(j, m)
    BY <1>2, NoEffect DEF vars
  <2>3. UNCHANGED <<state, attempts, daemon, restarts, failures, enrolled, step, queue, slots,
                    apiSweep, runner, reason, answer, recovery, lost>>
    BY <1>2 DEF vars, caseVars, daemonVars, sweepVars, runnerVars
  <2>4. ResTypeOK'
    BY <2>1, <2>3 DEF ResInv, CaseInv, ResTypeOK
  <2>5. Known' /\ Answered' /\ Truthful' /\ QueueEnrolled'
    BY <2>3 DEF ResInv, Known, Answered, Truthful, QueueEnrolled
  <2>6. Counted' /\ Attended'
    BY <2>2, <2>3 DEF ResInv, Counted, Attended
  <2>7. ~EarlyRun => Quiescent' /\ Owned'
    BY <2>2, <2>3 DEF ResInv, Quiescent, Owned
  <2> QED
    BY <2>1, <2>4, <2>5, <2>6, <2>7 DEF ResInv
<1> QED
  BY <1>1, <1>2

\* The invariant holds of the daemon.
THEOREM DaemonInvariant == ResSpec => []ResInv
BY InitRes, StepRes, PTL DEF ResSpec

-----------------------------------------------------------------------------
\* What follows from it.

\* The daemon implements the aggregate: whatever sweeps, runners, restarts,
\* failed writes and the operator do to a case is one of its commands.
THEOREM DaemonImplementsCase == ResSpec => ImplementsCase
<1>1. ResInit => Init
  BY DEF ResInit
<1>2. ResInv /\ [ResNext]_vars => [Next]_caseVars
  BY CaseStep DEF ResInv, vars
<1> QED
  BY <1>1, <1>2, DaemonInvariant, PTL DEF ResSpec, ImplementsCase, CaseSpec

\* The daemon's variables keep their types.
THEOREM DaemonTypeCorrect == ResSpec => []ResTypeOK
<1>1. ResInv => ResTypeOK
  BY DEF ResInv
<1> QED
  BY <1>1, DaemonInvariant, PTL

\* The scheduler's promise, across any number of issues and restarts.
THEOREM Slotted == ResSpec => []SlotsRespected
<1>1. ResInv => SlotsRespected
  BY DEF ResInv, Counted, SlotsRespected
<1> QED
  BY <1>1, DaemonInvariant, PTL

\* Nobody's attempt: only a failed write can leave one.
THEOREM Accounted == ResSpec => []NoOrphan
<1>1. ResInv => NoOrphan
  BY DEF ResInv, Attended, NoOrphan
<1> QED
  BY <1>1, DaemonInvariant, PTL

\* The queue that was read holds enrolled repositories until it is used up.
THEOREM RemovedNeverStarts == ResSpec => NoStartWhenRemoved
<1>1. ASSUME ResInv, [ResNext]_vars
      PROVE  [\A i \in Issue : attempts'[i] > attempts[i] => enrolled[i]]_vars
  <2>1. CASE UNCHANGED vars
    BY <2>1
  <2>2. ASSUME NEW i \in Issue, Start(i) \/ StartUnacknowledged(i),
               NEW j \in Issue, attempts'[j] > attempts[j]
        PROVE  enrolled[j]
    <3>1. i \in queue /\ step = "schedule"
      BY <2>2 DEF Start, StartUnacknowledged, Visit, InStep
    <3>2. attempts' = [attempts EXCEPT ![i] = attempts[i] + 1]
      BY <1>1, <2>2, StartEffect DEF ResInv, Start, StartUnacknowledged
    <3>3. attempts \in [Issue -> Nat]
      BY <1>1, CaseAssumption DEF ResInv, CaseInv, TypeOK
    <3>4. j = i
      BY <2>2, <3>2, <3>3
    <3> QED
      BY <1>1, <3>1, <3>4 DEF ResInv, QueueEnrolled
  <2>3. ASSUME ResNext, ~ \E i \in Issue : Start(i) \/ StartUnacknowledged(i)
        PROVE  attempts' = attempts
    BY <1>1, <2>3, QuietEffect DEF ResInv
  <2>4. \A j \in Issue : ~(attempts[j] > attempts[j])
    BY <1>1 DEF ResInv, CaseInv, TypeOK
  <2> QED
    BY <1>1, <2>1, <2>2, <2>3, <2>4
<1> QED
  BY <1>1, DaemonInvariant, PTL DEF ResSpec, NoStartWhenRemoved

\* Without a run request during the boot, a runner's attempt stays its own.
THEOREM RunnersOwn == ASSUME ~EarlyRun PROVE ResSpec => []RunnerOwnsAttempt
<1>1. ResInv => RunnerOwnsAttempt
  BY OpenIsTarget DEF ResInv, Owned, RunnerOwnsAttempt
<1> QED
  BY <1>1, DaemonInvariant, PTL

\* Without a run request during the boot, no more sandboxes than slots.
THEOREM Pooled == ASSUME ~EarlyRun PROVE ResSpec => []PoolRespected
<1>1. ASSUME ResInv PROVE PoolRespected
  <2>1. ExecutingAttempts \subseteq OpenAttempts \ lost
    <3>1. \A i \in Issue, n \in Ordinal :
             runner[i][n] \in Executing => IsOpen(i, n) /\ <<i, n>> \notin lost
      BY <1>1 DEF ResInv, Owned, Executing, Registered
    <3> QED
      BY <3>1 DEF ExecutingAttempts, OpenAttempts, Attempt
  <2>2. IsFiniteSet(OpenAttempts \ lost) /\ IsFiniteSet(ExecutingAttempts)
    BY AttemptsFinite DEF OpenAttempts, ExecutingAttempts
  <2>3. Cardinality(ExecutingAttempts) <= Cardinality(OpenAttempts \ lost)
    BY <2>1, <2>2, FS_Subset
  <2>4. Cardinality(ExecutingAttempts) \in Nat /\ Cardinality(OpenAttempts \ lost) \in Nat
    BY <2>2, FS_CardinalityType
  <2> QED
    BY <1>1, <2>3, <2>4, ResolutionAssumption DEF ResInv, Counted, PoolRespected
<1> QED
  BY <1>1, DaemonInvariant, PTL

\* Without a run request during the boot, the store takes every answer.
THEOREM Landed == ASSUME ~EarlyRun PROVE ResSpec => []AnswerLands
<1>1. ASSUME ResInv PROVE AnswerLands
  <2>1. \A i \in Issue, n \in Ordinal : runner[i][n] = "writing" => IsTarget(i, n)
    BY <1>1, OpenIsTarget DEF ResInv, Owned
  <2> QED
    BY <1>1, <2>1 DEF ResInv, Truthful, AnswerLands, Refused
<1> QED
  BY <1>1, DaemonInvariant, PTL

-----------------------------------------------------------------------------
\* The scheduler's promise across cases.

\* What an issue's place in the service depends on: its open attempts, which of
\* them are lost, and its state.
SameJob(j) ==
    /\ \A m \in Ordinal :
          /\ IsOpen(j, m)' <=> IsOpen(j, m)
          /\ IsOpen(j, m) => (<<j, m>> \in lost' <=> <<j, m>> \in lost)
    /\ state'[j] = state[j]

\* An issue's place, without the function around it.
Placed(i) ==
    /\ (\A n \in Ordinal : ~IsOpen(i, n)) =>
          /\ state[i] = "queued" => jobStatus[i] = "ready"
          /\ state[i] \in Terminal => jobStatus[i] = "over"
          /\ state[i] \notin Terminal \cup {"queued"} => jobStatus[i] = "idle"
    /\ \A n \in Ordinal : IsOpen(i, n) =>
          jobStatus[i] = IF <<i, n>> \in lost THEN "stranded" ELSE "running"

LEMMA JobIs == CaseInv => \A i \in Issue : Placed(i)
<1> SUFFICES ASSUME CaseInv, NEW i \in Issue PROVE Placed(i)
  OBVIOUS
<1>1. \A m, n \in Ordinal : IsOpen(i, m) /\ IsOpen(i, n) => m = n
  BY DEF CaseInv, Loadable, OpenOrdinals
<1> QED
  BY <1>1 DEF Placed, jobStatus, Terminal

\* ... and after a step.
LEMMA JobIsNext == CaseInv' => (\A i \in Issue : Placed(i))'
BY JobIs, PTL

\* A step that spares the other issues changes one place at most.
LEMMA OneJob ==
  ASSUME NEW i \in Issue, \A j \in Issue \ {i} : SameJob(j)
  PROVE  jobStatus' = [jobStatus EXCEPT ![i] = jobStatus'[i]]
<1>1. \A j \in Issue \ {i} : jobStatus'[j] = jobStatus[j]
  BY DEF jobStatus, SameJob
<1>2. /\ DOMAIN jobStatus = Issue /\ DOMAIN jobStatus' = Issue
      /\ jobStatus = [j \in Issue |-> jobStatus[j]] /\ jobStatus' = [j \in Issue |-> jobStatus'[j]]
  BY DEF jobStatus
<1> QED
  BY <1>1, <1>2

\* A step that changes no issue's place is none of the service's.
LEMMA NoJob ==
  ASSUME \A j \in Issue : SameJob(j)
  PROVE  jobStatus' = jobStatus
BY DEF jobStatus, SameJob

\* What is not counted as free is what runs.
LEMMA RunningCounted ==
  ASSUME ResTypeOK
  PROVE  /\ Cardinality(Svc!Running) \in Nat
         /\ Cardinality(OpenAttempts \ lost) \in Nat
         /\ Cardinality(Svc!Running) <= Cardinality(OpenAttempts \ lost)
<1> DEFINE S == Svc!Running
           T == OpenAttempts \ lost
           f == [j \in S |-> <<j, CHOOSE n \in Ordinal : IsOpen(j, n) /\ <<j, n>> \notin lost>>]
<1>1. IsFiniteSet(S) /\ IsFiniteSet(T)
  BY CaseAssumption, AttemptsFinite, FS_Subset DEF Svc!Running, OpenAttempts
<1>2. f \in [S -> T]
  <2> SUFFICES ASSUME NEW j \in S PROVE f[j] \in T
    OBVIOUS
  <2>1. j \in Issue /\ \E n \in Ordinal : IsOpen(j, n) /\ <<j, n>> \notin lost
    BY DEF Svc!Running, jobStatus
  <2> QED
    BY <2>1 DEF OpenAttempts, Attempt
<1>3. \A x, y \in S : f[x] = f[y] => x = y
  OBVIOUS
<1>4. Cardinality(S) \in Nat /\ Cardinality(T) \in Nat
  BY <1>1, FS_CardinalityType
<1> HIDE DEF S, T, f
<1>5. ~(Cardinality(T) < Cardinality(S))
  BY <1>1, <1>2, <1>3, FS_PigeonHole
<1>6. Cardinality(S) <= Cardinality(T)
  BY <1>4, <1>5
<1> QED
  BY <1>4, <1>6 DEF S, T

\* A case without an open attempt is in no state of a run, and conversely.
LEMMA QuietJob ==
  ASSUME CaseInv, NEW i \in Issue
  PROVE  /\ state[i] \notin {"attempting", "closed"} => \A n \in Ordinal : ~IsOpen(i, n)
         /\ state[i] \in CaseState \cup {"absent"}
BY DEF CaseInv, TypeOK, AttemptingMatchesOpen, OpenOrdinals

\* The commands of a case but for the start: a step of the service or none.
LEMMA CommandServes ==
  ASSUME CaseInv, CaseInv', UNCHANGED lost, NEW i \in Issue,
         \/ NewCase(i)
         \/ \E size \in {"small", "large"} : RecordTriage(i, size)
         \/ RecordApproval(i)
         \/ \E n \in Ordinal : RecordRun(i, n)
         \/ \E n \in Ordinal, o \in Outcome : RecordOutcome(i, n, o)
         \/ Close(i)
  PROVE  [Svc!Next]_jobStatus
<1> USE DEF Svc!Next
<1>0. \A j \in Issue \ {i} : SameJob(j)
  <2>1. state \in [Issue -> CaseState \cup {"absent"}]
    BY DEF CaseInv, TypeOK
  <2>2. attempt \in [Issue -> [Ordinal -> Open \cup Outcome \cup {"none"}]]
    BY DEF CaseInv, TypeOK
  <2> QED
    BY <2>1, <2>2
    DEF SameJob, IsOpen, NewCase, RecordTriage, RecordApproval, RecordRun, RecordOutcome, Close
<1>1. jobStatus' = [jobStatus EXCEPT ![i] = jobStatus'[i]]
  BY <1>0, OneJob
<1>2. (\A n \in Ordinal : IsOpen(i, n)' <=> IsOpen(i, n)) /\ state'[i] = state[i] => jobStatus' = jobStatus
  BY <1>0, NoJob DEF SameJob
<1>t. state \in [Issue -> CaseState \cup {"absent"}]
  BY DEF CaseInv, TypeOK
<1>3. CASE NewCase(i) \/ \E size \in {"small", "large"} : RecordTriage(i, size)
  <2>1. /\ \A n \in Ordinal : ~IsOpen(i, n) /\ ~IsOpen(i, n)'
        /\ state[i] \in {"absent", "received"}
        /\ state'[i] \in {"gated", "received", "queued", "awaiting_approval"}
    BY <1>3, <1>t, QuietJob DEF NewCase, RecordTriage, InitialState, TriageMove, IsOpen
  <2>2. jobStatus[i] = "idle" /\ jobStatus'[i] \in {"idle", "ready"}
    BY <2>1, JobIs, JobIsNext DEF Terminal, Placed
  <2>3. CASE jobStatus'[i] = "idle"
    BY <1>1, <2>2, <2>3 DEF jobStatus
  <2>4. CASE jobStatus'[i] = "ready"
    BY <1>1, <2>2, <2>4 DEF Svc!Ready, Svc!Goes
  <2> QED
    BY <2>2, <2>3, <2>4
<1>4. CASE RecordApproval(i)
  <2>1. CASE state[i] \in Approvable
    <3>1. /\ \A n \in Ordinal : ~IsOpen(i, n) /\ ~IsOpen(i, n)'
          /\ state'[i] = "queued"
      BY <1>4, <1>t, <2>1, QuietJob DEF RecordApproval, Approvable, IsOpen
    <3>2. jobStatus[i] = "idle" /\ jobStatus'[i] = "ready"
      BY <2>1, <3>1, JobIs, JobIsNext DEF Terminal, Approvable, Placed
    <3> QED
      BY <1>1, <3>2 DEF Svc!Ready, Svc!Goes
  <2>2. CASE state[i] \notin Approvable
    BY <1>2, <1>4, <1>t, <2>2 DEF RecordApproval, IsOpen
  <2> QED
    BY <2>1, <2>2
<1>5. CASE \E n \in Ordinal : RecordRun(i, n)
  BY <1>2, <1>5 DEF RecordRun, IsTarget, IsOpen, Open, CaseInv, TypeOK
<1>6. ASSUME NEW n \in Ordinal, NEW o \in Outcome, RecordOutcome(i, n, o) PROVE Svc!Next
  <2>1. jobStatus[i] \in {"running", "stranded"}
    BY <1>6, JobIs DEF RecordOutcome, IsTarget, Placed
  <2>2. \A m \in Ordinal : ~IsOpen(i, m)'
    <3>1. \A m \in Ordinal : IsOpen(i, m) => m = n
      BY <1>6 DEF RecordOutcome, CaseInv, Loadable, OpenOrdinals, IsTarget
    <3>2. /\ ~IsOpen(i, n)'
          /\ \A m \in Ordinal : <<i, m>> # <<i, n>> => (IsOpen(i, m)' <=> IsOpen(i, m))
      BY <1>6, OutcomeEffect
    <3> QED
      BY <3>1, <3>2
  <2>3. jobStatus'[i] \in {"idle", "ready", "over"}
    BY <2>2, JobIsNext DEF Placed
  <2> QED
    BY <1>1, <2>1, <2>3 DEF Svc!End, Svc!Goes
<1>7. CASE Close(i)
  <2>1. /\ \A n \in Ordinal : IsOpen(i, n)' <=> IsOpen(i, n)
        /\ state[i] \notin Terminal /\ state'[i] = "closed"
    BY <1>7, <1>t DEF Close, IsOpen
  <2>2. CASE \A n \in Ordinal : ~IsOpen(i, n)
    <3>1. jobStatus[i] \in {"idle", "ready"} /\ jobStatus'[i] = "over"
      BY <2>1, <2>2, JobIs, JobIsNext DEF Terminal, Placed
    <3> QED
      BY <1>1, <3>1 DEF Svc!Withdraw, Svc!Goes
  <2>3. CASE \E n \in Ordinal : IsOpen(i, n)
    <3>1. jobStatus'[i] = jobStatus[i]
      BY <2>1, <2>3, JobIs, JobIsNext DEF Placed
    <3> QED
      BY <1>1, <3>1 DEF jobStatus
  <2> QED
    BY <2>2, <2>3
<1> QED
  BY <1>3, <1>4, <1>5, <1>6, <1>7

\* A start the scheduler knows of takes a free slot, one it was not told of is
\* stranded.
LEMMA StartServes ==
  ASSUME ResInv, ResInv', NEW i \in Issue, Start(i) \/ StartUnacknowledged(i)
  PROVE  Svc!Next
<1> DEFINE n == attempts[i] + 1
<1>0. CaseInv /\ CaseInv' /\ ResTypeOK /\ Known /\ Counted
  BY DEF ResInv
<1>1. /\ StartAttempt(i) /\ n \in Ordinal
      /\ \A j \in Issue, m \in Ordinal : IsOpen(j, m)' <=> IsOpen(j, m) \/ <<j, m>> = <<i, n>>
  BY <1>0, StartEffect DEF Start, StartUnacknowledged
<1>2. \A j \in Issue \ {i} : SameJob(j)
  <2>1. state \in [Issue -> CaseState \cup {"absent"}]
    BY <1>0 DEF CaseInv, TypeOK
  <2> QED
    BY <1>1, <2>1 DEF SameJob, StartAttempt, Start, StartUnacknowledged
<1>3. jobStatus' = [jobStatus EXCEPT ![i] = jobStatus'[i]]
  BY <1>2, OneJob
<1>4. jobStatus[i] = "ready"
  BY <1>0, <1>1, JobIs, QuietJob DEF StartAttempt, Placed
<1>5. <<i, n>> \notin lost
  <2>1. attempts[i] \in Nat
    BY <1>0, CaseAssumption DEF CaseInv, TypeOK
  <2> QED
    BY <1>0, <1>1, <2>1 DEF Known
<1>6. jobStatus'[i] = IF <<i, n>> \in lost' THEN "stranded" ELSE "running"
  BY <1>0, <1>1, JobIsNext DEF Placed
<1>7. CASE Start(i)
  <2>1. jobStatus'[i] = "running"
    BY <1>5, <1>6, <1>7 DEF Start
  <2>2. Cardinality(Svc!Running) < Concurrency
    <3>1. slots \in Nat /\ slots > 0 /\ Cardinality(OpenAttempts \ lost) + slots <= Concurrency
      BY <1>0, <1>7, ResolutionAssumption DEF Start, Visit, InStep, Counted, ResTypeOK
    <3> QED
      BY <1>0, <3>1, RunningCounted, ResolutionAssumption
  <2>3. Svc!Goes(i, {"ready"}, "running")
    BY <1>3, <1>4, <2>1 DEF Svc!Goes
  <2>4. Svc!Start(i)
    BY <2>2, <2>3 DEF Svc!Start, Svc!Cardinality, Cardinality, Svc!IsFiniteSet, IsFiniteSet
  <2> QED
    BY <2>4 DEF Svc!Next
<1>8. CASE StartUnacknowledged(i)
  <2>1. jobStatus'[i] = "stranded"
    BY <1>6, <1>8 DEF StartUnacknowledged
  <2> QED
    BY <1>3, <1>4, <2>1 DEF Svc!Next, Svc!Strand, Svc!Goes
<1> QED
  BY <1>7, <1>8

\* Every other step leaves the lost attempts as they are, or adds one and
\* gives no command.
LEMMA LostEffect ==
  ASSUME ResNext, ~ \E i \in Issue : Start(i) \/ StartUnacknowledged(i)
  PROVE  \/ UNCHANGED lost
         \/ /\ UNCHANGED caseVars
            /\ \E i \in Issue, n \in Ordinal : lost' = lost \cup {<<i, n>>}
<1>1. CASE ProcessNext
  BY <1>1 DEF ProcessNext, Boot, RecoveryList, RecoveryDone, Shutdown, Exit, Crash, Die
<1>2. CASE StartSweep \/ TranslateDone \/ CancelClosed \/ ListQueue \/ SweepDone
         \/ ListFails \/ SweepHangs
  BY <1>2 DEF StartSweep, TranslateDone, CancelClosed, ListQueue, SweepDone, ListFails, SweepHangs
<1>3. ASSUME NEW i \in Issue, SweepNext(i), ~(Start(i) \/ StartUnacknowledged(i)) PROVE UNCHANGED lost
  BY <1>3 DEF SweepNext, TranslateOpened, TranslateLabeled, TranslateClosed, TranslateEnrollment,
     Triage, Skip, ApiRunCreate, ApiRun
<1>4. ASSUME NEW i \in Issue, NEW n \in Ordinal, AttemptNext(i, n)
      PROVE  \/ UNCHANGED lost
             \/ UNCHANGED caseVars /\ lost' = lost \cup {<<i, n>>}
  BY <1>4 DEF AttemptNext, RecoverOne, RecoverOneFails, Register, Load, Bail, RunBegan, Decide,
     Unregister, Write, WriteFails, Backstop, BackstopFails, ApiStop
<1> QED
  BY <1>1, <1>2, <1>3, <1>4 DEF ResNext

\* An attempt nobody is left to end strands its issue, if it is still open.
LEMMA LossServes ==
  ASSUME CaseInv, UNCHANGED caseVars, NEW i \in Issue, NEW n \in Ordinal, lost' = lost \cup {<<i, n>>}
  PROVE  [Svc!Next]_jobStatus
<1>1. \A j \in Issue, m \in Ordinal : IsOpen(j, m)' <=> IsOpen(j, m)
  BY NoEffect
<1>2. state' = state /\ CaseInv'
  BY NextInv DEF caseVars
<1>3. \A j \in Issue \ {i} : SameJob(j)
  BY <1>1, <1>2 DEF SameJob
<1>4. jobStatus' = [jobStatus EXCEPT ![i] = jobStatus'[i]]
  BY <1>3, OneJob
<1>5. CASE IsOpen(i, n)
  <2>1. jobStatus[i] \in {"running", "stranded"} /\ jobStatus'[i] = "stranded"
    BY <1>1, <1>2, <1>5, JobIs, JobIsNext DEF Placed
  <2>2. CASE jobStatus[i] = "running"
    BY <1>4, <2>1, <2>2 DEF Svc!Next, Svc!Strand, Svc!Goes
  <2>3. CASE jobStatus[i] = "stranded"
    BY <1>4, <2>1, <2>3 DEF jobStatus
  <2> QED
    BY <2>1, <2>2, <2>3
<1>6. CASE ~IsOpen(i, n)
  BY <1>1, <1>2, <1>3, <1>6, NoJob DEF SameJob
<1> QED
  BY <1>5, <1>6

\* The daemon implements the service: no start without a free slot, whatever
\* crashes, failed writes and second sweeps come in between, no second run of
\* an issue that has one, and none of an issue that is over.
THEOREM DaemonImplementsService == ResSpec => ImplementsService
<1>1. ResInit => Svc!Init
  <2> SUFFICES ASSUME ResInit PROVE jobStatus = [j \in Issue |-> "idle"]
    BY DEF Svc!Init
  <2>1. \A i \in Issue : state[i] = "absent" /\ \A n \in Ordinal : ~IsOpen(i, n)
    BY DEF ResInit, Init, IsOpen, Open
  <2> QED
    BY <2>1 DEF jobStatus, Terminal
<1>2. ASSUME ResInv, ResInv', [ResNext]_vars PROVE [Svc!Next]_jobStatus
  <2>1. CASE UNCHANGED vars
    BY <2>1, NoEffect, NoJob DEF SameJob, vars
  <2>2. CASE \E i \in Issue : Start(i) \/ StartUnacknowledged(i)
    BY <1>2, <2>2, StartServes
  <2>3. CASE ResNext /\ ~ \E i \in Issue : Start(i) \/ StartUnacknowledged(i)
    <3>1. CASE UNCHANGED caseVars /\ UNCHANGED lost
      BY <3>1, NoEffect, NoJob DEF SameJob
    <3>2. CASE UNCHANGED caseVars /\ \E i \in Issue, n \in Ordinal : lost' = lost \cup {<<i, n>>}
      BY <1>2, <3>2, LossServes DEF ResInv
    <3>3. CASE Next /\ UNCHANGED lost
      <4>1. PICK i \in Issue :
              \/ NewCase(i)
              \/ \E size \in {"small", "large"} : RecordTriage(i, size)
              \/ RecordApproval(i)
              \/ StartAttempt(i)
              \/ \E n \in Ordinal : RecordRun(i, n)
              \/ \E n \in Ordinal, o \in Outcome : RecordOutcome(i, n, o)
              \/ Close(i)
        BY <3>3 DEF Next
      <4>2. ~StartAttempt(i)
        <5>1. attempts' = attempts
          BY <1>2, <2>3, QuietEffect DEF ResInv
        <5>2. attempts \in [Issue -> Nat]
          BY <1>2, CaseAssumption DEF ResInv, CaseInv, TypeOK
        <5> QED
          BY <5>1, <5>2 DEF StartAttempt
      <4> QED
        BY <1>2, <3>3, <4>1, <4>2, CommandServes DEF ResInv
    <3>4. [Next]_caseVars
      BY <1>2, <2>3, CaseStep DEF ResInv
    <3> QED
      BY <2>3, <3>1, <3>2, <3>3, <3>4, LostEffect
  <2> QED
    BY <1>2, <2>1, <2>2, <2>3
<1> QED
  BY <1>1, <1>2, DaemonInvariant, PTL DEF ResSpec, ImplementsService, Svc!ServiceSpec

-----------------------------------------------------------------------------
\* Recovery's promise, for a daemon that takes no run request while it boots.

\* No runner answers what only recovery may say.
NoRunnerRestarts == \A i \in Issue, n \in Ordinal : answer[i][n] # "daemon_restart"

LEMMA NoRunnerRestartsStep ==
  ASSUME ResTypeOK, NoRunnerRestarts, ResNext PROVE NoRunnerRestarts'
<1> USE DEF ResTypeOK, NoRunnerRestarts, runnerVars
<1>1. CASE UNCHANGED answer
  BY <1>1
<1>2. CASE Die
  BY <1>2 DEF Die, Fill
<1>3. ASSUME NEW i \in Issue, NEW n \in Ordinal, answer' = [answer EXCEPT ![i][n] = "none"]
      PROVE  NoRunnerRestarts'
  BY <1>3
<1>4. ASSUME NEW i \in Issue, NEW n \in Ordinal, NEW o, Decide(i, n, o) PROVE NoRunnerRestarts'
  <2>1. o # "daemon_restart"
    BY <1>4 DEF Decide, Answers
  <2> QED
    BY <1>4, <2>1 DEF Decide
<1>5. CASE ProcessNext
  BY <1>1, <1>2, <1>5 DEF ProcessNext, Boot, RecoveryList, RecoveryDone, Shutdown, Exit, Crash
<1>6. CASE StartSweep \/ TranslateDone \/ CancelClosed \/ ListQueue \/ SweepDone
         \/ ListFails \/ SweepHangs
  BY <1>1, <1>6 DEF StartSweep, TranslateDone, CancelClosed, ListQueue, SweepDone, ListFails, SweepHangs
<1>7. ASSUME NEW i \in Issue, SweepNext(i) PROVE NoRunnerRestarts'
  BY <1>1, <1>7 DEF SweepNext, TranslateOpened, TranslateLabeled, TranslateClosed, TranslateEnrollment,
     Triage, Skip, Start, StartUnacknowledged, ApiRunCreate, ApiRun
<1>8. ASSUME NEW i \in Issue, NEW n \in Ordinal, AttemptNext(i, n) PROVE NoRunnerRestarts'
  <2>1. CASE \/ RecoverOne(i, n) \/ RecoverOneFails(i, n) \/ Register(i, n) \/ Load(i, n)
             \/ RunBegan(i, n) \/ Backstop(i, n) \/ BackstopFails(i, n) \/ ApiStop(i, n)
    BY <1>1, <2>1 DEF RecoverOne, RecoverOneFails, Register, Load, RunBegan, Backstop, BackstopFails, ApiStop
  <2>2. CASE Bail(i, n) \/ Unregister(i, n) \/ Write(i, n) \/ WriteFails(i, n)
    BY <1>1, <1>3, <2>2 DEF Bail, Unregister, Write, WriteFails, Return
  <2> QED
    BY <1>4, <1>8, <2>1, <2>2 DEF AttemptNext
<1> HIDE DEF NoRunnerRestarts, ResTypeOK
<1> QED
  BY <1>5, <1>6, <1>7, <1>8 DEF ResNext

\* Without a run request during the boot, recovery keeps what its comment
\* says: an attempt that ends as daemon_restart is one nobody works on.
THEOREM RecoveryEndsPrevious == ASSUME ~EarlyRun PROVE ResSpec => RecoveryEndsOnlyPrevious
<1>1. ResInit => NoRunnerRestarts
  BY DEF ResInit, Fill, NoRunnerRestarts
<1>2. ResInv /\ NoRunnerRestarts /\ [ResNext]_vars => NoRunnerRestarts'
  BY NoRunnerRestartsStep DEF ResInv, NoRunnerRestarts, vars, runnerVars
<1>3. ASSUME ResInv, NoRunnerRestarts, [ResNext]_vars
      PROVE  [\A i \in Issue, n \in Ordinal :
                 IsOpen(i, n) /\ attempt'[i][n] = "daemon_restart" => runner[i][n] = "idle"]_vars
  <2> SUFFICES ASSUME ResNext, NEW i \in Issue, NEW n \in Ordinal,
                      IsOpen(i, n), attempt'[i][n] = "daemon_restart"
               PROVE  runner[i][n] = "idle"
    BY <1>3
  <2>0. CaseInv /\ attempt \in [Issue -> [Ordinal -> Open \cup Outcome \cup {"none"}]]
    BY <1>3 DEF ResInv, CaseInv, TypeOK
  <2>1. attempt[i][n] # "daemon_restart"
    BY DEF IsOpen, Open
  <2>2. ASSUME NEW j \in Issue, NEW m \in Ordinal, NEW o, o # "daemon_restart", RecordOutcome(j, m, o)
        PROVE  FALSE
    BY <2>0, <2>1, <2>2 DEF RecordOutcome
  <2>3. ASSUME UNCHANGED attempt PROVE FALSE
    BY <2>1, <2>3
  <2>4. ASSUME NEW j \in Issue, StartAttempt(j) PROVE FALSE
    BY <2>0, <2>1, <2>4, CaseAssumption DEF StartAttempt
  <2>5. ASSUME NEW j \in Issue, NEW m \in Ordinal, RecordRun(j, m) PROVE FALSE
    BY <2>0, <2>1, <2>5 DEF RecordRun
  <2>6. CASE ProcessNext
    BY <2>3, <2>6 DEF ProcessNext, Boot, RecoveryList, RecoveryDone, Shutdown, Exit, Crash, Die, caseVars
  <2>7. CASE StartSweep \/ TranslateDone \/ CancelClosed \/ ListQueue \/ SweepDone
         \/ ListFails \/ SweepHangs
    BY <2>3, <2>7 DEF StartSweep, TranslateDone, CancelClosed, ListQueue, SweepDone, ListFails, SweepHangs, caseVars
  <2>8. ASSUME NEW j \in Issue, SweepNext(j) PROVE FALSE
    BY <2>3, <2>4, <2>8 DEF SweepNext, TranslateOpened, TranslateLabeled, TranslateClosed,
       TranslateEnrollment, Triage, Skip, Start, StartUnacknowledged, ApiRunCreate, ApiRun, caseVars,
       NewCase, RecordApproval, RecordTriage, Close
  <2>9. ASSUME NEW j \in Issue, NEW m \in Ordinal, AttemptNext(j, m) PROVE runner[i][n] = "idle"
    <3>1. CASE RecoverOne(j, m)
      BY <1>3, <3>1 DEF RecoverOne, ResInv, Quiescent
    <3>2. CASE RunBegan(j, m)
      BY <2>5, <3>2 DEF RunBegan
    <3>3. CASE Write(j, m)
      BY <1>3, <2>2, <2>3, <3>3 DEF Write, NoRunnerRestarts, caseVars
    <3>4. CASE Backstop(j, m)
      BY <2>2, <2>3, <3>4 DEF Backstop, caseVars
    <3>5. CASE \/ RecoverOneFails(j, m) \/ Register(j, m) \/ Load(j, m) \/ Bail(j, m)
               \/ (\E o \in Outcome \cup {"none"} : Decide(j, m, o)) \/ Unregister(j, m)
               \/ WriteFails(j, m) \/ BackstopFails(j, m) \/ ApiStop(j, m)
      BY <2>3, <3>5 DEF RecoverOneFails, Register, Load, Bail, Decide, Unregister, WriteFails,
         BackstopFails, ApiStop, caseVars
    <3> QED
      BY <2>9, <3>1, <3>2, <3>3, <3>4, <3>5 DEF AttemptNext
  <2> QED
    BY <2>6, <2>7, <2>8, <2>9 DEF ResNext
<1> QED
  BY <1>1, <1>2, <1>3, DaemonInvariant, PTL DEF ResSpec, RecoveryEndsOnlyPrevious
=============================================================================
