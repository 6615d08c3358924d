---------------------------- MODULE DeployProofs ----------------------------
(* Theorems about Deploy, for any runs, deliveries and tags.                  *)
EXTENDS Deploy, FiniteSetTheorems, TLAPS

\* Every step of a handler, of a run and of the host keeps the types.
LEMMA TypeStep == ASSUME DeployTypeOK, [Next]_vars PROVE DeployTypeOK'
<1> USE DeployAssumption DEF DeployTypeOK
<1>1. ASSUME NEW d \in Delivery, Serve(d) PROVE DeployTypeOK'
  <2> USE DEF Goes, DeliveryPc, RunPc, Looking, Run
  <2>1. CASE Arrive(d) \/ Redelivered(d) \/ Older(d) \/ Fetch(d)
    BY <2>1 DEF Arrive, Redelivered, Older, Fetch
  <2>2. CASE InstallDaemon(d)
    BY <2>2 DEF InstallDaemon, Binary
  <2>3. CASE InstallCLI(d)
    BY <2>3 DEF InstallCLI, Binary
  <2>4. CASE InstallFails(d)
    BY <2>4 DEF InstallFails
  <2>5. CASE Look(d) \/ LookAgain(d)
    <3>1. PICK v \in {"look again", "clear", "defer"} : pc' = [pc EXCEPT ![d] = v]
      BY <2>5 DEF Look, LookAgain, IfIdle, IfBusy
    <3>2. /\ pc' \in [Delivery \cup Run -> DeliveryPc \cup RunPc]
          /\ \A e \in Delivery : pc'[e] \in DeliveryPc
          /\ \A j \in Run : pc'[j] \in RunPc
      BY <3>1
    <3>3. UNCHANGED <<tag, mu, installed, pending, version, disk, running, signals, late>>
      BY <2>5 DEF Look, LookAgain
    <3> QED BY <3>2, <3>3
  <2>6. CASE CutOver(d) \/ Defer(d)
    <3>1. signals' \in Nat
      <4>1. signals \in Nat /\ signals' \in {signals, signals + 1}
        BY <2>6 DEF CutOver, Defer
      <4> HIDE DeployAssumption DEF DeployTypeOK
      <4> QED BY <4>1
    <3>3. pending' \in BOOLEAN
      BY <2>6, Zenon DEF CutOver, Defer
    <3>2. /\ pc' = [pc EXCEPT ![d] = "answered"]
          /\ UNCHANGED <<tag, mu, installed, version, disk, running, late>>
      BY <2>6 DEF CutOver, Defer
    <3> QED BY <3>1, <3>3, <3>2
  <2> QED BY <1>1, <2>1, <2>2, <2>3, <2>4, <2>5, <2>6 DEF Serve
<1>2. ASSUME NEW j \in Run, Open(j) \/ Mark(j) \/ End(j) PROVE DeployTypeOK'
  <2> USE DEF Goes, DeliveryPc, RunPc, Looking, Run
  <2>1. CASE Open(j) \/ MaybeRestart(j)
    BY <2>1 DEF Open, MaybeRestart
  <2>2. CASE Mark(j) \/ Unmark(j)
    BY <2>2 DEF Mark, Unmark
  <2>3. CASE Look(j) \/ LookAgain(j)
    <3>1. PICK v \in {"look again", "take", "over"} : pc' = [pc EXCEPT ![j] = v]
      BY <2>3 DEF Look, LookAgain, IfIdle, IfBusy
    <3>2. /\ pc' \in [Delivery \cup Run -> DeliveryPc \cup RunPc]
          /\ \A d \in Delivery : pc'[d] \in DeliveryPc
          /\ \A k \in Run : pc'[k] \in RunPc
      BY <3>1
    <3>3. UNCHANGED <<tag, mu, installed, pending, version, disk, running, signals, late>>
      BY <2>3 DEF Look, LookAgain
    <3> QED BY <3>2, <3>3
  <2>4. CASE Take(j)
    <3>1. signals' \in Nat
      <4>1. signals \in Nat /\ signals' \in {signals, signals + 1}
        BY <2>4 DEF Take
      <4> HIDE DeployAssumption DEF DeployTypeOK
      <4> QED BY <4>1
    <3>3. pending' \in BOOLEAN
      BY <2>4, Zenon DEF Take
    <3>2. /\ pc' = [pc EXCEPT ![j] = "over"]
          /\ UNCHANGED <<tag, mu, installed, version, disk, running, late>>
      BY <2>4 DEF Take
    <3> QED BY <3>1, <3>3, <3>2
  <2> QED BY <1>2, <2>1, <2>2, <2>3, <2>4 DEF End
<1>3. CASE Terminate
  <2>1. /\ pc' \in [Delivery \cup Run -> DeliveryPc \cup RunPc]
        /\ \A d \in Delivery : pc'[d] \in DeliveryPc
        /\ \A j \in Run : pc'[j] \in RunPc
    BY <1>3 DEF Terminate, DeliveryPc, RunPc, Looking, Run
  <2> QED BY <1>3, <2>1 DEF Terminate, NextVersion, Binary
<1>4. CASE UNCHANGED vars
  BY <1>4 DEF vars
<1> QED BY <1>1, <1>2, <1>3, <1>4 DEF Next

\* The first process starts from one release, with nothing installed.
LEMMA TypeInit == ASSUME Init PROVE DeployTypeOK
BY DeployAssumption DEF Init, DeployTypeOK, DeliveryPc, RunPc, Looking, Run, Binary

\* Every variable of the deploy hook keeps its type: the next process is always
\* of a release.
THEOREM TypeCorrect == Spec => []DeployTypeOK
BY TypeInit, TypeStep, PTL DEF Spec

-----------------------------------------------------------------------------

\* Who is installing holds the mutex, and what it installs is not older than
\* what is installed.
InstallInv ==
    /\ \A d \in Delivery : pc[d] \in {"fetching", "fetching more"} =>
          /\ mu = d
          /\ installed = NoTag \/ Newer(tag[d], installed)
    /\ \A d \in Delivery : pc[d] = "fetching more" => disk["autophaged"] = tag[d]

InstalledInv == InstallInv /\ NotBehindInstalled

\* The comparison of ServeHTTP and the mutex over the whole install keep
\* InstalledInv.
LEMMA InstalledStep ==
  ASSUME DeployTypeOK, InstalledInv, [Next]_vars
  PROVE  InstalledInv'
<1> USE DeployAssumption DEF DeployTypeOK, InstalledInv, InstallInv, NotBehindInstalled, Newer
<1>1. ASSUME NEW d \in Delivery, Serve(d) PROVE InstalledInv'
  <2> USE DEF Goes
  <2>1. CASE Arrive(d) \/ Redelivered(d) \/ Older(d)
    BY <2>1 DEF Arrive, Redelivered, Older
  <2>2. CASE Fetch(d)
    BY <2>2 DEF Fetch
  <2>3. CASE InstallDaemon(d)
    <3>1. \A e \in Delivery : pc'[e] \in {"fetching", "fetching more"} => e = d
      BY <2>3 DEF InstallDaemon
    <3>2. disk'["autophaged"] = tag[d]
      BY <2>3 DEF InstallDaemon, Binary
    <3>3. mu = d /\ (installed = NoTag \/ Newer(tag[d], installed))
      BY <2>3 DEF InstallDaemon
    <3>4. UNCHANGED <<tag, mu, installed>>
      BY <2>3 DEF InstallDaemon
    <3>5. InstallInv'
      BY <3>1, <3>2, <3>3, <3>4
    <3>6. ASSUME installed \notin Odd \cup {NoTag}, tag[d] \notin Odd PROVE tag[d] >= installed
      <4>1. installed \in Nat /\ tag[d] \in Nat
        BY <3>6
      <4>2. tag[d] > installed
        BY <3>3, <3>6
      <4> HIDE DeployAssumption DEF DeployTypeOK, InstallInv, Newer
      <4> QED BY <4>1, <4>2
    <3>7. NotBehindInstalled'
      BY <3>2, <3>4, <3>6
    <3> QED BY <3>5, <3>7
  <2>4. CASE InstallCLI(d)
    <3>1. \A e \in Delivery : pc'[e] \notin {"fetching", "fetching more"}
      BY <2>4 DEF InstallCLI
    <3>2. disk'["autophaged"] = disk["autophaged"] /\ disk["autophaged"] = tag[d]
      BY <2>4 DEF InstallCLI, Binary
    <3>3. installed' = tag[d] /\ tag[d] \in Nat
      BY <2>4 DEF InstallCLI
    <3>4. InstallInv'
      BY <3>1
    <3>5. tag[d] >= tag[d]
      <4> HIDE DeployAssumption DEF DeployTypeOK, InstallInv, Newer
      <4> QED BY <3>3
    <3>6. NotBehindInstalled'
      BY <3>2, <3>3, <3>5
    <3> QED BY <3>4, <3>6
  <2>5. CASE InstallFails(d)
    BY <2>5 DEF InstallFails
  <2>6. CASE Look(d) \/ LookAgain(d)
    BY <2>6 DEF Look, LookAgain, IfIdle, IfBusy
  <2>7. CASE CutOver(d) \/ Defer(d)
    BY <2>7 DEF CutOver, Defer
  <2> QED BY <1>1, <2>1, <2>2, <2>3, <2>4, <2>5, <2>6, <2>7 DEF Serve
<1>2. ASSUME NEW j \in Run, Open(j) \/ Mark(j) \/ End(j) PROVE InstalledInv'
  <2> USE DEF Goes, Run
  <2>1. CASE Open(j) \/ MaybeRestart(j) \/ Mark(j) \/ Unmark(j)
    BY <2>1 DEF Open, MaybeRestart, Mark, Unmark
  <2>2. CASE Look(j) \/ LookAgain(j)
    BY <2>2 DEF Look, LookAgain, IfIdle, IfBusy
  <2>3. CASE Take(j)
    BY <2>3 DEF Take
  <2> QED BY <1>2, <2>1, <2>2, <2>3 DEF End
<1>3. CASE Terminate
  <2>1. \A d \in Delivery : pc'[d] \notin {"fetching", "fetching more"}
    BY <1>3 DEF Terminate, Run
  <2> QED BY <1>3, <2>1 DEF Terminate
<1>4. CASE UNCHANGED vars
  BY <1>4 DEF vars
<1> QED BY <1>1, <1>2, <1>3, <1>4 DEF Next

\* What a process installed last is not ahead of the daemon's binary on disk,
\* whatever failed after it.
THEOREM NotBehind == Spec => []NotBehindInstalled
<1>1. Init => InstalledInv
  BY DeployAssumption DEF Init, InstalledInv, InstallInv, NotBehindInstalled, Run
<1>2. DeployTypeOK /\ InstalledInv /\ [Next]_vars => InstalledInv'
  BY InstalledStep
<1>3. InstalledInv => NotBehindInstalled
  BY DEF InstalledInv
<1> QED BY <1>1, <1>2, <1>3, TypeCorrect, PTL DEF Spec

-----------------------------------------------------------------------------

\* A listed run that an idle check or a signal overlooks was marked behind it.
OverlookedInv ==
    \A j \in Run : pc[j] = "running" =>
        /\ j \in running
        /\ signals > 0 \/ (\E x \in Delivery \cup Run : HasLooked(x, j)) => j \in late

\* Idle passes an empty set, and mark notes who looked before it.
LEMMA OverlookedStep ==
  ASSUME DeployTypeOK, OverlookedInv, [Next]_vars
  PROVE  OverlookedInv'
<1> USE DeployAssumption DEF DeployTypeOK, OverlookedInv, HasLooked
<1>1. ASSUME NEW d \in Delivery, Serve(d) PROVE OverlookedInv'
  <2> USE DEF Goes, Run
  <2>1. CASE Arrive(d) \/ Redelivered(d) \/ Older(d) \/ Fetch(d)
    BY <2>1 DEF Arrive, Redelivered, Older, Fetch
  <2>2. CASE InstallDaemon(d) \/ InstallCLI(d) \/ InstallFails(d)
    BY <2>2 DEF InstallDaemon, InstallCLI, InstallFails
  <2>3. CASE Look(d)
    BY <2>3 DEF Look, IfIdle, IfBusy
  <2>4. CASE LookAgain(d)
    BY <2>4 DEF LookAgain, IfIdle, IfBusy
  <2>5. CASE CutOver(d)
    BY <2>5 DEF CutOver
  <2>6. CASE Defer(d)
    BY <2>6 DEF Defer
  <2> QED BY <1>1, <2>1, <2>2, <2>3, <2>4, <2>5, <2>6 DEF Serve
<1>2. ASSUME NEW j \in Run, Open(j) \/ Mark(j) \/ End(j) PROVE OverlookedInv'
  <2> USE DEF Goes, Run
  <2>1. CASE Open(j) \/ MaybeRestart(j)
    BY <2>1 DEF Open, MaybeRestart
  <2>2. CASE Mark(j)
    BY <2>2 DEF Mark
  <2>3. CASE Unmark(j)
    BY <2>3 DEF Unmark
  <2>4. CASE Look(j)
    BY <2>4 DEF Look, IfIdle, IfBusy
  <2>5. CASE LookAgain(j)
    BY <2>5 DEF LookAgain, IfIdle, IfBusy
  <2>6. CASE Take(j)
    BY <2>6 DEF Take
  <2> QED BY <1>2, <2>1, <2>2, <2>3, <2>4, <2>5, <2>6 DEF End
<1>3. CASE Terminate
  BY <1>3 DEF Terminate, Run
<1>4. CASE UNCHANGED vars
  BY <1>4 DEF vars
<1> QED BY <1>1, <1>2, <1>3, <1>4 DEF Next

\* A deploy's restart aborts a listed run only when a sweep marked it after the
\* idle check had read its set: the window that cutOver and MaybeRestart leave.
THEOREM Late == Spec => AbortsAreLate
<1> DEFINE OnlyLate == \A j \in Run : pc'[j] = "aborted" /\ pc[j] = "running" => j \in late
<1>1. Init => OverlookedInv
  BY DeployAssumption DEF Init, OverlookedInv, Run
<1>2. DeployTypeOK /\ OverlookedInv /\ [Next]_vars => OverlookedInv'
  BY OverlookedStep
<1>3. DeployTypeOK /\ OverlookedInv /\ [Next]_vars => [OnlyLate]_vars
  <2> SUFFICES ASSUME DeployTypeOK, OverlookedInv, Next,
                      NEW j \in Run, pc'[j] = "aborted", pc[j] = "running"
               PROVE  j \in late
    OBVIOUS
  <2> USE DeployAssumption DEF DeployTypeOK, Goes, Run
  <2>1. CASE Terminate
    BY <2>1 DEF Terminate, OverlookedInv
  <2>2. ASSUME NEW d \in Delivery, Serve(d) PROVE FALSE
    <3>1. CASE Arrive(d) \/ Redelivered(d) \/ Older(d) \/ Fetch(d) \/ InstallDaemon(d)
      BY <3>1 DEF Arrive, Redelivered, Older, Fetch, InstallDaemon
    <3>2. CASE InstallCLI(d) \/ InstallFails(d) \/ Look(d) \/ LookAgain(d) \/ CutOver(d) \/ Defer(d)
      BY <3>2 DEF InstallCLI, InstallFails, Look, LookAgain, CutOver, Defer, IfIdle, IfBusy
    <3> QED BY <2>2, <3>1, <3>2 DEF Serve
  <2>3. ASSUME NEW k \in Run, Open(k) \/ Mark(k) \/ End(k) PROVE FALSE
    <3>1. CASE Open(k) \/ Mark(k) \/ Unmark(k) \/ MaybeRestart(k)
      BY <3>1 DEF Open, Mark, Unmark, MaybeRestart
    <3>2. CASE Look(k) \/ LookAgain(k) \/ Take(k)
      BY <3>2 DEF Look, LookAgain, Take, IfIdle, IfBusy
    <3> QED BY <2>3, <3>1, <3>2 DEF End
  <2> QED BY <2>1, <2>2, <2>3 DEF Next
<1> QED BY <1>1, <1>2, <1>3, TypeCorrect, PTL DEF Spec, AbortsAreLate

-----------------------------------------------------------------------------

\* The deliveries that were answered with a cut-over, now or later.
Answered == {d \in Delivery : pc[d] = "answered"}

\* cutOver answers its delivery in the step that owes or sends a restart, and
\* MaybeRestart trades what is owed for a signal.
LEMMA PaidStep ==
  ASSUME DeployTypeOK, RestartsArePaid, [Next]_vars
  PROVE  RestartsArePaid'
<1> USE DeployAssumption DEF DeployTypeOK
<1>0. /\ RestartsArePaid = (signals + (IF pending THEN 1 ELSE 0) <= Cardinality(Answered))
      /\ RestartsArePaid' = (signals' + (IF pending' THEN 1 ELSE 0) <= Cardinality(Answered'))
  BY DEF RestartsArePaid, Answered
<1>1. /\ IsFiniteSet(Answered) /\ IsFiniteSet(Answered')
      /\ Cardinality(Answered) \in Nat /\ Cardinality(Answered') \in Nat
  BY FS_Subset, FS_CardinalityType DEF Answered
<1>2. CASE Answered' = Answered /\ UNCHANGED <<pending, signals>>
  BY <1>0, <1>2
<1>3. ASSUME NEW d \in Delivery, CutOver(d) \/ Defer(d) PROVE RestartsArePaid'
  <2>1. Answered' = Answered \cup {d} /\ d \notin Answered
    BY <1>3 DEF CutOver, Defer, Goes, Answered
  <2>2. Cardinality(Answered') = Cardinality(Answered) + 1
    BY <1>1, <2>1, FS_AddElement
  <2> QED BY <1>0, <1>1, <1>3, <2>2 DEF CutOver, Defer
<1>4. ASSUME NEW j \in Run, Take(j) PROVE RestartsArePaid'
  <2>1. Answered' = Answered
    BY <1>4 DEF Take, Goes, Answered, Run
  <2> QED BY <1>0, <1>1, <1>4, <2>1 DEF Take
<1>5. CASE Terminate
  BY <1>0, <1>1, <1>5 DEF Terminate
<1>6. ASSUME NEW d \in Delivery, Serve(d), ~(CutOver(d) \/ Defer(d)) PROVE RestartsArePaid'
  <2>1. CASE Arrive(d) \/ Redelivered(d) \/ Older(d) \/ Fetch(d)
    BY <1>2, <2>1 DEF Arrive, Redelivered, Older, Fetch, Goes, Answered
  <2>2. CASE InstallDaemon(d) \/ InstallCLI(d) \/ InstallFails(d)
    BY <1>2, <2>2 DEF InstallDaemon, InstallCLI, InstallFails, Goes, Answered
  <2>3. CASE Look(d) \/ LookAgain(d)
    BY <1>2, <2>3 DEF Look, LookAgain, IfIdle, IfBusy, Goes, Answered
  <2> QED BY <1>6, <2>1, <2>2, <2>3 DEF Serve
<1>7. ASSUME NEW j \in Run, Open(j) \/ Mark(j) \/ End(j), ~Take(j) PROVE RestartsArePaid'
  <2>1. CASE Open(j) \/ Mark(j) \/ Unmark(j) \/ MaybeRestart(j)
    BY <1>2, <2>1 DEF Open, Mark, Unmark, MaybeRestart, Goes, Answered, Run
  <2>2. CASE Look(j) \/ LookAgain(j)
    BY <1>2, <2>2 DEF Look, LookAgain, IfIdle, IfBusy, Goes, Answered, Run
  <2> QED BY <1>7, <2>1, <2>2 DEF End
<1>8. CASE UNCHANGED vars
  BY <1>2, <1>8 DEF vars, Answered
<1> QED BY <1>3, <1>4, <1>5, <1>6, <1>7, <1>8 DEF Next

\* One restart for one delivery, however many runs end at once.
THEOREM Paid == Spec => []RestartsArePaid
<1>1. Init => RestartsArePaid
  <2> SUFFICES ASSUME Init PROVE RestartsArePaid
    OBVIOUS
  <2>1. Cardinality({d \in Delivery : pc[d] = "answered"}) \in Nat
    BY DeployAssumption, FS_Subset, FS_CardinalityType
  <2> QED BY <2>1 DEF Init, RestartsArePaid
<1>2. DeployTypeOK /\ RestartsArePaid /\ [Next]_vars => RestartsArePaid'
  BY PaidStep
<1> QED BY <1>1, <1>2, TypeCorrect, PTL DEF Spec
=============================================================================
