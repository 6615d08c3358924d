---------------------------- MODULE InboxProofs ----------------------------
(***************************************************************************)
(* Theorems about Inbox, for any finite set of issues and any bounds: the  *)
(* log may be of any length.  What the log says is a function defined by   *)
(* recursion on the prefix; the facts about it are proved by induction,    *)
(* which SetInduction states for a set.                                    *)
(*                                                                         *)
(* FollowsLog is not inductive.  Behind adds why a replay changes nothing  *)
(* (the last delivery's effect is there, an older one is a recorded label) *)
(* and that the last delivery was listed, so that what is stored later     *)
(* comes after it; Sweeping why nothing overtakes: the list holds          *)
(* everything that is older than what it holds and is not done with.       *)
(***************************************************************************)
EXTENDS Inbox, CaseProofs, SequenceTheorems, WellFoundedInduction

-----------------------------------------------------------------------------
\* Induction over the natural numbers, for a set instead of a predicate: the
\* least number outside the set has a predecessor in it.
LEMMA Least ==
  ASSUME NEW T \in SUBSET Nat, T # {}
  PROVE  \E n \in T : \A m \in T : n <= m
<1> DEFINE R == OpToRel(<, Nat)
<1>1. PICK n \in T : \A m \in T : <<m, n>> \notin R
  <2>1. IsWellFoundedOn(R, Nat)
    BY NatLessThanWellFounded
  <2> HIDE DEF R
  <2> QED
    BY <2>1, WFMin
<1>2. \A m \in T : ~(m < n)
  BY <1>1 DEF OpToRel
<1> QED
  BY <1>2

LEMMA SetInduction ==
  ASSUME NEW S, 0 \in S, \A n \in Nat : n \in S => n + 1 \in S
  PROVE  Nat \subseteq S
<1> DEFINE T == Nat \ S
<1> SUFFICES ASSUME T # {} PROVE FALSE
  OBVIOUS
<1>1. T \in SUBSET Nat
  OBVIOUS
<1>2. PICK n \in T : \A m \in T : n <= m
  <2> HIDE DEF T
  <2> QED
    BY <1>1, Least
<1>3. n \in Nat /\ n # 0
  OBVIOUS
<1>4. n - 1 \in Nat /\ n - 1 < n /\ (n - 1) + 1 = n
  BY <1>3
<1>5. n - 1 \in S
  BY <1>2, <1>4
<1>6. (n - 1) + 1 \in S
  BY <1>4, <1>5
<1> QED
  BY <1>4, <1>6

\* The fold of a log, as the function that its recursive definition says.
\* A delivery that is not in s says nothing.
Told(l, s) ==
    LET told[n \in 0..Len(l)] ==
            IF n = 0 THEN Blank
            ELSE IF n \in s THEN Effect(told[n - 1], l[n]) ELSE told[n - 1]
    IN  told

Adds(v, l, s, n) == IF n \in s THEN Effect(v, l[n]) ELSE v

IsTold(f, l, s, k) == f = [n \in 0..k |-> IF n = 0 THEN Blank ELSE Adds(f[n - 1], l, s, n)]

LEMMA AfterIsTold == After = Told(log, stored)
BY DEF After, Told

LEMMA AfterIsToldNext == After' = Told(log', stored')
BY DEF After, Told

LEMMA ToldExists ==
  ASSUME NEW l, NEW s
  PROVE  \A k \in Nat : \E f : IsTold(f, l, s, k)
<1> DEFINE S == {k \in Nat : \E f : IsTold(f, l, s, k)}
<1>1. 0 \in S
  <2>1. IsTold([n \in 0..0 |-> Blank], l, s, 0)
    BY DEF IsTold
  <2> QED
    BY <2>1
<1>2. ASSUME NEW k \in Nat, k \in S PROVE k + 1 \in S
  <2>1. PICK f : IsTold(f, l, s, k)
    BY <1>2
  <2> DEFINE g == [n \in 0..(k + 1) |-> IF n = k + 1 THEN Adds(f[k], l, s, k + 1) ELSE f[n]]
  <2>2. \A n \in 0..k : f[n] = IF n = 0 THEN Blank ELSE Adds(f[n - 1], l, s, n)
    BY <2>1 DEF IsTold
  <2>3. ASSUME NEW n \in 0..(k + 1)
        PROVE  g[n] = IF n = 0 THEN Blank ELSE Adds(g[n - 1], l, s, n)
    <3>1. CASE n = k + 1
      <4>1. n - 1 = k /\ n # 0 /\ k \in 0..(k + 1) /\ k # k + 1
        BY <3>1
      <4>2. g[k] = f[k]
        BY <4>1
      <4> QED
        BY <3>1, <4>1, <4>2
    <3>2. CASE n # k + 1
      <4>1. n \in 0..k
        BY <3>2
      <4>2. g[n] = f[n]
        BY <3>2
      <4>3. n # 0 => n - 1 \in 0..(k + 1) /\ n - 1 # k + 1
        BY <4>1
      <4>4. n # 0 => g[n - 1] = f[n - 1]
        BY <4>3
      <4> HIDE DEF g
      <4> QED
        BY <2>2, <4>1, <4>2, <4>4
    <3> QED
      BY <3>1, <3>2
  <2>4. IsTold(g, l, s, k + 1)
    <3>1. g = [n \in 0..(k + 1) |-> g[n]]
      OBVIOUS
    <3> HIDE DEF g
    <3> QED
      BY <2>3, <3>1 DEF IsTold
  <2> QED
    BY <2>4
<1> HIDE DEF S
<1>3. Nat \subseteq S
  BY <1>1, <1>2, SetInduction
<1> QED
  BY <1>3 DEF S

LEMMA ToldIs ==
  ASSUME NEW l, NEW s, Len(l) \in Nat
  PROVE  /\ Told(l, s)[0] = Blank
         /\ \A n \in 1..Len(l) : Told(l, s)[n] = Adds(Told(l, s)[n - 1], l, s, n)
<1>1. \E f : IsTold(f, l, s, Len(l))
  BY ToldExists
<1>2. Told(l, s) = CHOOSE f : IsTold(f, l, s, Len(l))
  BY DEF Told, IsTold, Adds
<1>3. IsTold(Told(l, s), l, s, Len(l))
  BY <1>1, <1>2
<1> QED
  BY <1>3 DEF IsTold

\* What a delivery names, and what a view of the log is.
Addresses(e) == e.kind \in {"opened", "labeled", "closed"} => e.issue \in Issue

View == [repo : {"unknown", "enrolled", "removed"}, id : Nat, known : [Issue -> BOOLEAN],
         labels : [Issue -> Nat], closed : [Issue -> BOOLEAN]]

\* Only a known case is closed.
Sound(s) == s \in View /\ \A i \in Issue : s.closed[i] => s.known[i]

\* A delivery's effect, field by field.
EffectFields(s, e, t) ==
    /\ e.kind = "added" =>
          t.repo = "enrolled" /\ t.id = e.id /\ t.known = s.known /\ t.labels = s.labels
            /\ t.closed = s.closed
    /\ e.kind = "removed" =>
          /\ t.repo = IF s.repo = "unknown" THEN "unknown" ELSE "removed"
          /\ t.id = s.id /\ t.known = s.known /\ t.labels = s.labels /\ t.closed = s.closed
    /\ e.kind = "opened" =>
          /\ t.repo = s.repo /\ t.id = s.id /\ t.labels = s.labels /\ t.closed = s.closed
          /\ t.known = IF s.repo = "enrolled" THEN [s.known EXCEPT ![e.issue] = TRUE] ELSE s.known
    /\ e.kind = "labeled" =>
          /\ t.repo = s.repo /\ t.id = s.id /\ t.closed = s.closed
          /\ IF s.repo = "enrolled" /\ ~s.closed[e.issue]
             THEN /\ t.known = [s.known EXCEPT ![e.issue] = TRUE]
                  /\ t.labels = [s.labels EXCEPT ![e.issue] = @ + 1]
             ELSE t.known = s.known /\ t.labels = s.labels
    /\ e.kind = "closed" =>
          /\ t.repo = s.repo /\ t.id = s.id /\ t.known = s.known /\ t.labels = s.labels
          /\ t.closed = IF s.known[e.issue] THEN [s.closed EXCEPT ![e.issue] = TRUE] ELSE s.closed

LEMMA EffectIs ==
  ASSUME NEW s \in View, NEW e \in Delivery, Addresses(e), NEW t, t = Effect(s, e)
  PROVE  EffectFields(s, e, t) /\ t \in View
<1> USE DEF EffectFields, View, Delivery, Kind, Addresses
<1>1. CASE e.kind = "added"
  BY <1>1 DEF Effect
<1>2. CASE e.kind = "removed"
  BY <1>2 DEF Effect
<1>3. CASE e.kind = "opened"
  BY <1>3 DEF Effect
<1>4. CASE e.kind = "labeled"
  <2>1. e.issue \in Issue
    BY <1>4
  <2>2. CASE s.repo = "enrolled" /\ ~s.closed[e.issue]
    <3>1. t = [s EXCEPT !.known[e.issue] = TRUE, !.labels[e.issue] = @ + 1]
      BY <1>4, <2>2 DEF Effect
    <3>2. /\ t.known = [s.known EXCEPT ![e.issue] = TRUE]
          /\ t.labels = [s.labels EXCEPT ![e.issue] = @ + 1]
          /\ t.repo = s.repo /\ t.id = s.id /\ t.closed = s.closed
      BY <3>1
    <3>3. t.known \in [Issue -> BOOLEAN] /\ t.labels \in [Issue -> Nat]
      BY <2>1, <3>2
    <3>4. t = [repo |-> t.repo, id |-> t.id, known |-> t.known, labels |-> t.labels, closed |-> t.closed]
      BY <3>1
    <3>5. t \in View
      BY <3>2, <3>3, <3>4
    <3> QED
      BY <1>4, <2>2, <3>2, <3>5
  <2>3. CASE ~(s.repo = "enrolled" /\ ~s.closed[e.issue])
    BY <1>4, <2>3 DEF Effect
  <2> QED
    BY <2>2, <2>3
<1>5. CASE e.kind = "closed"
  BY <1>5 DEF Effect
<1> QED
  BY <1>1, <1>2, <1>3, <1>4, <1>5

LEMMA EffectSound ==
  ASSUME NEW s, Sound(s), NEW e \in Delivery, Addresses(e)
  PROVE  Sound(Effect(s, e))
<1> DEFINE t == Effect(s, e)
<1>1. s \in View
  BY DEF Sound
<1> HIDE DEF t
<1>2. t = Effect(s, e)
  BY DEF t
<1>3. t \in View
  BY <1>1, <1>2, EffectIs
<1>4. ASSUME NEW i \in Issue, t.closed[i] PROVE t.known[i]
  <2>1. /\ s.known \in [Issue -> BOOLEAN] /\ s.closed \in [Issue -> BOOLEAN]
        /\ s.closed[i] => s.known[i]
    BY DEF Sound, View
  <2>0. EffectFields(s, e, t)
    BY <1>1, <1>2, EffectIs
  <2>2. \/ t.known = s.known /\ t.closed = s.closed
        \/ /\ e.issue \in Issue /\ t.closed = s.closed
           /\ t.known = [s.known EXCEPT ![e.issue] = TRUE]
        \/ /\ e.issue \in Issue /\ s.known[e.issue] /\ t.known = s.known
           /\ t.closed = [s.closed EXCEPT ![e.issue] = TRUE]
    <3>1. /\ e.kind \in {"added", "removed", "opened", "labeled", "closed"}
          /\ e.kind \in {"opened", "labeled", "closed"} => e.issue \in Issue
      BY DEF Addresses, Delivery, Kind
    <3> QED
      BY <2>0, <3>1 DEF EffectFields
  <2> QED
    BY <1>4, <2>1, <2>2
<1> QED
  BY <1>2, <1>3, <1>4 DEF Sound

\* A log of deliveries that name issues.
Log == {l \in Seq(Delivery) : \A d \in 1..Len(l) : Addresses(l[d])}

LEMMA ToldSound ==
  ASSUME NEW l \in Log, NEW s
  PROVE  \A n \in 0..Len(l) : Sound(Told(l, s)[n])
<1> DEFINE S == {n \in Nat : n <= Len(l) => Sound(Told(l, s)[n])}
<1>0. Len(l) \in Nat /\ \A d \in 1..Len(l) : l[d] \in Delivery /\ Addresses(l[d])
  BY ElementOfSeq DEF Log
<1>1. 0 \in S
  <2>1. Sound(Blank)
    BY DEF Sound, View, Blank
  <2> QED
    BY <1>0, <2>1, ToldIs
<1>2. ASSUME NEW n \in Nat, n \in S PROVE n + 1 \in S
  <2> SUFFICES ASSUME n + 1 <= Len(l) PROVE Sound(Told(l, s)[n + 1])
    OBVIOUS
  <2>1. n + 1 \in 1..Len(l) /\ (n + 1) - 1 = n /\ n <= Len(l)
    BY <1>0
  <2>2. Sound(Told(l, s)[n])
    BY <1>2, <2>1
  <2>3. Told(l, s)[n + 1] = Adds(Told(l, s)[n], l, s, n + 1)
    BY <1>0, <2>1, ToldIs
  <2> QED
    BY <1>0, <2>1, <2>2, <2>3, EffectSound DEF Adds
<1> HIDE DEF S
<1>3. Nat \subseteq S
  BY <1>1, <1>2, SetInduction
<1> QED
  BY <1>0, <1>3 DEF S

\* What was said is not unsaid: two logs that agree on the first k deliveries,
\* and on which of them are stored, say the same so far.
LEMMA ToldAgrees ==
  ASSUME NEW l, NEW s, NEW m, NEW z, NEW k \in Nat,
         Len(l) \in Nat, Len(m) \in Nat, k <= Len(l), k <= Len(m),
         \A d \in 1..k : m[d] = l[d] /\ (d \in z <=> d \in s)
  PROVE  \A n \in 0..k : Told(m, z)[n] = Told(l, s)[n]
<1> DEFINE S == {n \in Nat : n <= k => Told(m, z)[n] = Told(l, s)[n]}
<1>1. 0 \in S
  BY ToldIs
<1>2. ASSUME NEW n \in Nat, n \in S PROVE n + 1 \in S
  <2> SUFFICES ASSUME n + 1 <= k PROVE Told(m, z)[n + 1] = Told(l, s)[n + 1]
    OBVIOUS
  <2>1. /\ n + 1 \in 1..Len(l) /\ n + 1 \in 1..Len(m) /\ n + 1 \in 1..k
        /\ (n + 1) - 1 = n /\ n <= k
    OBVIOUS
  <2>2. Told(m, z)[n] = Told(l, s)[n]
    BY <1>2, <2>1
  <2>3. Told(l, s)[n + 1] = Adds(Told(l, s)[n], l, s, n + 1)
    BY <2>1, ToldIs
  <2>4. Told(m, z)[n + 1] = Adds(Told(m, z)[n], m, z, n + 1)
    BY <2>1, ToldIs
  <2> QED
    BY <2>1, <2>2, <2>3, <2>4 DEF Adds
<1> HIDE DEF S
<1>3. Nat \subseteq S
  BY <1>1, <1>2, SetInduction
<1> QED
  BY <1>3 DEF S

\* Where nothing is stored nothing is said.
LEMMA ToldGap ==
  ASSUME NEW l, NEW s, Len(l) \in Nat, NEW n \in Nat, NEW k \in n..Len(l),
         s \cap (n + 1)..k = {}
  PROVE  Told(l, s)[k] = Told(l, s)[n]
<1> DEFINE S == {m \in Nat : n <= m /\ m <= k => Told(l, s)[m] = Told(l, s)[n]}
<1>1. 0 \in S
  OBVIOUS
<1>2. ASSUME NEW m \in Nat, m \in S PROVE m + 1 \in S
  <2> SUFFICES ASSUME n <= m + 1, m + 1 <= k, n # m + 1 PROVE Told(l, s)[m + 1] = Told(l, s)[n]
    OBVIOUS
  <2>1. /\ m + 1 \in 1..Len(l) /\ m + 1 \in (n + 1)..k /\ (m + 1) - 1 = m
        /\ n <= m /\ m <= k
    OBVIOUS
  <2>2. Told(l, s)[m] = Told(l, s)[n]
    BY <1>2, <2>1
  <2>3. Told(l, s)[m + 1] = Adds(Told(l, s)[m], l, s, m + 1)
    BY <2>1, ToldIs
  <2> QED
    BY <2>1, <2>2, <2>3 DEF Adds
<1> HIDE DEF S
<1>3. Nat \subseteq S
  BY <1>1, <1>2, SetInduction
<1> QED
  BY <1>3 DEF S
-----------------------------------------------------------------------------

\* The one end of a case here is its issue's closing.
Ended == \A i \in Issue : state[i] # "done"

\* An approval is recorded for a label's delivery, of a case that exists, and
\* each one only once.
Approving(i) == {d \in approvedBy : log[d].issue = i}

Approved ==
    /\ \A d \in approvedBy : log[d].kind = "labeled" /\ state[log[d].issue] # "absent"
    /\ \A i \in Issue : approvals[i] = Cardinality(Approving(i))

\* What the translate step has still to visit has no row; while no failure let
\* a delivery go first, what is older and not done with is still to be visited
\* too.
Sweeping ==
    /\ todo \cap processed = {}
    /\ step # "translate" => todo = {}
    /\ ~skipped => \A e \in Unprocessed \ approvedBy, d \in todo : e < d => e \in todo

\* A runner has read the row of a repository that was enrolled.
Refreshing == refresh # {} => enrollment # "unknown"

\* A case that the n-th delivery does not know yet: the first transaction of the
\* next stored delivery, a label, made it, and everything before is done with.
Early(n, i) == state[i] # "absent" /\ ~After[n].known[i]

\* The store follows the log up to its n-th delivery: FollowsLog's prefix, and
\* what makes the replay of the n-th delivery change nothing.
Behind(n) ==
    /\ Says(n)
    /\ n = 0 \/ n \in listed
    /\ processed \subseteq 1..n /\ approvedBy \subseteq 1..n /\ recording \subseteq 1..n
    /\ stored \cap 1..(n - 1) \subseteq processed \cup approvedBy
    /\ \A i \in Issue : Early(n, i) =>
          /\ enrollment = "enrolled" /\ stored \cap 1..n \subseteq processed \cup approvedBy
          /\ \E d \in listed : Follows(n, d) /\ log[d].kind = "labeled" /\ log[d].issue = i
    /\ n > 0 /\ log[n].kind = "labeled" /\ enrollment = "enrolled"
             /\ ~After[n].closed[log[n].issue] => n \in approvedBy

Following == ~skipped /\ ~overruled => \E n \in 0..Len(log) : Behind(n)

InboxInv ==
    CaseInv /\ InboxTypeOK /\ log \in Log /\ NoLostWakeup /\ Ended /\ Approved /\ Sweeping
      /\ Refreshing /\ Following

\* What is stored is a delivery that names an issue or the installation.
LEMMA StoredIs ==
  ASSUME log \in Log
  PROVE  /\ Len(log) \in Nat
         /\ \A d \in Stamped : log[d] \in Delivery /\ log[d].kind \in Kind /\ log[d].id \in Nat
         /\ \A d \in Stamped : log[d].kind \in {"opened", "labeled", "closed"} => log[d].issue \in Issue
<1>1. Len(log) \in Nat /\ \A d \in Stamped : log[d] \in Delivery /\ Addresses(log[d])
  BY ElementOfSeq DEF Log, Stamped
<1> QED
  BY <1>1 DEF Addresses, Delivery

\* A stored delivery has a place in the log.
LEMMA StoredPlace ==
  ASSUME log \in Log, InboxTypeOK
  PROVE  /\ stored \subseteq Stamped /\ arriving \subseteq Stamped /\ listed \subseteq Stamped
         /\ \A d \in Stamped : d \in Nat /\ d >= 1 /\ d <= Len(log) /\ d - 1 \in 0..Len(log)
BY StoredIs DEF InboxTypeOK, Stamped

LEMMA InboxInitInv == InboxInit => InboxInv
<1> SUFFICES ASSUME InboxInit PROVE InboxInv
  OBVIOUS
<1>1. CaseInv
  BY InitInv DEF InboxInit
<1>2. TypeOK
  BY <1>1 DEF CaseInv
<1>3. log = <<>> /\ Len(log) = 0 /\ Stamped = {} /\ stored = {} /\ arriving = {} /\ log \in Seq(Delivery) /\ log \in Log
  BY DEF InboxInit, Stamped, Log
<1>4. InboxTypeOK
  <2>1. 0 \in 0..MaxFailures /\ installed \in 0..installs
    BY InboxAssumption DEF InboxInit, InboxAssumption
  <2> QED
    BY <1>2, <1>3, <2>1 DEF InboxInit, InboxTypeOK
<1>5. NoLostWakeup /\ Ended /\ Sweeping /\ Refreshing
  BY DEF InboxInit, Init, NoLostWakeup, Ended, Sweeping, Refreshing
<1>6. Approved
  <2>1. \A i \in Issue : Approving(i) = {}
    BY DEF InboxInit, Approving
  <2> QED
    BY <2>1, FS_EmptySet DEF InboxInit, Init, Approved
<1>7. Following
  <2>1. After[0] = Blank
    BY <1>3, ToldIs, AfterIsTold
  <2>2. Says(0)
    BY <1>3, <2>1 DEF Says, Blank, InboxInit, Init
  <2>3. Behind(0)
    BY <2>2 DEF Behind, Early, InboxInit, Init
  <2> QED
    BY <1>3, <2>3 DEF Following
<1> QED
  BY <1>1, <1>3, <1>4, <1>5, <1>6, <1>7 DEF InboxInv

-----------------------------------------------------------------------------

\* The sweep reaches a case by its commands only, GitHub and the rest do not.
LEMMA InboxCaseStep == ASSUME log \in Log, InboxTypeOK, [InboxNext]_vars PROVE [Next]_caseVars
<1>1. CASE GitHubNext
  BY <1>1 DEF GitHubNext, AppInstalled, AppRemoved, BranchRenamed, IssueEvents, IssueEvent,
      StoreDelivery, StoreFails, GitHubUnchanged
<1>2. CASE WakeNext
  BY <1>2 DEF WakeNext, Boot, Crash, Disconnect, Reconnect, Notify, Tick, StoreUnchanged
<1>3. CASE BootSweep \/ StartSweep \/ ApiSweep \/ TranslateDone \/ Enroll \/ SweepHangs
  BY <1>3 DEF BootSweep, StartSweep, ApiSweep, ListDeliveries, Lists, ListFails, StoreUnchanged,
      TranslateDone, Enroll, SweepHangs
<1>4. ASSUME NEW d \in stored, Translate(d) PROVE [Next]_caseVars
  <2>1. CASE TranslateAdded(d) \/ TranslateRemoved(d) \/ LabelRefused(d)
    BY <2>1 DEF TranslateAdded, TranslateRemoved, LabelRefused
  <2>2. CASE \/ TranslateOpened(d) \/ TranslateClosed(d) \/ OpenForLabel(d) \/ Approve(d)
    <3>1. log[d].issue \in Issue
      BY <1>4, <2>2, StoredIs, StoredPlace DEF TranslateOpened, TranslateClosed, OpenForLabel, Approve
    <3> DEFINE i == log[d].issue
    <3> HIDE DEF i
    <3>2. NewCase(i) \/ RecordApproval(i) \/ Close(i) \/ UNCHANGED caseVars
      BY <2>2 DEF TranslateOpened, TranslateClosed, OpenForLabel, Approve, i
    <3> QED
      BY <3>1, <3>2 DEF Next, i
  <2> QED
    BY <1>4, <2>1, <2>2 DEF Translate
<1>5. ASSUME NEW d \in stored,
             TranslateFails(d) \/ TranslatePoisoned(d) \/ Record(d) \/ RecordFails(d)
      PROVE  [Next]_caseVars
  BY <1>5 DEF TranslateFails, TranslatePoisoned, Record, RecordFails, LeaveUnprocessed
<1>6. CASE RefreshNext
  BY <1>6 DEF RefreshNext, RefreshReads, RefreshWrites, StoreUnchanged
<1>7. CASE UNCHANGED vars
  BY <1>7 DEF vars
<1> QED
  BY <1>1, <1>2, <1>3, <1>4, <1>5, <1>6, <1>7 DEF InboxNext, SweepNext, Process

\* A delivery that gets its received_at joins the log's end.
LEMMA StoreAppends ==
  ASSUME log \in Log, NEW e \in Delivery, Addresses(e), log' = Append(log, e)
  PROVE  /\ log' \in Log /\ Len(log') = Len(log) + 1
         /\ Stamped' = Stamped \cup {Len(log) + 1}
         /\ log'[Len(log) + 1] = e
         /\ \A d \in Stamped : log'[d] = log[d]
<1>1. log \in Seq(Delivery) /\ Len(log) \in Nat
  BY LenProperties DEF Log
<1>2. /\ log' \in Seq(Delivery) /\ Len(log') = Len(log) + 1
      /\ log'[Len(log) + 1] = e
      /\ \A d \in 1..Len(log) : log'[d] = log[d]
  BY <1>1, AppendProperties
<1>3. \A d \in 1..Len(log) : Addresses(log[d])
  BY DEF Log
<1>4. 1..Len(log') = 1..Len(log) \cup {Len(log) + 1}
  BY <1>1, <1>2
<1>5. \A d \in 1..Len(log') : Addresses(log'[d])
  BY <1>2, <1>3, <1>4
<1>6. log' \in Log
  BY <1>2, <1>5 DEF Log
<1> QED
  BY <1>2, <1>4, <1>6 DEF Stamped

\* GitHub's steps: a delivery that is received, stored or lost, and the branch's
\* new name.
LEMMA GitHubSteps ==
  ASSUME InboxTypeOK, GitHubNext
  PROVE  /\ installs' \in Nat /\ installed' \in 0..installs'
         /\ onGitHub' \in [Issue -> {"none", "overtaken", "open", "closed"}]
         /\ \/ \E e \in Delivery : Addresses(e) /\ Receive(e) /\ GitHubUnchanged
            \/ DeliveryLost /\ GitHubUnchanged
            \/ BranchRenamed
            \/ \E d \in arriving : StoreDelivery(d) \/ StoreFails(d)
<1> USE DEF InboxTypeOK
<1>1. CASE AppInstalled
  <2> DEFINE e == [kind |-> "added", issue |-> 0, id |-> installs + 1]
  <2>1. e \in Delivery /\ Addresses(e) /\ installs + 1 \in 0..(installs + 1) /\ installs + 1 \in Nat
    BY DEF Delivery, Kind, Addresses
  <2>2. (Receive(e) \/ DeliveryLost) /\ GitHubUnchanged
    BY <1>1 DEF AppInstalled
  <2> QED
    BY <1>1, <2>1, <2>2 DEF AppInstalled
<1>2. CASE AppRemoved
  <2> DEFINE e == [kind |-> "removed", issue |-> 0, id |-> installed]
  <2>1. e \in Delivery /\ Addresses(e) /\ 0 \in 0..installs
    BY DEF Delivery, Kind, Addresses
  <2>2. (Receive(e) \/ DeliveryLost) /\ GitHubUnchanged
    BY <1>2 DEF AppRemoved
  <2> QED
    BY <1>2, <2>1, <2>2 DEF AppRemoved
<1>3. ASSUME NEW i \in Issue, IssueEvents(i)
      PROVE  /\ installs' \in Nat /\ installed' \in 0..installs'
             /\ onGitHub' \in [Issue -> {"none", "overtaken", "open", "closed"}]
             /\ \/ \E e \in Delivery : Addresses(e) /\ Receive(e) /\ GitHubUnchanged
                \/ DeliveryLost /\ GitHubUnchanged
  <2>1. PICK k \in {"opened", "labeled", "closed"}, to \in {"overtaken", "open", "closed"} :
           /\ onGitHub' = [onGitHub EXCEPT ![i] = to]
           /\ Receive([kind |-> k, issue |-> i, id |-> 0]) \/ DeliveryLost
           /\ UNCHANGED <<installed, installs>>
           /\ GitHubUnchanged
    BY <1>3 DEF IssueEvents, IssueEvent
  <2> DEFINE e == [kind |-> k, issue |-> i, id |-> 0]
  <2>2. e \in Delivery /\ Addresses(e)
    BY DEF Delivery, Kind, Addresses
  <2> QED
    BY <2>1, <2>2
<1>4. CASE BranchRenamed
  BY <1>4 DEF BranchRenamed, githubVars
<1>5. ASSUME NEW d \in arriving, StoreDelivery(d) \/ StoreFails(d)
      PROVE  UNCHANGED <<installs, installed, onGitHub>>
  BY <1>5 DEF StoreDelivery, StoreFails, githubVars
<1> QED
  BY <1>1, <1>2, <1>3, <1>4, <1>5 DEF GitHubNext

LEMMA InboxTypeStep ==
  ASSUME InboxTypeOK, log \in Log, TypeOK', Sweeping, [InboxNext]_vars
  PROVE  InboxTypeOK' /\ log' \in Log
<1> USE DEF InboxTypeOK, githubVars, logVars, repoVars, wakeVars, sweepVars, budgetVars
<1>0. failures < MaxFailures => failures + 1 \in 0..MaxFailures
  BY InboxAssumption DEF InboxAssumption
<1>1. CASE GitHubNext
  <2>1. ASSUME NEW e \in Delivery, Addresses(e), Receive(e), GitHubUnchanged
        PROVE  InboxTypeOK' /\ log' \in Log
    <3>1. log' = Append(log, e)
      BY <2>1 DEF Receive
    <3>2. log' \in Log /\ Stamped' = Stamped \cup {Len(log) + 1} /\ log' \in Seq(Delivery)
      BY <2>1, <3>1, StoreAppends DEF Log
    <3>3. arriving' \subseteq Stamped' /\ stored' \subseteq Stamped' \ arriving'
      <4>1. Len(log) + 1 \notin Stamped
        BY StoredIs DEF Stamped
      <4>2. arriving' = arriving \cup {Len(log) + 1} /\ stored' = stored
        BY <2>1 DEF Receive
      <4> QED
        BY <3>2, <4>1, <4>2
    <3> QED
      BY <1>1, <2>1, <3>2, <3>3, GitHubSteps DEF Receive, GitHubUnchanged
  <2>2. CASE DeliveryLost /\ GitHubUnchanged
    <3>1. failures' \in 0..MaxFailures
      BY <1>0, <2>2 DEF DeliveryLost, FailsElsewhere, Fails
    <3>2. UNCHANGED <<logVars, wakeVars, skipped>> /\ GitHubUnchanged
      BY <2>2 DEF DeliveryLost, FailsElsewhere, Fails
    <3>3. Stamped' = Stamped
      BY <3>2 DEF Stamped
    <3> QED
      BY <1>1, <3>1, <3>2, <3>3, GitHubSteps DEF GitHubUnchanged
  <2>3. CASE BranchRenamed
    <3>1. refresh' \subseteq [id : Nat, stale : BOOLEAN]
      BY <2>3 DEF BranchRenamed
    <3> QED
      BY <2>3, <3>1 DEF BranchRenamed, Stamped
  <2>4. ASSUME NEW d \in arriving, StoreDelivery(d) \/ StoreFails(d)
        PROVE  InboxTypeOK' /\ log' \in Log
    <3>1. /\ arriving' = arriving \ {d} /\ log' = log /\ Stamped' = Stamped
          /\ stored' = stored \/ stored' = stored \cup {d}
      BY <2>4 DEF StoreDelivery, StoreFails, Stamped
    <3>2. arriving' \subseteq Stamped' /\ stored' \subseteq Stamped' \ arriving'
      BY <3>1
    <3>3. /\ owed' \subseteq stored' /\ missed' \subseteq owed'
          /\ notified' \in BOOLEAN /\ listening' \in BOOLEAN /\ wake' \in BOOLEAN
      BY <2>4 DEF StoreDelivery, StoreFails
    <3>4. failures' \in 0..MaxFailures /\ skipped' \in BOOLEAN
      BY <1>0, <2>4 DEF StoreDelivery, StoreFails, FailsElsewhere, Fails
    <3>5. GitHubUnchanged
      BY <2>4 DEF StoreDelivery, StoreFails
    <3> QED
      BY <1>1, <3>1, <3>2, <3>3, <3>4, <3>5, GitHubSteps DEF GitHubUnchanged
  <2> QED
    BY <1>1, <2>1, <2>2, <2>3, <2>4, GitHubSteps
<1>2. CASE WakeNext
  <2>1. failures' \in 0..MaxFailures
    BY <1>0, <1>2
    DEF WakeNext, Boot, Crash, Disconnect, Reconnect, Notify, Tick, FailsElsewhere, Fails
  <2>2. CASE Crash
    BY <2>1, <2>2 DEF Crash, FailsElsewhere, StoreUnchanged, Stamped
  <2>3. CASE Boot \/ Reconnect \/ Notify \/ Tick
    <3>1. /\ daemon' \in {"down", "booting", "up"} /\ listening' \in BOOLEAN
          /\ notified' \in BOOLEAN /\ wake' \in BOOLEAN
      BY <2>3 DEF Boot, Reconnect, Notify, Tick
    <3>2. UNCHANGED <<owed, missed, sweepVars, refresh, budgetVars>> /\ StoreUnchanged
      BY <2>3 DEF Boot, Reconnect, Notify, Tick
    <3> QED
      BY <3>1, <3>2 DEF StoreUnchanged, Stamped
  <2>4. CASE Disconnect
    BY <2>1, <2>4 DEF Disconnect, FailsElsewhere, StoreUnchanged, Stamped
  <2> QED
    BY <1>2, <2>2, <2>3, <2>4 DEF WakeNext
<1>3. CASE BootSweep \/ StartSweep \/ ApiSweep
  <2>0. todo = {} /\ recording = {}
    BY <1>3 DEF BootSweep, StartSweep, ApiSweep, ListDeliveries, Lists, ListFails, Sweeping
  <2>1. daemon' \in {"down", "booting", "up"} /\ wake' \in BOOLEAN
    BY <1>3 DEF BootSweep, StartSweep, ApiSweep
  <2>2. CASE ListDeliveries
    <3>1. /\ todo' \subseteq stored /\ listed' \subseteq stored /\ todo' \subseteq listed'
          /\ owed' = {} /\ missed' = {} /\ step' = "translate"
      BY <2>2 DEF ListDeliveries, Lists, Unprocessed
    <3> QED
      BY <2>0, <2>1, <2>2, <3>1 DEF ListDeliveries, Lists, StoreUnchanged, Stamped
  <2>3. CASE ListFails /\ missed' \in {missed, owed}
    <3>1. failures' \in 0..MaxFailures /\ UNCHANGED skipped /\ step' \in {"enroll", "hung"}
      BY <1>0, <2>3 DEF ListFails, FailsElsewhere, Fails
    <3> QED
      BY <2>0, <2>1, <2>3, <3>1 DEF ListFails, StoreUnchanged, Stamped
  <2> QED
    BY <1>3, <2>2, <2>3 DEF BootSweep, StartSweep, ApiSweep
<1>4. CASE TranslateDone
  BY <1>4 DEF TranslateDone, Stamped
<1>11. CASE SweepHangs
  BY <1>11 DEF SweepHangs, StoreUnchanged, Stamped
<1>5. CASE Enroll
  BY <1>5 DEF Enroll, Stamped
<1>6. ASSUME NEW d \in stored, Translate(d) PROVE InboxTypeOK' /\ log' \in Log
  <2>1. CASE OpenForLabel(d)
    BY <2>1 DEF OpenForLabel, Stamped
  <2>2. CASE \/ TranslateAdded(d) \/ TranslateRemoved(d) \/ TranslateOpened(d) \/ TranslateClosed(d)
             \/ Approve(d) \/ LabelRefused(d)
    <3>1. d \in todo /\ Committed(d)
      BY <2>2
      DEF TranslateAdded, TranslateRemoved, TranslateOpened, TranslateClosed, Approve, LabelRefused,
          IsNext
    <3>2. recording' \subseteq todo' /\ todo' = todo /\ Stamped' = Stamped /\ log' = log
      BY <3>1 DEF Committed, Stamped
    <3>3. approvedBy' \subseteq stored
      BY <1>6, <2>2
      DEF TranslateAdded, TranslateRemoved, TranslateOpened, TranslateClosed, Approve, LabelRefused
    <3>4. /\ enrollment' \in {"unknown", "enrolled", "removed"} /\ installation' \in Nat
          /\ stale' \in BOOLEAN /\ labelled' \in BOOLEAN /\ overruled' \in BOOLEAN
      BY <1>6, <2>2, StoredIs, StoredPlace
      DEF TranslateAdded, TranslateRemoved, TranslateOpened, TranslateClosed, Approve, LabelRefused
    <3> QED
      BY <3>1, <3>2, <3>3, <3>4 DEF Committed
  <2> QED
    BY <1>6, <2>1, <2>2 DEF Translate
<1>7. ASSUME NEW d \in stored, TranslateFails(d) \/ RecordFails(d) PROVE InboxTypeOK' /\ log' \in Log
  <2>1. failures' \in 0..MaxFailures
    BY <1>0, <1>7 DEF TranslateFails, RecordFails, Fails
  <2>2. LeaveUnprocessed(d) /\ skipped' \in BOOLEAN
    BY <1>7 DEF TranslateFails, RecordFails, Fails, Passed
  <2> QED
    BY <2>1, <2>2 DEF LeaveUnprocessed, Stamped
<1>8. ASSUME NEW d \in stored, TranslatePoisoned(d) \/ Record(d) PROVE InboxTypeOK' /\ log' \in Log
  <2>1. recording' = {} /\ todo' \subseteq todo /\ processed' \subseteq stored
    BY <1>8 DEF TranslatePoisoned, Record, LeaveUnprocessed
  <2>2. UNCHANGED <<githubVars, logVars, approvedBy, repoVars, daemon, wakeVars, step, listed, refresh,
                   budgetVars>>
    BY <1>8 DEF TranslatePoisoned, Record, LeaveUnprocessed
  <2> QED
    BY <2>1, <2>2 DEF Stamped
<1>9. CASE RefreshNext
  <2>1. CASE RefreshReads
    BY <2>1 DEF RefreshReads, StoreUnchanged, Stamped
  <2>2. ASSUME NEW r \in refresh, RefreshWrites(r) PROVE InboxTypeOK' /\ log' \in Log
    <3>1. enrollment' \in {"unknown", "enrolled", "removed"} /\ installation' \in Nat
      BY <2>2 DEF RefreshWrites
    <3>2. stale' \in BOOLEAN /\ overruled' \in BOOLEAN /\ refresh' = {}
      BY <2>2 DEF RefreshWrites
    <3> QED
      BY <2>2, <3>1, <3>2 DEF RefreshWrites, Stamped
  <2> QED
    BY <1>9, <2>1, <2>2 DEF RefreshNext
<1>10. CASE UNCHANGED vars
  BY <1>10 DEF vars, Stamped
<1> QED
  BY <1>1, <1>2, <1>3, <1>4, <1>5, <1>6, <1>7, <1>8, <1>9, <1>10, <1>11 DEF InboxNext, SweepNext, Process

\* A token, or a notification that is still on its way to become one, outlives
\* everything that is announced and not listed: only the listing takes it, and
\* a connection that dies takes the announcements it lost with it.
LEMMA WakeStep == ASSUME NoLostWakeup, [InboxNext]_vars PROVE NoLostWakeup'
<1> USE DEF NoLostWakeup, wakeVars
<1>1. CASE GitHubNext
  BY <1>1
  DEF GitHubNext, AppInstalled, AppRemoved, BranchRenamed, IssueEvents, IssueEvent, Receive,
      DeliveryLost, StoreDelivery, StoreFails
<1>2. CASE WakeNext
  BY <1>2 DEF WakeNext, Boot, Crash, Disconnect, Reconnect, Notify, Tick
<1>3. CASE BootSweep \/ StartSweep \/ ApiSweep \/ TranslateDone \/ Enroll \/ SweepHangs
  BY <1>3 DEF BootSweep, StartSweep, ApiSweep, ListDeliveries, Lists, ListFails, TranslateDone, Enroll,
      SweepHangs
<1>4. CASE \E d \in stored :
             Translate(d) \/ TranslateFails(d) \/ TranslatePoisoned(d) \/ Record(d) \/ RecordFails(d)
  BY <1>4
  DEF Translate, TranslateAdded, TranslateRemoved, TranslateOpened, TranslateClosed, OpenForLabel,
      Approve, LabelRefused, Committed, TranslateFails, TranslatePoisoned, Record, RecordFails,
      LeaveUnprocessed
<1>5. CASE RefreshNext \/ UNCHANGED vars
  BY <1>5 DEF RefreshNext, RefreshReads, RefreshWrites, vars
<1> QED
  BY <1>1, <1>2, <1>3, <1>4, <1>5 DEF InboxNext, SweepNext, Process

\* What no step but a translation does.
LEMMA QuietSteps ==
  ASSUME InboxTypeOK, log \in Log, [InboxNext]_vars
  PROVE  \/ \E d \in stored : Translate(d)
         \/ \E d \in stored : Record(d)
         \/ \E e \in Delivery :
               /\ Addresses(e) /\ log' = Append(log, e)
               /\ UNCHANGED <<caseVars, stored, processed, approvedBy, repoVars, sweepVars, refresh,
                              budgetVars>>
         \/ \E d \in arriving :
               /\ stored' = stored \cup {d} /\ log' = log
               /\ skipped' = (skipped \/ \E e \in listed : d < e)
               /\ UNCHANGED <<caseVars, processed, approvedBy, repoVars, sweepVars>>
         \/ /\ UNCHANGED <<caseVars, log, stored, processed, approvedBy>>
            /\ recording' \subseteq recording /\ listed \subseteq listed'
<1> USE DEF logVars, sweepVars
<1>1. CASE GitHubNext
  <2>1. ASSUME NEW e \in Delivery, Addresses(e), Receive(e), GitHubUnchanged
        PROVE  /\ log' = Append(log, e)
               /\ UNCHANGED <<caseVars, stored, processed, approvedBy, repoVars, sweepVars, refresh,
                              budgetVars>>
    BY <2>1 DEF Receive, GitHubUnchanged
  <2>2. CASE DeliveryLost /\ GitHubUnchanged
    BY <2>2 DEF DeliveryLost, GitHubUnchanged
  <2>3. CASE BranchRenamed
    BY <2>3 DEF BranchRenamed
  <2>4. ASSUME NEW d \in arriving, StoreDelivery(d)
        PROVE  /\ stored' = stored \cup {d} /\ log' = log
               /\ skipped' = (skipped \/ \E e \in listed : d < e)
               /\ UNCHANGED <<caseVars, processed, approvedBy, repoVars, sweepVars>>
    BY <2>4 DEF StoreDelivery, GitHubUnchanged
  <2>5. ASSUME NEW d \in arriving, StoreFails(d)
        PROVE  /\ UNCHANGED <<caseVars, log, stored, processed, approvedBy>>
               /\ recording' \subseteq recording /\ listed \subseteq listed'
    BY <2>5 DEF StoreFails, GitHubUnchanged
  <2> QED
    BY <1>1, <2>1, <2>2, <2>3, <2>4, <2>5, GitHubSteps
<1>2. CASE WakeNext \/ RefreshNext \/ UNCHANGED vars
  BY <1>2
  DEF WakeNext, Boot, Crash, Disconnect, Reconnect, Notify, Tick, StoreUnchanged, vars,
      RefreshNext, RefreshReads, RefreshWrites
<1>3. CASE BootSweep \/ StartSweep \/ ApiSweep \/ TranslateDone \/ Enroll \/ SweepHangs
  BY <1>3 DEF BootSweep, StartSweep, ApiSweep, ListDeliveries, Lists, ListFails, StoreUnchanged,
      TranslateDone, Enroll, SweepHangs
<1>4. ASSUME NEW d \in stored, TranslateFails(d) \/ TranslatePoisoned(d) \/ RecordFails(d)
      PROVE  /\ UNCHANGED <<caseVars, log, stored, processed, approvedBy>>
             /\ recording' \subseteq recording /\ listed \subseteq listed'
  BY <1>4 DEF TranslateFails, TranslatePoisoned, RecordFails, LeaveUnprocessed
<1> QED
  BY <1>1, <1>2, <1>3, <1>4 DEF InboxNext, SweepNext, Process

\* The cases' commands: a case stays, and only its issue's closing ends it.
LEMMA CaseSteps ==
  ASSUME InboxTypeOK, log \in Log, Ended, NEW d \in stored, Translate(d)
  PROVE  /\ log' = log /\ stored' = stored /\ listed' = listed /\ Ended'
         /\ \A i \in Issue : state[i] # "absent" => state'[i] # "absent"
         /\ \/ /\ approvedBy' = approvedBy /\ approvals' = approvals
            \/ /\ log[d].kind = "labeled" /\ d \notin approvedBy /\ approvedBy' = approvedBy \cup {d}
               /\ log[d].issue \in Issue /\ state[log[d].issue] # "absent"
               /\ approvals' = [approvals EXCEPT ![log[d].issue] = @ + 1]
<1> USE DEF InboxTypeOK, logVars, sweepVars, TypeOK, CaseState, Terminal, Ended
<1>1. CASE TranslateAdded(d) \/ TranslateRemoved(d) \/ LabelRefused(d)
  BY <1>1 DEF TranslateAdded, TranslateRemoved, LabelRefused, Committed, caseVars
<1>2. CASE TranslateOpened(d) \/ TranslateClosed(d) \/ OpenForLabel(d)
  <2>1. log[d].issue \in Issue
    BY <1>2, StoredIs, StoredPlace DEF TranslateOpened, TranslateClosed, OpenForLabel
  <2>2. UNCHANGED <<log, stored, listed>> /\ approvedBy' = approvedBy
    BY <1>2 DEF TranslateOpened, TranslateClosed, OpenForLabel, Committed
  <2> DEFINE i == log[d].issue
  <2> HIDE DEF i
  <2>3. NewCase(i) \/ Close(i) \/ UNCHANGED caseVars
    BY <1>2 DEF TranslateOpened, TranslateClosed, OpenForLabel, i
  <2>4. i \in Issue
    BY <2>1 DEF i
  <2> QED
    BY <2>2, <2>3, <2>4 DEF NewCase, InitialState, Close, caseVars
<1>3. CASE Approve(d)
  <2>1. log[d].issue \in Issue
    BY <1>3, StoredIs, StoredPlace DEF Approve
  <2> QED
    BY <1>3, <2>1 DEF Approve, IsRecorded, RecordApproval, Committed
<1> QED
  BY <1>1, <1>2, <1>3 DEF Translate

LEMMA CountApprovals ==
  ASSUME log \in Log, approvedBy \subseteq Stamped, NEW i \in Issue
  PROVE  IsFiniteSet(Approving(i)) /\ Cardinality(Approving(i)) \in Nat
<1>1. IsFiniteSet(Stamped)
  <2>1. 1 \in Int /\ Len(log) \in Int
    BY StoredIs
  <2> QED
    BY <2>1, FS_Interval DEF Stamped
<1>2. IsFiniteSet(Approving(i))
  BY <1>1, FS_Subset DEF Approving
<1> QED
  BY <1>2, FS_CardinalityType

\* An approval and its delivery's place in approvedBy commit together, and a
\* place is taken once.
LEMMA ApprovedStep ==
  ASSUME InboxTypeOK, log \in Log, Ended, Approved, [InboxNext]_vars
  PROVE  Ended' /\ Approved'
<1>1. ASSUME NEW e \in Delivery, Addresses(e), log' = Append(log, e),
             UNCHANGED <<caseVars, approvedBy>>
      PROVE  Ended' /\ Approved'
  <2>1. \A d \in approvedBy : log'[d] = log[d]
    BY <1>1, StoreAppends, StoredPlace DEF InboxTypeOK
  <2>2. \A i \in Issue : Approving(i)' = Approving(i)
    BY <1>1, <2>1 DEF Approving
  <2> QED
    BY <1>1, <2>1, <2>2 DEF Ended, Approved, caseVars
<1>2. CASE UNCHANGED <<caseVars, log, approvedBy>>
  <2>1. \A i \in Issue : Approving(i)' = Approving(i)
    BY <1>2 DEF Approving
  <2> QED
    BY <1>2, <2>1 DEF Ended, Approved, caseVars
<1>3. ASSUME NEW d \in stored, Record(d) PROVE Ended' /\ Approved'
  <2>1. \A i \in Issue : Approving(i)' = Approving(i)
    BY <1>3 DEF Record, logVars, Approving
  <2> QED
    BY <1>3, <2>1 DEF Record, logVars, Ended, Approved, caseVars
<1>4. ASSUME NEW d \in stored, Translate(d) PROVE Ended' /\ Approved'
  <2>0. \A x \in approvedBy : log[x].issue \in Issue
    BY StoredIs, StoredPlace DEF Approved, InboxTypeOK
  <2>1. /\ log' = log /\ Ended'
        /\ \A i \in Issue : state[i] # "absent" => state'[i] # "absent"
    BY <1>4, CaseSteps
  <2>2. CASE approvedBy' = approvedBy /\ approvals' = approvals
    <3>1. \A i \in Issue : Approving(i)' = Approving(i)
      BY <2>1, <2>2 DEF Approving
    <3> QED
      BY <2>0, <2>1, <2>2, <3>1 DEF Approved
  <2>3. CASE /\ log[d].kind = "labeled" /\ d \notin approvedBy /\ approvedBy' = approvedBy \cup {d}
             /\ log[d].issue \in Issue /\ state[log[d].issue] # "absent"
             /\ approvals' = [approvals EXCEPT ![log[d].issue] = @ + 1]
    <3>1. ASSUME NEW i \in Issue PROVE approvals'[i] = Cardinality(Approving(i)')
      <4>1. CASE i = log[d].issue
        <5>1. Approving(i)' = Approving(i) \cup {d} /\ d \notin Approving(i)
          BY <2>1, <2>3, <4>1 DEF Approving
        <5>2. IsFiniteSet(Approving(i)) /\ Cardinality(Approving(i)) \in Nat
          BY CountApprovals, StoredPlace DEF InboxTypeOK
        <5>3. Cardinality(Approving(i) \cup {d}) = Cardinality(Approving(i)) + 1
          BY <5>1, <5>2, FS_AddElement
        <5>4. approvals'[i] = approvals[i] + 1
          BY <2>3, <4>1 DEF InboxTypeOK, TypeOK
        <5> QED
          BY <5>1, <5>3, <5>4 DEF Approved
      <4>2. CASE i # log[d].issue
        <5>1. Approving(i)' = Approving(i) /\ approvals'[i] = approvals[i]
          BY <2>1, <2>3, <4>2 DEF Approving, InboxTypeOK, TypeOK
        <5> QED
          BY <5>1 DEF Approved
      <4> QED
        BY <4>1, <4>2
    <3>2. \A x \in approvedBy' : log'[x].kind = "labeled" /\ state'[log'[x].issue] # "absent"
      BY <2>0, <2>1, <2>3 DEF Approved
    <3> QED
      BY <2>1, <3>1, <3>2 DEF Approved
  <2> QED
    BY <1>4, <2>2, <2>3, CaseSteps
<1> QED
  BY <1>1, <1>2, <1>3, <1>4, QuietSteps

\* The steps go through the list from its oldest delivery, and what is stored
\* meanwhile is younger than what is on it.
LEMMA SweepingStep ==
  ASSUME InboxTypeOK, log \in Log, Sweeping, [InboxNext]_vars
  PROVE  Sweeping'
<1> USE DEF Sweeping, logVars, sweepVars, budgetVars
<1>1. CASE GitHubNext
  <2>1. CASE DeliveryLost /\ GitHubUnchanged
    BY <2>1 DEF DeliveryLost, FailsElsewhere, GitHubUnchanged, Unprocessed
  <2>2. CASE BranchRenamed
    BY <2>2 DEF BranchRenamed, Unprocessed
  <2>3. ASSUME NEW e \in Delivery, Receive(e), GitHubUnchanged
        PROVE  Sweeping'
    BY <2>3 DEF Receive, GitHubUnchanged, Unprocessed
  <2>4. ASSUME NEW d \in arriving, StoreDelivery(d)
        PROVE  Sweeping'
    <3>1. /\ stored' = stored \cup {d} /\ skipped' = (skipped \/ \E e \in listed : d < e)
          /\ UNCHANGED <<processed, approvedBy, sweepVars>>
      BY <2>4 DEF StoreDelivery, GitHubUnchanged
    <3>2. todo \subseteq listed
      BY DEF InboxTypeOK
    <3>3. ~skipped' => ~skipped /\ \A e \in todo : ~(d < e)
      BY <3>1, <3>2
    <3> QED
      BY <3>1, <3>3 DEF Unprocessed
  <2>5. ASSUME NEW d \in arriving, StoreFails(d)
        PROVE  Sweeping'
    BY <2>5 DEF StoreFails, FailsElsewhere, GitHubUnchanged, Unprocessed
  <2> QED
    BY <1>1, <2>1, <2>2, <2>3, <2>4, <2>5, GitHubSteps
<1>3. CASE WakeNext
  BY <1>3
  DEF WakeNext, Boot, Crash, Disconnect, Reconnect, Notify, Tick, FailsElsewhere, StoreUnchanged,
      Unprocessed
<1>4. CASE BootSweep \/ StartSweep \/ ApiSweep
  <2>1. ListDeliveries \/ ListFails
    BY <1>4 DEF BootSweep, StartSweep, ApiSweep
  <2>2. CASE ListDeliveries
    BY <2>2 DEF ListDeliveries, Lists, StoreUnchanged, Unprocessed
  <2>3. CASE ListFails
    BY <2>3 DEF ListFails, FailsElsewhere, StoreUnchanged, Unprocessed
  <2> QED
    BY <2>1, <2>2, <2>3
<1>5. CASE TranslateDone
  BY <1>5 DEF TranslateDone, Unprocessed
<1>6. CASE Enroll
  BY <1>6 DEF Enroll, Unprocessed
<1>12. CASE SweepHangs
  BY <1>12 DEF SweepHangs, StoreUnchanged, Unprocessed
<1>7. ASSUME NEW d \in stored, Translate(d) PROVE Sweeping'
  BY <1>7
  DEF Translate, TranslateAdded, TranslateRemoved, TranslateOpened, TranslateClosed, OpenForLabel,
      Approve, LabelRefused, Committed, Unprocessed
<1>8. ASSUME NEW d \in stored, TranslateFails(d) \/ RecordFails(d) PROVE Sweeping'
  <2>1. LeaveUnprocessed(d) /\ Passed(d)
    BY <1>8 DEF TranslateFails, RecordFails
  <2>2. /\ todo' = todo \ {d} /\ step' = step
        /\ UNCHANGED <<stored, processed, approvedBy>>
    BY <2>1 DEF LeaveUnprocessed
  <2>3. ASSUME ~skipped', NEW e \in Unprocessed \ approvedBy, NEW x \in todo', e < x
        PROVE  e \in todo'
    <3>1. ~skipped /\ \A y \in todo : ~(d < y)
      BY <2>1, <2>3 DEF Passed
    <3>2. e \in todo /\ x \in todo /\ e # d
      BY <2>2, <2>3, <3>1
    <3> QED
      BY <2>2, <3>2
  <2> QED
    BY <2>2, <2>3 DEF Unprocessed
<1>9. ASSUME NEW d \in stored, TranslatePoisoned(d) PROVE Sweeping'
  BY <1>9 DEF TranslatePoisoned, Poisoned, IsRecorded, LeaveUnprocessed, Unprocessed
<1>10. ASSUME NEW d \in stored, Record(d) PROVE Sweeping'
  BY <1>10 DEF Record, Unprocessed
<1>11. CASE RefreshNext \/ UNCHANGED vars
  BY <1>11 DEF RefreshNext, RefreshReads, RefreshWrites, StoreUnchanged, vars, Unprocessed
<1> QED
  BY <1>1, <1>3, <1>4, <1>5, <1>6, <1>7, <1>8, <1>9, <1>10, <1>11, <1>12 DEF InboxNext, SweepNext, Process

\* No step takes a row that is there back to where it was not.
LEMMA RefreshingStep ==
  ASSUME InboxTypeOK, log \in Log, Refreshing, [InboxNext]_vars
  PROVE  Refreshing'
<1> USE DEF Refreshing, repoVars
<1>1. CASE GitHubNext
  <2>1. CASE GitHubUnchanged
    BY <2>1 DEF GitHubUnchanged
  <2>2. CASE BranchRenamed
    BY <2>2 DEF BranchRenamed
  <2>3. ASSUME NEW d \in arriving, StoreDelivery(d) \/ StoreFails(d)
        PROVE  GitHubUnchanged
    BY <2>3 DEF StoreDelivery, StoreFails
  <2> QED
    BY <1>1, <2>1, <2>2, <2>3, GitHubSteps
<1>2. CASE WakeNext \/ UNCHANGED vars
  BY <1>2 DEF WakeNext, Boot, Crash, Disconnect, Reconnect, Notify, Tick, StoreUnchanged, vars
<1>3. CASE BootSweep \/ StartSweep \/ ApiSweep \/ TranslateDone \/ Enroll \/ SweepHangs
  BY <1>3 DEF BootSweep, StartSweep, ApiSweep, ListDeliveries, Lists, ListFails, StoreUnchanged,
      TranslateDone, Enroll, SweepHangs
<1>4. CASE \E d \in stored :
             Translate(d) \/ TranslateFails(d) \/ TranslatePoisoned(d) \/ Record(d) \/ RecordFails(d)
  BY <1>4
  DEF Translate, TranslateAdded, TranslateRemoved, TranslateOpened, TranslateClosed, OpenForLabel,
      Approve, LabelRefused, Committed, TranslateFails, TranslatePoisoned, Record, RecordFails,
      LeaveUnprocessed
<1>5. CASE RefreshNext
  BY <1>5 DEF RefreshNext, RefreshReads, RefreshWrites, StoreUnchanged
<1> QED
  BY <1>1, <1>2, <1>3, <1>4, <1>5 DEF InboxNext, SweepNext, Process

\* What a view of the log is, and how the next one comes from it.
LEMMA ViewIs ==
  ASSUME log \in Log, InboxTypeOK
  PROVE  /\ \A n \in 0..Len(log) : After[n] \in View /\ \A i \in Issue : After[n].closed[i] => After[n].known[i]
         /\ \A d \in stored : EffectFields(After[d - 1], log[d], After[d])
<1>1. \A n \in 0..Len(log) : Sound(After[n])
  BY ToldSound, AfterIsTold
<1>2. ASSUME NEW d \in stored PROVE EffectFields(After[d - 1], log[d], After[d])
  <2>0. d \in 1..Len(log) /\ d - 1 \in 0..Len(log) /\ Len(log) \in Nat
    BY StoredPlace, StoredIs DEF Stamped
  <2>1. After[d] = Effect(After[d - 1], log[d])
    BY <2>0, ToldIs, AfterIsTold DEF Adds
  <2>2. log[d] \in Delivery /\ Addresses(log[d])
    BY <2>0, StoredIs DEF Log, Stamped
  <2>4. After[d - 1] \in View
    BY <1>1, <2>0 DEF Sound
  <2> QED
    BY <2>1, <2>2, <2>4, EffectIs
<1> QED
  BY <1>1, <1>2 DEF Sound

\* Behind names places of the log.
LEMMA BehindPlace ==
  ASSUME log \in Log, InboxTypeOK, NEW n \in 0..Len(log), Behind(n)
  PROVE  n \in Nat /\ n <= Len(log) /\ Len(log) \in Nat /\ (n # 0 => n \in listed /\ n \in stored)
BY StoredIs DEF Behind, InboxTypeOK

\* While the row and the cases stay, so does what the store says.
LEMMA BehindQuiet ==
  ASSUME NEW n, Behind(n),
         UNCHANGED <<state, approvals, log, stored, approvedBy, enrollment, installation>>,
         processed \subseteq processed', processed' \subseteq 1..n, recording' \subseteq 1..n,
         listed \subseteq listed'
  PROVE  Behind(n)'
<1>1. After' = After
  BY AfterIsTold, AfterIsToldNext
<1>2. Says(n)'
  BY <1>1 DEF Behind, Says, Follows
<1>3. \A i \in Issue : Early(n, i)' => Early(n, i)
  BY <1>1 DEF Early
<1> QED
  BY <1>1, <1>2, <1>3 DEF Behind, Follows

\* What is received joins behind everything, and what is stored comes after
\* everything that was listed.
LEMMA BehindJoin ==
  ASSUME log \in Log, InboxTypeOK, NEW n \in 0..Len(log), Behind(n),
         log' \in Log, Len(log) <= Len(log'), \A d \in Stamped : log'[d] = log[d],
         stored \subseteq stored', \A d \in stored' \ stored : d \in Nat /\ \A e \in listed : e < d,
         \A d \in stored' \ stored : d > 0,
         UNCHANGED <<state, approvals, processed, approvedBy, recording, listed, enrollment, installation>>
  PROVE  Behind(n)'
<1>0. /\ Len(log) \in Nat /\ Len(log') \in Nat /\ n \in Nat /\ n <= Len(log)
      /\ n # 0 => n \in listed /\ n \in stored
      /\ listed \subseteq stored /\ stored \subseteq 1..Len(log)
  <2>1. Len(log') \in Nat
    BY LenProperties DEF Log
  <2> QED
    BY <2>1, BehindPlace, StoredPlace DEF InboxTypeOK, Stamped
<1>1. \A d \in 1..n : log'[d] = log[d] /\ (d \in stored' <=> d \in stored)
  BY <1>0 DEF Stamped
<1>2. After'[n] = After[n]
  <2>1. Told(log', stored')[n] = Told(log, stored)[n]
    BY <1>0, <1>1, ToldAgrees
  <2> QED
    BY <2>1, AfterIsTold, AfterIsToldNext
<1>3. ASSUME NEW d \in listed, Follows(n, d)
      PROVE  Follows(n, d)' /\ log'[d] = log[d] /\ d \in stored'
  <2>1. stored' \cap (n + 1)..(d - 1) = {}
    BY <1>0, <1>3 DEF Follows
  <2> QED
    BY <1>0, <1>3, <2>1 DEF Follows, Stamped
<1>4. stored' \cap 1..n = stored \cap 1..n /\ stored' \cap 1..(n - 1) = stored \cap 1..(n - 1)
  BY <1>0, <1>1
<1>5. \A i \in Issue : Early(n, i)' => Early(n, i)
  BY <1>2 DEF Early
<1>6. ASSUME NEW i \in Issue, Early(n, i)
      PROVE  /\ enrollment' = "enrolled" /\ stored' \cap 1..n \subseteq processed' \cup approvedBy'
             /\ \E d \in listed' : Follows(n, d)' /\ log'[d].kind = "labeled" /\ log'[d].issue = i
  BY <1>3, <1>4, <1>6 DEF Behind
<1>7. Says(n)'
  <2>1. ASSUME NEW i \in Issue, Early(n, i)
        PROVE  \E d \in stored' : Follows(n, d)' /\ log'[d].kind = "labeled" /\ log'[d].issue = i
    BY <1>3, <2>1 DEF Behind
  <2> QED
    BY <1>2, <2>1 DEF Behind, Says, Early
<1>8. n > 0 => log'[n] = log[n]
  BY <1>0, <1>1
<1> QED
  BY <1>2, <1>4, <1>5, <1>6, <1>7, <1>8 DEF Behind

\* A row that no translation changes is changed against the log.
LEMMA RowSteps ==
  ASSUME InboxTypeOK, log \in Log, Refreshing, [InboxNext]_vars, ~overruled', ~skipped'
  PROVE  /\ ~overruled /\ ~skipped
         /\ (\E d \in stored : Translate(d)) \/ UNCHANGED <<enrollment, installation>>
<1> USE DEF repoVars, budgetVars
<1>1. CASE GitHubNext
  <2>1. CASE DeliveryLost /\ GitHubUnchanged
    BY <2>1 DEF DeliveryLost, FailsElsewhere, GitHubUnchanged
  <2>2. CASE BranchRenamed
    BY <2>2 DEF BranchRenamed
  <2>3. ASSUME NEW e \in Delivery, Receive(e), GitHubUnchanged
        PROVE  UNCHANGED <<overruled, skipped, enrollment, installation>>
    BY <2>3 DEF Receive, GitHubUnchanged
  <2>4. ASSUME NEW d \in arriving, StoreDelivery(d) \/ StoreFails(d)
        PROVE  ~skipped /\ UNCHANGED <<overruled, enrollment, installation>>
    <3>1. GitHubUnchanged
      BY <2>4 DEF StoreDelivery, StoreFails
    <3>2. CASE StoreDelivery(d)
      BY <3>1, <3>2 DEF StoreDelivery, GitHubUnchanged
    <3>3. CASE StoreFails(d)
      BY <3>1, <3>3 DEF StoreFails, FailsElsewhere, GitHubUnchanged
    <3> QED
      BY <2>4, <3>2, <3>3
  <2> QED
    BY <1>1, <2>1, <2>2, <2>3, <2>4, GitHubSteps
<1>2. CASE WakeNext \/ UNCHANGED vars
  BY <1>2
  DEF WakeNext, Boot, Crash, Disconnect, Reconnect, Notify, Tick, FailsElsewhere, StoreUnchanged, vars
<1>3. CASE BootSweep \/ StartSweep \/ ApiSweep \/ TranslateDone \/ SweepHangs
  BY <1>3 DEF BootSweep, StartSweep, ApiSweep, ListDeliveries, Lists, ListFails, FailsElsewhere,
      StoreUnchanged, TranslateDone, SweepHangs
<1>4. CASE Enroll
  BY <1>4 DEF Enroll, InboxTypeOK
<1>5. ASSUME NEW d \in stored, Translate(d) PROVE ~overruled /\ ~skipped
  BY <1>5
  DEF Translate, TranslateAdded, TranslateRemoved, TranslateOpened, TranslateClosed, OpenForLabel,
      Approve, LabelRefused, Committed
<1>6. CASE \E d \in stored :
             TranslateFails(d) \/ TranslatePoisoned(d) \/ Record(d) \/ RecordFails(d)
  <2>1. PICK d \in stored : TranslateFails(d) \/ TranslatePoisoned(d) \/ Record(d) \/ RecordFails(d)
    BY <1>6
  <2>2. skipped => skipped'
    BY <2>1 DEF TranslateFails, TranslatePoisoned, Record, RecordFails, Passed
  <2>3. UNCHANGED <<enrollment, installation, overruled>>
    BY <2>1 DEF TranslateFails, TranslatePoisoned, Record, RecordFails, LeaveUnprocessed
  <2> QED
    BY <2>2, <2>3
<1>7. CASE RefreshNext
  BY <1>7 DEF RefreshNext, RefreshReads, RefreshWrites, StoreUnchanged, Refreshing, InboxTypeOK
<1> QED
  BY <1>1, <1>2, <1>3, <1>4, <1>5, <1>6, <1>7 DEF InboxNext, SweepNext, Process

\* A translation takes the oldest delivery of the list, which is at most the
\* one after what the store says.
LEMMA TakesNext ==
  ASSUME InboxTypeOK, log \in Log, Sweeping, ~skipped, NEW n \in 0..Len(log), Behind(n),
         NEW d \in stored, Translate(d)
  PROVE  /\ IsNext(d) /\ d \in listed /\ d \notin processed
         /\ d \in Nat /\ d >= 1 /\ d <= Len(log)
         /\ d <= n \/ Follows(n, d)
         /\ n < d => stored \cap 1..n \subseteq processed \cup approvedBy
<1>1. IsNext(d)
  BY DEF Translate, TranslateAdded, TranslateRemoved, TranslateOpened, TranslateClosed, OpenForLabel,
     Approve, LabelRefused
<1>2. d \in todo /\ \A e \in todo : d <= e
  BY <1>1 DEF IsNext
<1>3. /\ d \in Nat /\ d >= 1 /\ n \in Nat /\ d <= Len(log) /\ d \notin processed /\ d \in listed
      /\ \A e \in stored : e \in Nat
  BY <1>2, StoredPlace, BehindPlace DEF Sweeping, InboxTypeOK
<1>4. \A e \in stored : e < d => e \in processed \cup approvedBy
  <2>1. ASSUME NEW e \in stored, e < d, e \notin processed \cup approvedBy PROVE FALSE
    <3>1. e \in todo
      BY <1>2, <2>1 DEF Sweeping, Unprocessed
    <3>2. d <= e /\ e \in Nat
      BY <1>2, <1>3, <3>1
    <3> QED
      BY <1>3, <2>1, <3>2
  <2> QED
    BY <2>1
<1>5. ASSUME n < d PROVE Follows(n, d)
  <2>1. ASSUME NEW e \in stored \cap (n + 1)..(d - 1) PROVE FALSE
    <3>1. e < d /\ ~(e <= n)
      BY <1>3
    <3>2. e \in 1..n
      BY <1>4, <3>1 DEF Behind
    <3> QED
      BY <1>3, <3>1, <3>2
  <2> QED
    BY <1>5, <2>1 DEF Follows
<1>6. ASSUME n < d, NEW e \in stored \cap 1..n PROVE e \in processed \cup approvedBy
  BY <1>3, <1>4, <1>6
<1> QED
  BY <1>1, <1>3, <1>5, <1>6

\* The replay of a label whose approval is recorded finds it recorded.
LEMMA ReplayApproved ==
  ASSUME InboxTypeOK, log \in Log, Approved, NEW d \in approvedBy, Translate(d)
  PROVE  UNCHANGED <<caseVars, enrollment, installation, approvedBy, processed, log, stored, listed>> /\ recording' = {d}
<1> USE DEF logVars
<1>1. log[d].kind = "labeled" /\ state[log[d].issue] # "absent"
  BY DEF Approved
<1>2. ~OpenForLabel(d) /\ ~Approve(d)
  BY <1>1 DEF OpenForLabel, NewCase, Approve, IsRecorded
<1>3. LabelRefused(d)
  BY <1>1, <1>2
  DEF Translate, TranslateAdded, TranslateRemoved, TranslateOpened, TranslateClosed
<1> QED
  BY <1>3 DEF LabelRefused, Committed, repoVars

\* The replay of the last delivery that is done finds its effect.
LEMMA ReplayLast ==
  ASSUME InboxTypeOK, log \in Log, Ended, NEW n \in stored, Behind(n), n \notin processed,
         n \notin approvedBy, Translate(n)
  PROVE  UNCHANGED <<caseVars, enrollment, installation, approvedBy, processed, log, stored, listed>> /\ recording' = {n}
<1> USE DEF logVars
<1> DEFINE s == After[n - 1]
           t == After[n]
           e == log[n]
           i == log[n].issue
<1>1. EffectFields(s, e, t)
  BY ViewIs
<1>2. n \in Nat /\ n > 0 /\ n \in 1..n /\ n \in 0..Len(log) /\ n - 1 \in 0..Len(log)
  BY StoredPlace DEF Stamped
<1>3. s \in View /\ t \in View
  BY <1>2, ViewIs
<1>4. \A j \in Issue : state[j] # "absent" <=> t.known[j]
  <2>1. ASSUME NEW j \in Issue, state[j] # "absent" PROVE t.known[j]
    BY <1>2, <2>1 DEF Behind, Early
  <2>2. ASSUME NEW j \in Issue, t.known[j] PROVE state[j] # "absent"
    BY <2>2 DEF Behind, Says
  <2> QED
    BY <2>1, <2>2
<1>5. \A j \in Issue : t.closed[j] <=> state[j] = "closed"
  BY DEF Behind, Says
<1>6. t.repo = enrollment /\ t.id = installation
  BY DEF Behind, Says
<1>7. e.kind = "labeled" /\ enrollment = "enrolled" => t.closed[i]
  BY <1>2 DEF Behind
<1>8. e.kind \in {"opened", "labeled", "closed"} => i \in Issue
  BY StoredIs, StoredPlace
<1> HIDE DEF s, t
<1>9. CASE TranslateAdded(n)
  BY <1>1, <1>6, <1>9 DEF TranslateAdded, EffectFields, Committed
<1>10. CASE TranslateRemoved(n)
  <2>1. e.kind = "removed" /\ t.repo = IF s.repo = "unknown" THEN "unknown" ELSE "removed"
    BY <1>1, <1>10 DEF TranslateRemoved, EffectFields
  <2>2. enrollment' = enrollment
    BY <1>6, <1>10, <2>1 DEF TranslateRemoved
  <2> QED
    BY <1>10, <2>2 DEF TranslateRemoved, Committed
<1>11. CASE TranslateOpened(n)
  <2>1. e.kind = "opened" /\ i \in Issue
    BY <1>8, <1>11 DEF TranslateOpened
  <2>2. enrollment = "enrolled" => t.known[i]
    BY <1>1, <1>3, <1>6, <2>1 DEF EffectFields, View
  <2>3. ~(enrollment = "enrolled" /\ state[i] = "absent")
    BY <1>4, <2>1, <2>2
  <2> QED
    BY <1>11, <2>3 DEF TranslateOpened, Committed, repoVars
<1>12. CASE TranslateClosed(n)
  <2>1. e.kind = "closed" /\ i \in Issue
    BY <1>8, <1>12 DEF TranslateClosed
  <2>2. t.known[i] => t.closed[i]
    BY <1>1, <1>3, <2>1 DEF EffectFields, View
  <2>3. state[i] \notin CaseState \ Terminal
    BY <1>4, <1>5, <2>1, <2>2 DEF CaseState, Terminal
  <2> QED
    BY <1>12, <2>3 DEF TranslateClosed, Committed, repoVars
<1>13. CASE OpenForLabel(n)
  <2>1. t.closed[i] /\ i \in Issue /\ state[i] = "absent"
    BY <1>7, <1>8, <1>13 DEF OpenForLabel, NewCase
  <2> QED
    BY <1>5, <2>1
<1>14. CASE Approve(n)
  <2>1. t.closed[i] /\ i \in Issue /\ state[i] \notin Terminal
    BY <1>7, <1>8, <1>14 DEF Approve, RecordApproval
  <2> QED
    BY <1>5, <2>1 DEF Terminal
<1>15. CASE LabelRefused(n)
  BY <1>15 DEF LabelRefused, Committed, repoVars
<1> QED
  BY <1>9, <1>10, <1>11, <1>12, <1>13, <1>14, <1>15 DEF Translate

\* The next delivery's command does to the row and the cases what the delivery
\* says.
LEMMA Forward ==
  ASSUME InboxTypeOK, log \in Log, Ended, NEW n \in 0..Len(log), Behind(n),
         NEW m \in stored, Follows(n, m), m \in listed,
         Translate(m), ~OpenForLabel(m), m \notin approvedBy
  PROVE  /\ enrollment' = After[m].repo /\ installation' = After[m].id
         /\ \A j \in Issue :
               /\ After[m].labels[j] = approvals'[j]
               /\ After[m].closed[j] <=> state'[j] = "closed"
               /\ After[m].known[j] <=> state'[j] # "absent"
         /\ (/\ log[m].kind = "labeled" /\ enrollment' = "enrolled"
             /\ ~After[m].closed[log[m].issue]) => m \in approvedBy'
<1> DEFINE s == After[n]
           t == After[m]
           e == log[m]
           i == log[m].issue
<1>0. n \in Nat /\ m \in Nat /\ m - 1 \in n..Len(log) /\ m \in 0..Len(log) /\ Len(log) \in Nat
  BY StoredPlace, BehindPlace DEF Follows
<1>1. EffectFields(s, e, t)
  <2>1. After[m - 1] = s
    BY <1>0, ToldGap, AfterIsTold DEF Follows
  <2> QED
    BY <2>1, ViewIs
<1>2. s \in View /\ t \in View /\ \A j \in Issue : s.closed[j] => s.known[j]
  BY <1>0, ViewIs
<1>3. s.repo = enrollment /\ s.id = installation
  BY DEF Behind, Says
<1>4. \A j \in Issue :
         /\ s.labels[j] = approvals[j] /\ (s.closed[j] <=> state[j] = "closed")
         /\ s.known[j] => state[j] # "absent"
         /\ state[j] # "absent" /\ ~s.known[j]
               => e.kind = "labeled" /\ i = j /\ enrollment = "enrolled"
  <2>1. ASSUME NEW j \in Issue, state[j] # "absent" /\ ~s.known[j]
        PROVE  e.kind = "labeled" /\ i = j /\ enrollment = "enrolled"
    <3>1. PICK d \in listed : Follows(n, d) /\ log[d].kind = "labeled" /\ log[d].issue = j
      BY <2>1 DEF Behind, Early
    <3>2. d = m
      <4>1. d \in stored /\ d \in Nat
        BY StoredPlace DEF InboxTypeOK
      <4> QED
        BY <1>0, <3>1, <4>1 DEF Follows
    <3> QED
      BY <2>1, <3>1, <3>2 DEF Behind, Early
  <2> QED
    BY <2>1 DEF Behind, Says
<1>5. e.kind \in {"opened", "labeled", "closed"} => i \in Issue
  BY StoredIs, StoredPlace
<1>6. state \in [Issue -> CaseState \cup {"absent"}] /\ approvals \in [Issue -> 0..MaxApprovals]
  BY DEF InboxTypeOK, TypeOK
<1> DEFINE Told1 ==
      /\ enrollment' = t.repo /\ installation' = t.id
      /\ \A j \in Issue :
            /\ t.labels[j] = approvals'[j]
            /\ t.closed[j] <=> state'[j] = "closed"
            /\ t.known[j] <=> state'[j] # "absent"
      /\ e.kind = "labeled" /\ enrollment' = "enrolled" /\ ~t.closed[i] => m \in approvedBy'
<1> SUFFICES Told1
  OBVIOUS
<1> HIDE DEF s, t
<1>9. CASE TranslateAdded(m)
  <2>1. /\ e.kind = "added" /\ enrollment' = "enrolled" /\ installation' = e.id
        /\ UNCHANGED caseVars
    BY <1>9 DEF TranslateAdded
  <2> QED
    BY <1>1, <1>4, <2>1 DEF EffectFields, caseVars
<1>10. CASE TranslateRemoved(m)
  <2>1. /\ e.kind = "removed" /\ installation' = installation /\ UNCHANGED caseVars
        /\ enrollment' = IF enrollment = "unknown" THEN "unknown" ELSE "removed"
    BY <1>10 DEF TranslateRemoved
  <2> QED
    BY <1>1, <1>3, <1>4, <2>1 DEF EffectFields, caseVars
<1>11. CASE TranslateOpened(m)
  <2>1. e.kind = "opened" /\ i \in Issue /\ UNCHANGED <<enrollment, installation>>
    BY <1>5, <1>11 DEF TranslateOpened, repoVars
  <2>2. CASE enrollment = "enrolled" /\ state[i] = "absent"
    <3>1. NewCase(i)
      BY <1>11, <2>2 DEF TranslateOpened
    <3>2. /\ approvals' = approvals
          /\ \E v \in {"received", "gated"} : state' = [state EXCEPT ![i] = v]
      BY <3>1 DEF NewCase, InitialState
    <3>3. t.known = [s.known EXCEPT ![i] = TRUE]
      BY <1>1, <1>3, <2>1, <2>2 DEF EffectFields
    <3>4. /\ t.repo = s.repo /\ t.id = s.id /\ t.labels = s.labels /\ t.closed = s.closed
      BY <1>1, <2>1 DEF EffectFields
    <3> QED
      BY <1>2, <1>3, <1>4, <1>6, <2>1, <2>2, <3>2, <3>3, <3>4 DEF View
  <2>3. CASE ~(enrollment = "enrolled" /\ state[i] = "absent")
    <3>1. UNCHANGED caseVars
      BY <1>11, <2>3 DEF TranslateOpened
    <3>2. /\ t.repo = s.repo /\ t.id = s.id /\ t.labels = s.labels /\ t.closed = s.closed
          /\ t.known = IF s.repo = "enrolled" THEN [s.known EXCEPT ![i] = TRUE] ELSE s.known
      BY <1>1, <2>1 DEF EffectFields
    <3>3. \A j \in Issue : t.known[j] <=> s.known[j]
      BY <1>2, <1>3, <1>4, <2>1, <2>3, <3>2 DEF View
    <3> QED
      BY <1>3, <1>4, <2>1, <3>1, <3>2, <3>3 DEF caseVars
  <2> QED
    BY <2>2, <2>3
<1>12. CASE TranslateClosed(m)
  <2>1. e.kind = "closed" /\ i \in Issue /\ UNCHANGED <<enrollment, installation>>
    BY <1>5, <1>12 DEF TranslateClosed, repoVars
  <2>2. /\ t.repo = s.repo /\ t.id = s.id /\ t.known = s.known /\ t.labels = s.labels
        /\ t.closed = IF s.known[i] THEN [s.closed EXCEPT ![i] = TRUE] ELSE s.closed
    BY <1>1, <2>1 DEF EffectFields
  <2>3. \A j \in Issue : s.known[j] <=> state[j] # "absent"
    BY <1>4, <2>1
  <2>4. CASE state[i] \in CaseState \ Terminal
    <3>1. Close(i)
      BY <1>12, <2>4 DEF TranslateClosed
    <3>2. state' = [state EXCEPT ![i] = "closed"] /\ approvals' = approvals
      BY <3>1 DEF Close
    <3>3. s.known[i]
      BY <2>1, <2>3, <2>4 DEF CaseState
    <3> QED
      BY <1>2, <1>3, <1>4, <1>6, <2>1, <2>2, <2>3, <3>2, <3>3 DEF View
  <2>5. CASE state[i] \notin CaseState \ Terminal
    <3>1. UNCHANGED caseVars
      BY <1>12, <2>5 DEF TranslateClosed
    <3>2. state[i] \in {"absent", "closed"}
      BY <1>6, <2>1, <2>5 DEF Ended, CaseState, Terminal
    <3>3. \A j \in Issue : t.closed[j] <=> s.closed[j]
      BY <1>2, <1>4, <2>1, <2>2, <2>3, <3>2 DEF View
    <3> QED
      BY <1>3, <1>4, <2>1, <2>2, <2>3, <3>1, <3>3 DEF caseVars
  <2> QED
    BY <2>4, <2>5
<1>14. CASE Approve(m)
  <2>1. /\ e.kind = "labeled" /\ i \in Issue /\ UNCHANGED <<enrollment, installation>>
        /\ enrollment = "enrolled" /\ m \in approvedBy' /\ RecordApproval(i)
    BY <1>5, <1>14 DEF Approve, repoVars
  <2>2. /\ state[i] \in CaseState \ Terminal
        /\ approvals' = [approvals EXCEPT ![i] = @ + 1]
        /\ state' = [state EXCEPT ![i] = IF @ \in Approvable THEN "queued" ELSE @]
    BY <2>1 DEF RecordApproval
  <2>3. ~s.closed[i]
    BY <1>4, <2>1, <2>2 DEF Terminal
  <2>4. /\ t.repo = s.repo /\ t.id = s.id /\ t.closed = s.closed
        /\ t.known = [s.known EXCEPT ![i] = TRUE]
        /\ t.labels = [s.labels EXCEPT ![i] = @ + 1]
    BY <1>1, <1>3, <2>1, <2>3 DEF EffectFields
  <2>5. /\ state'[i] \notin {"absent", "closed"}
        /\ \A j \in Issue \ {i} : state'[j] = state[j]
    BY <1>6, <2>1, <2>2 DEF CaseState, Terminal
  <2>6. \A j \in Issue : t.labels[j] = approvals'[j]
    BY <1>2, <1>4, <1>6, <2>1, <2>2, <2>4 DEF View
  <2>7. \A j \in Issue : t.known[j] <=> state'[j] # "absent"
    <3>1. t.known[i] /\ \A j \in Issue \ {i} : t.known[j] <=> s.known[j]
      BY <1>2, <2>1, <2>4 DEF View
    <3>2. \A j \in Issue \ {i} : s.known[j] <=> state[j] # "absent"
      BY <1>4
    <3> QED
      BY <2>1, <2>5, <3>1, <3>2
  <2>8. \A j \in Issue : t.closed[j] <=> state'[j] = "closed"
    BY <1>4, <2>1, <2>3, <2>4, <2>5
  <2> QED
    BY <1>3, <2>1, <2>4, <2>6, <2>7, <2>8
<1>15. CASE LabelRefused(m)
  <2>1. /\ e.kind = "labeled" /\ i \in Issue /\ UNCHANGED <<enrollment, installation, caseVars>>
        /\ enrollment # "enrolled" \/ state[i] \in Terminal
    BY <1>5, <1>15 DEF LabelRefused, repoVars
  <2>2. enrollment # "enrolled" \/ s.closed[i]
    BY <1>4, <2>1 DEF Ended, Terminal
  <2>3. /\ t.repo = s.repo /\ t.id = s.id /\ t.closed = s.closed
        /\ t.known = s.known /\ t.labels = s.labels
    BY <1>1, <1>3, <2>1, <2>2 DEF EffectFields
  <2>4. \A j \in Issue : s.known[j] <=> state[j] # "absent"
    BY <1>2, <1>4, <2>2
  <2> QED
    BY <1>3, <1>4, <2>1, <2>2, <2>3, <2>4 DEF caseVars
<1> QED
  BY <1>9, <1>10, <1>11, <1>12, <1>14, <1>15 DEF Translate

\* A translation replays what is done without a trace, or is one delivery
\* further.
LEMMA TranslateFollows ==
  ASSUME InboxTypeOK, log \in Log, Ended, Approved, Sweeping, ~skipped,
         NEW n \in 0..Len(log), Behind(n), NEW d \in stored, Translate(d)
  PROVE  \E m \in 0..Len(log') : Behind(m)'
<1>0. n \in Nat /\ Len(log) \in Nat
  BY BehindPlace
<1>1. /\ IsNext(d) /\ d \in listed /\ d \notin processed
      /\ d \in Nat /\ d >= 1 /\ d <= Len(log)
      /\ d <= n \/ Follows(n, d)
      /\ n < d => stored \cap 1..n \subseteq processed \cup approvedBy
  BY TakesNext
<1>2. CASE d <= n
  <2>1. d \in approvedBy \/ d = n
    <3>1. d # n => d \in stored \cap 1..(n - 1)
      BY <1>0, <1>1, <1>2
    <3> QED
      BY <1>1, <3>1 DEF Behind
  <2>2. /\ UNCHANGED <<caseVars, enrollment, installation, approvedBy, processed, log, stored, listed>>
        /\ recording' = {d}
    <3>1. CASE d \in approvedBy
      BY <3>1, ReplayApproved
    <3>2. CASE d \notin approvedBy
      BY <1>1, <2>1, <3>2, ReplayLast
    <3> QED
      BY <3>1, <3>2
  <2>3. d \in 1..n /\ processed \subseteq 1..n
    BY <1>0, <1>1, <1>2 DEF Behind
  <2>4. Behind(n)'
    BY <2>2, <2>3, BehindQuiet DEF caseVars
  <2> QED
    BY <2>2, <2>4
<1>3. CASE n < d
  <2>0. /\ processed \subseteq 1..d /\ approvedBy \subseteq 1..d
        /\ d \notin processed \cup approvedBy /\ d \in 0..Len(log) /\ Follows(n, d)
        /\ stored \cap 1..(d - 1) \subseteq processed \cup approvedBy
    <3>1. Follows(n, d)
      BY <1>0, <1>1, <1>3
    <3>2. processed \subseteq 1..n /\ approvedBy \subseteq 1..n /\ 1..n \subseteq 1..d /\ d \notin 1..n
      BY <1>0, <1>1, <1>3 DEF Behind
    <3>3. stored \cap 1..(d - 1) \subseteq stored \cap 1..n
      BY <1>0, <1>1, <3>1, StoredPlace DEF Follows
    <3> QED
      BY <1>0, <1>1, <1>3, <3>1, <3>2, <3>3
  <2>1. CASE OpenForLabel(d)
    <3> DEFINE i == log[d].issue
    <3>1. /\ log[d].kind = "labeled" /\ enrollment = "enrolled" /\ i \in Issue
          /\ NewCase(i)
          /\ UNCHANGED <<log, stored, listed, processed, approvedBy, enrollment, installation, recording>>
      BY <2>1, StoredIs, StoredPlace DEF OpenForLabel, repoVars, sweepVars, logVars
    <3>2. /\ approvals' = approvals /\ state[i] = "absent"
          /\ state'[i] \notin {"absent", "closed"}
          /\ \A j \in Issue \ {i} : state'[j] = state[j]
      BY <3>1 DEF NewCase, InitialState, InboxTypeOK, TypeOK
    <3>3. After' = After
      BY <3>1, AfterIsTold, AfterIsToldNext
    <3> HIDE DEF i
    <3>4. Says(n)'
      <4>1. ASSUME NEW j \in Issue
            PROVE  /\ After[n].labels[j] = approvals'[j]
                   /\ After[n].closed[j] <=> state'[j] = "closed"
                   /\ After[n].known[j] => state'[j] # "absent"
                   /\ state'[j] # "absent" /\ ~After[n].known[j]
                         => \E x \in stored : Follows(n, x) /\ log[x].kind = "labeled" /\ log[x].issue = j
        <5>1. CASE j = i
          BY <2>0, <3>1, <3>2, <5>1 DEF Behind, Says, i
        <5>2. CASE j # i
          BY <3>1, <3>2, <5>2 DEF Behind, Says
        <5> QED
          BY <5>1, <5>2
      <4> QED
        BY <3>1, <3>3, <4>1 DEF Behind, Says, Follows
    <3>5. ASSUME NEW j \in Issue, Early(n, j)'
          PROVE  \E x \in listed : Follows(n, x) /\ log[x].kind = "labeled" /\ log[x].issue = j
      <4>1. CASE j = i
        BY <1>1, <2>0, <3>1, <4>1 DEF i
      <4>2. CASE j # i
        BY <3>2, <3>3, <3>5, <4>2 DEF Behind, Early
      <4> QED
        BY <4>1, <4>2
    <3>6. Behind(n)'
      BY <1>1, <1>3, <3>1, <3>3, <3>4, <3>5 DEF Behind, Follows
    <3> QED
      BY <3>1, <3>6
  <2>2. CASE ~OpenForLabel(d)
    <3>1. /\ UNCHANGED <<log, stored, listed, processed>> /\ recording' = {d}
          /\ approvedBy' = approvedBy \/ approvedBy' = approvedBy \cup {d}
      BY <2>2
      DEF Translate, TranslateAdded, TranslateRemoved, TranslateOpened, TranslateClosed, Approve,
          LabelRefused, Committed, logVars
    <3>2. After' = After
      BY <3>1, AfterIsTold, AfterIsToldNext
    <3>4. /\ enrollment' = After[d].repo /\ installation' = After[d].id
          /\ \A j \in Issue :
                /\ After[d].labels[j] = approvals'[j]
                /\ After[d].closed[j] <=> state'[j] = "closed"
                /\ After[d].known[j] <=> state'[j] # "absent"
          /\ (/\ log[d].kind = "labeled" /\ enrollment' = "enrolled"
              /\ ~After[d].closed[log[d].issue]) => d \in approvedBy'
      BY <1>1, <2>0, <2>2, Forward
    <3>5. Says(d)'
      BY <3>2, <3>4 DEF Says
    <3>6. \A j \in Issue : ~Early(d, j)'
      BY <3>2, <3>4 DEF Early
    <3>7. /\ processed' \subseteq 1..d /\ approvedBy' \subseteq 1..d
          /\ recording' \subseteq 1..d
          /\ stored' \cap 1..(d - 1) \subseteq processed' \cup approvedBy'
      <4>1. d \in 1..d
        BY <1>1
      <4> QED
        BY <2>0, <3>1, <4>1
    <3>9. d \in listed'
      BY <1>1, <3>1
    <3>10. /\ (\A j \in Issue : Early(d, j) =>
              /\ enrollment = "enrolled" /\ stored \cap 1..d \subseteq processed \cup approvedBy
              /\ \E x \in listed : Follows(d, x) /\ log[x].kind = "labeled" /\ log[x].issue = j)'
           /\ (d > 0 /\ log[d].kind = "labeled" /\ enrollment = "enrolled"
                /\ ~After[d].closed[log[d].issue] => d \in approvedBy)'
      BY <3>1, <3>2, <3>4, <3>6
    <3>8. Behind(d)'
      BY <3>5, <3>7, <3>9, <3>10 DEF Behind
    <3> QED
      BY <2>0, <3>1, <3>8
  <2> QED
    BY <2>1, <2>2
<1> QED
  BY <1>0, <1>1, <1>2, <1>3

\* No step leaves the prefix behind: a replay, a crash, a new sweep, a delivery
\* that is received, or stored behind what is listed, a row a runner refreshes
\* in vain.
LEMMA FollowingStep ==
  ASSUME InboxTypeOK, log \in Log, Ended, Approved, Sweeping, Refreshing, Following,
         [InboxNext]_vars
  PROVE  Following'
<1> SUFFICES ASSUME ~skipped', ~overruled' PROVE \E m \in 0..Len(log') : Behind(m)'
  BY DEF Following
<1> USE DEF logVars, sweepVars
<1>1. /\ ~skipped /\ ~overruled
      /\ (\E d \in stored : Translate(d)) \/ UNCHANGED <<enrollment, installation>>
  BY RowSteps
<1>2. PICK n \in 0..Len(log) : Behind(n)
  BY <1>1 DEF Following
<1>3. ASSUME NEW d \in stored, Translate(d) PROVE \E m \in 0..Len(log') : Behind(m)'
  BY <1>1, <1>2, <1>3, TranslateFollows
<1>4. CASE UNCHANGED <<enrollment, installation>>
  <2>1. ASSUME NEW d \in stored, Record(d) PROVE \E m \in 0..Len(log') : Behind(m)'
    <3>1. /\ processed' = processed \cup {d} /\ recording' = {} /\ d \in recording
          /\ UNCHANGED <<caseVars, log, stored, listed, approvedBy>>
      BY <2>1 DEF Record
    <3>2. processed' \subseteq 1..n
      BY <1>2, <3>1 DEF Behind
    <3>3. Behind(n)'
      BY <1>2, <1>4, <3>1, <3>2, BehindQuiet DEF caseVars
    <3> QED
      BY <3>1, <3>3
  <2>2. ASSUME NEW e \in Delivery, Addresses(e), log' = Append(log, e),
               UNCHANGED <<caseVars, stored, processed, approvedBy, sweepVars>>
        PROVE  \E m \in 0..Len(log') : Behind(m)'
    <3>1. /\ log' \in Log /\ Len(log') = Len(log) + 1 /\ \A d \in Stamped : log'[d] = log[d]
      BY <2>2, StoreAppends
    <3>5. Len(log) <= Len(log')
      <4>1. Len(log) \in Nat
        BY StoredIs
      <4> QED
        BY <3>1, <4>1
    <3>3. UNCHANGED <<state, approvals, processed, approvedBy, recording, listed, enrollment, installation>>
      BY <1>4, <2>2 DEF caseVars
    <3>4. stored' = stored
      BY <2>2
    <3>2. Behind(n)'
      BY <1>2, <3>1, <3>3, <3>4, <3>5, BehindJoin
    <3> QED
      <4>1. Len(log) \in Nat
        BY StoredIs
      <4> QED
        BY <3>1, <3>2, <4>1
  <2>4. ASSUME NEW d \in arriving, stored' = stored \cup {d}, log' = log,
               skipped' = (skipped \/ \E e \in listed : d < e),
               UNCHANGED <<caseVars, processed, approvedBy, sweepVars>>
        PROVE  \E m \in 0..Len(log') : Behind(m)'
    <3>1. d \in Nat /\ d > 0 /\ d \notin listed /\ \A e \in listed : e \in Nat
      BY StoredPlace DEF InboxTypeOK
    <3>2. \A e \in listed : e < d
      <4>1. \A e \in listed : ~(d < e)
        BY <2>4
      <4> QED
        BY <3>1, <4>1
    <3>3. Len(log) \in Nat /\ Len(log) <= Len(log')
      BY <2>4, StoredIs
    <3>4. /\ stored \subseteq stored'
          /\ \A x \in stored' \ stored : x \in Nat /\ x > 0 /\ \A e \in listed : e < x
      BY <2>4, <3>1, <3>2
    <3>5. Behind(n)'
      BY <1>2, <1>4, <2>4, <3>3, <3>4, BehindJoin DEF caseVars
    <3> QED
      BY <2>4, <3>5
  <2>3. CASE /\ UNCHANGED <<caseVars, log, stored, processed, approvedBy>>
             /\ recording' \subseteq recording /\ listed \subseteq listed'
    <3>1. processed' \subseteq 1..n /\ recording' \subseteq 1..n
      BY <1>2, <2>3 DEF Behind
    <3>2. Behind(n)'
      BY <1>2, <1>4, <2>3, <3>1, BehindQuiet DEF caseVars
    <3> QED
      BY <2>3, <3>2
  <2> QED
    BY <1>3, <2>1, <2>2, <2>3, <2>4, QuietSteps
<1> QED
  BY <1>1, <1>3, <1>4

LEMMA InboxStep == InboxInv /\ [InboxNext]_vars => InboxInv'
<1> SUFFICES ASSUME InboxInv, [InboxNext]_vars PROVE InboxInv'
  OBVIOUS
<1> USE DEF InboxInv
<1>1. CaseInv'
  BY InboxCaseStep, NextInv
<1>2. InboxTypeOK' /\ log' \in Log
  <2>1. TypeOK'
    BY <1>1 DEF CaseInv
  <2> QED
    BY <2>1, InboxTypeStep
<1>3. NoLostWakeup'
  BY WakeStep
<1>4. Ended' /\ Approved'
  BY ApprovedStep
<1>5. Sweeping'
  BY SweepingStep
<1>6. Refreshing'
  BY RefreshingStep
<1>7. Following'
  BY FollowingStep
<1> QED
  BY <1>1, <1>2, <1>3, <1>4, <1>5, <1>6, <1>7

-----------------------------------------------------------------------------

\* The inductive invariant of the way in, for every log and every place at which
\* the daemon crashes.
THEOREM InboxInvariant == InboxSpec => []InboxInv
<1> QED
  BY InboxInitInv, InboxStep, PTL DEF InboxSpec

\* GitHub's, the store's and the dispatcher's state keep their types; what is
\* being recorded is still on the sweep's list.
THEOREM InboxTypeCorrect == InboxSpec => []InboxTypeOK
<1>1. InboxInv => InboxTypeOK
  BY DEF InboxInv
<1> QED
  BY <1>1, InboxInvariant, PTL

\* Listen, notify and the wake channel: whatever the dispatcher is doing when a
\* notification comes, the sweep that lists the delivery is still to come, or
\* one has taken the token and could not list.
THEOREM WakeupsKept == InboxSpec => []NoLostWakeup
<1>1. InboxInv => NoLostWakeup
  BY DEF InboxInv
<1> QED
  BY <1>1, InboxInvariant, PTL

\* ProcessPending and the commands behind it: crashes, replays, coalesced and
\* concurrent wake-ups keep the store at a prefix of the log, in whatever order
\* the handlers store it, as long as no failure and no handler slower than a
\* sweep lets a younger delivery pass and nothing else overrules the row.
THEOREM LogFollowed == InboxSpec => []FollowsLog
<1>1. InboxInv => FollowsLog
  BY DEF InboxInv, Following, FollowsLog, Behind
<1> QED
  BY <1>1, InboxInvariant, PTL

\* approve with its delivery: no number of replays approves a label twice, in
\* whatever order failures and crashes leave the deliveries.
THEOREM ApprovedOnce == InboxSpec => []OneApprovalPerLabel
<1>1. ASSUME InboxInv, NEW i \in Issue
      PROVE  approvals[i] <= Cardinality({d \in stored : log[d].kind = "labeled" /\ log[d].issue = i})
  <2> DEFINE T == {d \in stored : log[d].kind = "labeled" /\ log[d].issue = i}
  <2>1. Approving(i) \subseteq T
    BY <1>1 DEF InboxInv, Approved, Approving, InboxTypeOK
  <2>2. IsFiniteSet(T)
    <3>1. IsFiniteSet(Stamped)
      BY <1>1, StoredIs, FS_Interval DEF InboxInv, Stamped
    <3>2. T \subseteq Stamped
      BY <1>1, StoredPlace DEF InboxInv
    <3> HIDE DEF T
    <3> QED
      BY <3>1, <3>2, FS_Subset
  <2> HIDE DEF T
  <2>3. Cardinality(Approving(i)) <= Cardinality(T)
    BY <2>1, <2>2, FS_Subset
  <2> QED
    BY <1>1, <2>3 DEF InboxInv, Approved, T
<1>2. InboxInv => OneApprovalPerLabel
  BY <1>1 DEF OneApprovalPerLabel
<1> QED
  BY <1>2, InboxInvariant, PTL

\* The translator in front of it, the listener and the runner's refresh leave the
\* aggregate to its commands: all that is proved of CaseSpec holds here.
THEOREM InboxImplementsCase == InboxSpec => CaseSpec
<1>1. InboxInit => Init
  BY DEF InboxInit
<1>2. InboxInv /\ [InboxNext]_vars => [Next]_caseVars
  BY InboxCaseStep DEF InboxInv
<1> QED
  BY <1>1, <1>2, InboxInvariant, PTL DEF InboxSpec, CaseSpec
=============================================================================
