-------------------------------- MODULE Bump --------------------------------
(***************************************************************************)
(* The aggregate of the Upkeep context, internal/upkeep/bump.go: one       *)
(* dependabot pull request autophage is shepherding to green.  Every       *)
(* command of the aggregate is an action; any caller may issue any command *)
(* at any moment, under the row lock of store.UpdateBump.  Upkeep.tla adds *)
(* the callers and the branch on GitHub.                                   *)
(*                                                                         *)
(* A round is opened only under the cap, and the cap grows only with the   *)
(* operator's retries, so RoundCap + MaxRetries bounds the rounds.         *)
(***************************************************************************)
EXTENDS Naturals, FiniteSets

CONSTANTS
    Pull,           \* the pull requests a bump can be opened for
    Sha,            \* the commits a branch can point at
    NoSha,          \* no commit
    RoundCap,       \* upkeep.round_cap
    MaxRetries      \* bound on the operator retries of one bump

ASSUME BumpAssumption ==
    /\ RoundCap \in Nat \ {0}
    /\ MaxRetries \in Nat
    /\ IsFiniteSet(Sha)
    /\ NoSha \notin Sha

VARIABLES
    state,      \* state[p]: the bump's state, "absent" before NewBump
    head,       \* head[p]: headSha, the branch tip as the bump knows it
    verdict,    \* verdict[p][s]: what the checks of s concluded
    rounds,     \* rounds[p]: how many repair rounds were opened
    base,       \* base[p]: the head the latest round was opened on
    round,      \* round[p][n]: how far round n is, or how it ended
    grants,     \* grants[p]: how many rounds operators granted
    abandonment \* abandonment[p]: the recorded reason, or "none"

bumpVars == <<state, head, verdict, rounds, base, round, grants, abandonment>>

-----------------------------------------------------------------------------

Round == 1..(RoundCap + MaxRetries)

BumpState == {"awaiting_checks", "queued", "repairing", "green", "abandoned", "closed"}

Conclusion == {"success", "failure"}

\* "failed" is a failure of class model or agent; the last three are the
\* reasons of an aborted outcome.
Outcome == {"pushed", "no_change", "budget_exhausted", "failed", "failed_infra",
            "operator_stop", "daemon_restart", "pull_request_closed"}

Reason == {"rounds_exhausted", "budget_exhausted", "repair_failed", "no_change",
           "checks_never_concluded", "operator_stop", "restart_failed"}

\* A round without an outcome; "running" once its Run is recorded.
Open == {"open", "running"}

IsOpen(p, n) == round[p][n] \in Open

OpenRounds(p) == {n \in Round : IsOpen(p, n)}

\* target: the first round without an outcome is the one a command reaches.
IsTarget(p, n) == IsOpen(p, n) /\ \A m \in OpenRounds(p) : n <= m

Cap(p) == RoundCap + grants[p]

RestartedBefore(p, n) == \E m \in Round : m < n /\ round[p][m] = "daemon_restart"

\* Where a failing verdict sends the bump, and the abandonment it records.
FailureMove(p) == IF rounds[p] < Cap(p) THEN <<"queued", "none">>
                                        ELSE <<"abandoned", "rounds_exhausted">>

\* Faulty: whatever did not push deserves another round.
OutcomeMoveRequeues(p, n, o) ==
    IF o = "pushed" THEN <<"awaiting_checks", "none">> ELSE FailureMove(p)

\* Faulty: an infrastructure failure requeues whatever the cap says.
OutcomeMoveUncapped(p, n, o) ==
    CASE o = "pushed"           -> <<"awaiting_checks", "none">>
      [] o = "no_change"        -> <<"abandoned", "no_change">>
      [] o = "budget_exhausted" -> <<"abandoned", "budget_exhausted">>
      [] o = "failed"           -> <<"abandoned", "repair_failed">>
      [] o = "operator_stop"    -> <<"abandoned", "operator_stop">>
      [] o = "daemon_restart" /\ RestartedBefore(p, n) -> <<"abandoned", "restart_failed">>
      [] OTHER                  -> <<"queued", "none">>

\* outcomeMove: where an outcome sends a repairing bump.  An infrastructure
\* failure and the first restart requeue, as a failing verdict would.
OutcomeMove(p, n, o) ==
    CASE o = "pushed"           -> <<"awaiting_checks", "none">>
      [] o = "no_change"        -> <<"abandoned", "no_change">>
      [] o = "budget_exhausted" -> <<"abandoned", "budget_exhausted">>
      [] o = "failed"           -> <<"abandoned", "repair_failed">>
      [] o = "operator_stop"    -> <<"abandoned", "operator_stop">>
      [] o = "daemon_restart" /\ RestartedBefore(p, n) -> <<"abandoned", "restart_failed">>
      [] OTHER                  -> FailureMove(p)

-----------------------------------------------------------------------------

Init ==
    /\ state = [p \in Pull |-> "absent"]
    /\ head = [p \in Pull |-> NoSha]
    /\ verdict = [p \in Pull |-> [s \in Sha |-> "none"]]
    /\ rounds = [p \in Pull |-> 0]
    /\ base = [p \in Pull |-> NoSha]
    /\ round = [p \in Pull |-> [n \in Round |-> "none"]]
    /\ grants = [p \in Pull |-> 0]
    /\ abandonment = [p \in Pull |-> "none"]

NewBump(p, s) ==
    /\ state[p] = "absent"
    /\ state' = [state EXCEPT ![p] = "awaiting_checks"]
    /\ head' = [head EXCEPT ![p] = s]
    /\ UNCHANGED <<verdict, rounds, base, round, grants, abandonment>>

\* The guards are the loop guard: only the current head, and only once.
RecordVerdict(p, s, c) ==
    /\ state[p] = "awaiting_checks"
    /\ s = head[p]
    /\ verdict[p][s] = "none"
    /\ verdict' = [verdict EXCEPT ![p][s] = c]
    /\ LET to == IF c = "success" THEN <<"green", "none">> ELSE FailureMove(p)
       IN  /\ state' = [state EXCEPT ![p] = to[1]]
           /\ abandonment' = [abandonment EXCEPT ![p] = IF to[2] = "none" THEN @ ELSE to[2]]
    /\ UNCHANGED <<head, rounds, base, round, grants>>

AdvanceHead(p, s) ==
    /\ state[p] \notin {"absent", "closed", "abandoned"}
    /\ s # head[p]
    /\ head' = [head EXCEPT ![p] = s]
    /\ state' = [state EXCEPT ![p] = "awaiting_checks"]
    /\ UNCHANGED <<verdict, rounds, base, round, grants, abandonment>>

StartRepair(p) ==
    /\ state[p] = "queued"
    /\ OpenRounds(p) = {}
    /\ rounds[p] < Cap(p)
    /\ rounds' = [rounds EXCEPT ![p] = @ + 1]
    /\ base' = [base EXCEPT ![p] = head[p]]
    /\ round' = [round EXCEPT ![p][rounds[p] + 1] = "open"]
    /\ state' = [state EXCEPT ![p] = "repairing"]
    /\ UNCHANGED <<head, verdict, grants, abandonment>>

RecordRun(p, n) ==
    /\ IsTarget(p, n)
    /\ round[p][n] = "open"
    /\ round' = [round EXCEPT ![p][n] = "running"]
    /\ UNCHANGED <<state, head, verdict, rounds, base, grants, abandonment>>

\* A pushed outcome names the new head s and overwrites the bump's, whatever
\* state the bump is in; the state only moves while the bump is repairing.
RecordOutcome(p, n, o, s) ==
    /\ IsTarget(p, n)
    /\ o = "pushed" => s # base[p]
    /\ o = "pull_request_closed" => state[p] = "closed"
    /\ round' = [round EXCEPT ![p][n] = o]
    /\ head' = [head EXCEPT ![p] = IF o = "pushed" THEN s ELSE @]
    /\ IF state[p] = "repairing"
       THEN LET to == OutcomeMove(p, n, o)
            IN  /\ state' = [state EXCEPT ![p] = to[1]]
                /\ abandonment' = [abandonment EXCEPT ![p] = IF to[2] = "none" THEN @ ELSE to[2]]
       ELSE UNCHANGED <<state, abandonment>>
    /\ UNCHANGED <<verdict, rounds, base, grants>>

\* Abandon: only checks_never_concluded arrives this way.
Abandon(p) ==
    /\ state[p] \notin {"absent", "closed", "abandoned"}
    /\ state' = [state EXCEPT ![p] = "abandoned"]
    /\ abandonment' = [abandonment EXCEPT ![p] = "checks_never_concluded"]
    /\ UNCHANGED <<head, verdict, rounds, base, round, grants>>

\* The verdict of the current head, "none" when its checks have not concluded.
CurrentVerdict(p) == verdict[p][head[p]]

\* Faulty: the abandonment's row stays.
RetryKeepsRow(p) ==
    /\ state[p] \in {"abandoned", "green"}
    /\ grants[p] < MaxRetries
    /\ CurrentVerdict(p) # "success"
    /\ state' = [state EXCEPT ![p] =
          IF CurrentVerdict(p) = "failure" THEN "queued" ELSE "awaiting_checks"]
    /\ grants' = [grants EXCEPT ![p] = @ + 1]
    /\ UNCHANGED <<head, verdict, rounds, base, round, abandonment>>

\* The retry grants a round and lands where the current head's checks say.
Retry(p) ==
    /\ state[p] \in {"abandoned", "green"}
    /\ grants[p] < MaxRetries
    /\ CurrentVerdict(p) # "success"
    /\ state' = [state EXCEPT ![p] =
          IF CurrentVerdict(p) = "failure" THEN "queued" ELSE "awaiting_checks"]
    /\ grants' = [grants EXCEPT ![p] = @ + 1]
    /\ abandonment' = [abandonment EXCEPT ![p] = "none"]
    /\ UNCHANGED <<head, verdict, rounds, base, round>>

Close(p) ==
    /\ state[p] \notin {"absent", "closed"}
    /\ state' = [state EXCEPT ![p] = "closed"]
    /\ UNCHANGED <<head, verdict, rounds, base, round, grants, abandonment>>

Next ==
    \E p \in Pull :
        \/ \E s \in Sha : NewBump(p, s)
        \/ \E s \in Sha, c \in Conclusion : RecordVerdict(p, s, c)
        \/ \E s \in Sha : AdvanceHead(p, s)
        \/ StartRepair(p)
        \/ \E n \in Round : RecordRun(p, n)
        \/ \E n \in Round, o \in Outcome, s \in Sha : RecordOutcome(p, n, o, s)
        \/ Abandon(p)
        \/ Retry(p)
        \/ Close(p)

BumpSpec == Init /\ [][Next]_bumpVars

-----------------------------------------------------------------------------

\* Type invariant: every fact the aggregate keeps is in its vocabulary.
TypeOK ==
    /\ state \in [Pull -> BumpState \cup {"absent"}]
    /\ head \in [Pull -> Sha \cup {NoSha}]
    /\ verdict \in [Pull -> [Sha -> Conclusion \cup {"none"}]]
    /\ rounds \in [Pull -> Round \cup {0}]
    /\ base \in [Pull -> Sha \cup {NoSha}]
    /\ round \in [Pull -> [Round -> Open \cup Outcome \cup {"none"}]]
    /\ grants \in [Pull -> 0..MaxRetries]
    /\ abandonment \in [Pull -> Reason \cup {"none"}]

\* LoadBump refuses two open rounds, and an abandoned bump without its row.
\* And a second abandonment would violate the row's primary key: a bump that
\* can still be abandoned has no row.  Either would make the bump unreachable.
Loadable ==
    \A p \in Pull :
        /\ \A m, n \in OpenRounds(p) : m = n
        /\ state[p] = "abandoned" => abandonment[p] # "none"
        /\ state[p] \notin {"abandoned", "closed"} => abandonment[p] = "none"

\* The second loop guard: rounds stay within the cap, and no bump is queued
\* for a round the cap would refuse, where it would wait for ever.
CapHolds ==
    \A p \in Pull :
        /\ rounds[p] <= Cap(p)
        /\ state[p] = "queued" => rounds[p] < Cap(p)

\* A repairing bump is being repaired: its latest round is open.
RepairingHasRound ==
    \A p \in Pull :
        /\ state[p] = "repairing" => rounds[p] \in OpenRounds(p)
        /\ \A n \in OpenRounds(p) : n = rounds[p]

FailedHeads(p) == {s \in Sha : verdict[p][s] = "failure"}

Requeued(p) == {n \in Round : round[p][n] = "failed_infra"}

Restarted(p) == \E n \in Round : round[p][n] = "daemon_restart"

\* Nobody pushes to somebody else's branch without a reason of its own: every
\* round, and the one a queued bump waits for, is paid for by the failing
\* verdict of a different head, by an operator's retry, by a round the
\* infrastructure failed, or by the single requeue a restart grants.
RoundsAreJustified ==
    \A p \in Pull :
        rounds[p] + (IF state[p] = "queued" THEN 1 ELSE 0)
            <= Cardinality(FailedHeads(p))
                 + grants[p]
                 + Cardinality(Requeued(p))
                 + (IF Restarted(p) THEN 1 ELSE 0)

\* Abandonment is sticky and history is append-only: only the operator's retry
\* undoes an abandonment, a closed bump is final, and no verdict, round or
\* outcome is rewritten or forgotten.
HistoryIsFinal ==
    [][\A p \in Pull :
          /\ state[p] = "closed" => state'[p] = "closed"
          /\ state[p] = "abandoned" /\ state'[p] \notin {"abandoned", "closed"}
                => grants'[p] = grants[p] + 1
          /\ rounds'[p] >= rounds[p]
          /\ \A n \in Round : round[p][n] \in Outcome => round'[p][n] = round[p][n]
          /\ \A s \in Sha : verdict[p][s] # "none" => verdict'[p][s] = verdict[p][s]]_bumpVars
=============================================================================
