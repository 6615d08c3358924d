-------------------------------- MODULE Case --------------------------------
(***************************************************************************)
(* The aggregate of the Resolution context, internal/resolution/case.go:   *)
(* one GitHub issue autophage is handling.  Every command of the aggregate *)
(* is an action; any caller may issue any command at any moment, as the    *)
(* store runs each one in a transaction under the row lock of the case     *)
(* (store.UpdateCase).  Resolution.tla adds the callers.                   *)
(*                                                                         *)
(* An approval and a triage are kept as what the aggregate reads back from *)
(* them: how many approvals there are, whether one of them is not older    *)
(* than the latest attempt's start, and the size triage chose.             *)
(***************************************************************************)
EXTENDS Naturals, FiniteSets

CONSTANTS
    Issue,          \* the issues a case can be opened for
    MaxAttempts,    \* bound on the attempts of one case
    MaxApprovals    \* bound on the approvals of one case

ASSUME CaseAssumption ==
    /\ IsFiniteSet(Issue)
    /\ MaxAttempts \in Nat \ {0}
    /\ MaxApprovals \in Nat

VARIABLES
    state,          \* state[i]: the case's state, "absent" before NewCase
    trust,          \* trust[i]: the requester's trust
    triage,         \* triage[i]: the recorded size, "none" before triage
    approvals,      \* approvals[i]: how many approvals are recorded
    approvedSince,  \* approvedSince[i]: one is not before the last start
    attempts,       \* attempts[i]: how many attempts were opened
    kind,           \* kind[i][n]: the budget tier of attempt n
    attempt         \* attempt[i][n]: how far attempt n is, or how it ended

caseVars == <<state, trust, triage, approvals, approvedSince, attempts, kind, attempt>>

-----------------------------------------------------------------------------

Ordinal == 1..MaxAttempts

\* "terminal" states take no further transition.
Terminal == {"done", "closed"}

CaseState == {"gated", "received", "awaiting_approval", "queued", "attempting", "failed"}
             \cup Terminal

\* "daemon_restart", "operator_stop" and "issue_closed" are the reasons of an
\* aborted outcome; the three classes of a failure are one value here.
Outcome == {"pull_request_opened", "budget_exhausted", "failed",
            "operator_stop", "daemon_restart", "issue_closed"}

\* An attempt without an outcome; "running" once its Run is recorded.
Open == {"open", "running"}

IsOpen(i, n) == attempt[i][n] \in Open

OpenOrdinals(i) == {n \in Ordinal : IsOpen(i, n)}

\* target: the first attempt without an outcome is the one a command reaches.
IsTarget(i, n) == IsOpen(i, n) /\ \A m \in OpenOrdinals(i) : n <= m

\* Faulty: forgets the earlier restart.
RestartedBeforeNever(i, n) == FALSE

RestartedBefore(i, n) == \E m \in Ordinal : m < n /\ attempt[i][m] = "daemon_restart"

\* Faulty: a first attempt needs no approval for the larger tier.
NextAttemptKindFirst(i) == IF attempts[i] = 0 \/ approvedSince[i] THEN "approved" ELSE "auto"

NextAttemptKind(i) ==
    IF approvals[i] > 0 /\ (attempts[i] = 0 \/ approvedSince[i]) THEN "approved" ELSE "auto"

\* Faulty: everybody is received.
InitialStateUngated(i) == "received"

InitialState(i) == IF trust[i] = "trusted" THEN "received" ELSE "gated"

\* Faulty: the size only changes the wording of the comment.
TriageMoveUngated(size) == "queued"

TriageMove(size) == IF size = "small" THEN "queued" ELSE "awaiting_approval"

\* The states an approval queues the case from.
Approvable == {"gated", "awaiting_approval", "failed"}

\* Where an outcome sends the case; a Closed case stays Closed.
OutcomeMove(i, n, o) ==
    IF state[i] = "closed" THEN "closed"
    ELSE CASE o = "pull_request_opened"                      -> "done"
           [] o \in {"budget_exhausted", "operator_stop"}    -> "awaiting_approval"
           [] o = "failed"                                   -> "failed"
           [] o = "daemon_restart" /\ RestartedBefore(i, n)  -> "failed"
           [] OTHER                                          -> "queued"

-----------------------------------------------------------------------------

Init ==
    /\ state = [i \in Issue |-> "absent"]
    /\ trust \in [Issue -> {"trusted", "untrusted"}]
    /\ triage = [i \in Issue |-> "none"]
    /\ approvals = [i \in Issue |-> 0]
    /\ approvedSince = [i \in Issue |-> FALSE]
    /\ attempts = [i \in Issue |-> 0]
    /\ kind = [i \in Issue |-> [n \in Ordinal |-> "none"]]
    /\ attempt = [i \in Issue |-> [n \in Ordinal |-> "none"]]

NewCase(i) ==
    /\ state[i] = "absent"
    /\ state' = [state EXCEPT ![i] = InitialState(i)]
    /\ UNCHANGED <<trust, triage, approvals, approvedSince, attempts, kind, attempt>>

RecordTriage(i, size) ==
    /\ state[i] = "received"
    /\ triage[i] = "none"
    /\ triage' = [triage EXCEPT ![i] = size]
    /\ state' = [state EXCEPT ![i] = TriageMove(size)]
    /\ UNCHANGED <<trust, approvals, approvedSince, attempts, kind, attempt>>

RecordApproval(i) ==
    /\ state[i] \in CaseState \ Terminal
    /\ approvals[i] < MaxApprovals
    /\ approvals' = [approvals EXCEPT ![i] = @ + 1]
    /\ approvedSince' = [approvedSince EXCEPT ![i] = TRUE]
    /\ state' = [state EXCEPT ![i] = IF @ \in Approvable THEN "queued" ELSE @]
    /\ UNCHANGED <<trust, triage, attempts, kind, attempt>>

\* An approval of the instant the attempt starts still counts as after it, so
\* approvedSince may survive the start.
StartAttempt(i) ==
    /\ state[i] = "queued"
    /\ OpenOrdinals(i) = {}
    /\ attempts[i] < MaxAttempts
    /\ attempts' = [attempts EXCEPT ![i] = @ + 1]
    /\ kind' = [kind EXCEPT ![i][attempts[i] + 1] = NextAttemptKind(i)]
    /\ attempt' = [attempt EXCEPT ![i][attempts[i] + 1] = "open"]
    /\ \E same \in {FALSE, approvedSince[i]} :
          approvedSince' = [approvedSince EXCEPT ![i] = same]
    /\ state' = [state EXCEPT ![i] = "attempting"]
    /\ UNCHANGED <<trust, triage, approvals>>

RecordRun(i, n) ==
    /\ IsTarget(i, n)
    /\ attempt[i][n] = "open"
    /\ attempt' = [attempt EXCEPT ![i][n] = "running"]
    /\ UNCHANGED <<state, trust, triage, approvals, approvedSince, attempts, kind>>

\* An outcome the case will not take leaves it exactly as it was.
RecordOutcome(i, n, o) ==
    /\ IsTarget(i, n)
    /\ o = "issue_closed" => state[i] = "closed"
    /\ attempt' = [attempt EXCEPT ![i][n] = o]
    /\ state' = [state EXCEPT ![i] = OutcomeMove(i, n, o)]
    /\ UNCHANGED <<trust, triage, approvals, approvedSince, attempts, kind>>

Close(i) ==
    /\ state[i] \in CaseState \ Terminal
    /\ state' = [state EXCEPT ![i] = "closed"]
    /\ UNCHANGED <<trust, triage, approvals, approvedSince, attempts, kind, attempt>>

Next ==
    \E i \in Issue :
        \/ NewCase(i)
        \/ \E size \in {"small", "large"} : RecordTriage(i, size)
        \/ RecordApproval(i)
        \/ StartAttempt(i)
        \/ \E n \in Ordinal : RecordRun(i, n)
        \/ \E n \in Ordinal, o \in Outcome : RecordOutcome(i, n, o)
        \/ Close(i)

CaseSpec == Init /\ [][Next]_caseVars

-----------------------------------------------------------------------------

\* Type invariant: every fact the aggregate keeps is in its vocabulary.
TypeOK ==
    /\ state \in [Issue -> CaseState \cup {"absent"}]
    /\ trust \in [Issue -> {"trusted", "untrusted"}]
    /\ triage \in [Issue -> {"none", "small", "large"}]
    /\ approvals \in [Issue -> 0..MaxApprovals]
    /\ approvedSince \in [Issue -> BOOLEAN]
    /\ attempts \in [Issue -> 0..MaxAttempts]
    /\ kind \in [Issue -> [Ordinal -> {"none", "auto", "approved"}]]
    /\ attempt \in [Issue -> [Ordinal -> Open \cup Outcome \cup {"none"}]]

\* LoadCase refuses a snapshot whose initial state contradicts the requester's
\* trust or that has two open attempts.  No sequence of commands may write a
\* case that the next load refuses: no command would ever reach it again.
Loadable ==
    \A i \in Issue :
        /\ state[i] = "gated" => trust[i] = "untrusted"
        /\ state[i] = "received" => trust[i] = "trusted"
        /\ \A m, n \in OpenOrdinals(i) : m = n

\* A case is Attempting exactly as long as an attempt of it is open, unless the
\* issue closed under the attempt; the open attempt is the latest one.
AttemptingMatchesOpen ==
    \A i \in Issue :
        /\ state[i] = "attempting" => attempts[i] \in OpenOrdinals(i)
        /\ \A n \in OpenOrdinals(i) : n = attempts[i] /\ state[i] \in {"attempting", "closed"}

Restarted(i) == \E n \in Ordinal : attempt[i][n] = "daemon_restart"

\* Nothing runs without a reason of its own.  Every attempt, and the one a
\* Queued case is waiting for, is paid for by a different approval, by the
\* one Small triage, or by the single requeue a daemon restart grants.
RunsAreJustified ==
    \A i \in Issue :
        attempts[i] + (IF state[i] = "queued" THEN 1 ELSE 0)
            <= approvals[i] + (IF triage[i] = "small" THEN 1 ELSE 0)
                            + (IF Restarted(i) THEN 1 ELSE 0)

\* The gate: without an approval neither an untrusted requester's issue nor
\* one triage sized Large is ever attempted or queued.
GateHolds ==
    \A i \in Issue :
        (approvals[i] = 0 /\ (trust[i] = "untrusted" \/ triage[i] = "large"))
            => attempts[i] = 0 /\ state[i] # "queued"

\* History is append-only: a terminal state is final, an attempt that ended
\* keeps its outcome and its kind, and no attempt is forgotten.
HistoryIsFinal ==
    [][\A i \in Issue :
          /\ state[i] \in Terminal => state'[i] = state[i]
          /\ attempts'[i] >= attempts[i]
          /\ \A n \in Ordinal :
                /\ attempt[i][n] \in Outcome => attempt'[i][n] = attempt[i][n]
                /\ kind[i][n] # "none" => kind'[i][n] = kind[i][n]]_caseVars

\* The larger budget is bought: a case never had more attempts of the approved
\* tier than approvals, but for the requeue after a restart, which keeps the
\* tier when the approval is of the very instant of the start.
ApprovedRunsArePaid ==
    \A i \in Issue :
        Cardinality({n \in Ordinal : kind[i][n] = "approved"})
            <= approvals[i] + (IF Restarted(i) THEN 1 ELSE 0)
=============================================================================
