------------------------------- MODULE Deploy -------------------------------
(***************************************************************************)
(* Push-to-deploy: the release webhook installs a release over the running *)
(* binaries and restarts the daemon when neither scheduler has a run.      *)
(*                                                                         *)
(* A delivery here is one that passed the handler's checks: signed, a      *)
(* published release of the pinned repository.  Each is served on a        *)
(* goroutine of its own, and each run that ends calls MaybeRestart on its  *)
(* own; both look at the two schedulers' sets without Handler.mu.          *)
(***************************************************************************)
EXTENDS Naturals, FiniteSets

CONSTANTS
    Attempt,    \* runs of the Scheduler
    Round,      \* runs of the RepairScheduler
    Delivery,   \* deliveries of release events, redeliveries included
    Tag,        \* the releases' tags, in the order of their versions
    Odd,        \* which of them are not of the form vX.Y.Z
    NoTag,      \* no release
    First,      \* the tag of the first process
    Nobody      \* the mutex is free

Run == Attempt \cup Round

ASSUME DeployAssumption ==
    /\ Attempt \cap Round = {} /\ Run \cap Delivery = {}
    /\ Tag \subseteq Nat /\ Odd \subseteq Tag /\ First \in Tag /\ NoTag \notin Tag
    /\ Nobody \notin Delivery
    /\ IsFiniteSet(Delivery)

VARIABLES
    pc,         \* pc[x]: where the delivery's handler, or the run's goroutine, is
    tag,        \* tag[d]: the release that delivery d announces
    mu,         \* the delivery whose handler holds Handler.mu
    installed,  \* Handler.installed
    pending,    \* Handler.pending
    version,    \* the release this process was built from
    disk,       \* disk[b]: the release binary b in the install directory is of
    running,    \* the runs in the schedulers' sets
    signals,    \* SIGTERMs on their way
    late        \* runs that a scheduler marked behind the back of an idle check

vars == <<pc, tag, mu, installed, pending, version, disk, running, signals, late>>

Binary == {"autophaged", "autophage"}

\* Idle() reads first the attempts ("look"), then the rounds ("look again").
Looking == {"look", "look again"}

DeliveryPc == {"sent", "locking", "fetching", "fetching more", "clear", "defer"} \cup Looking
                  \cup {"answered", "refused", "gone"}
RunPc == {"queued", "opened", "running", "hook", "take"} \cup Looking \cup {"over", "aborted"}

\* Who has read the half of run j, and found it empty, since it began to look.
HasLooked(x, j) == pc[x] \in {"clear", "take"} \/ (pc[x] = "look again" /\ j \in Attempt)

Init ==
    /\ pc = [x \in Delivery \cup Run |-> IF x \in Run THEN "queued" ELSE "sent"]
    /\ tag \in [Delivery -> Tag]
    /\ mu = Nobody
    /\ installed = NoTag
    /\ pending = FALSE
    /\ version = First
    /\ disk = [b \in Binary |-> First]
    /\ running = {}
    /\ signals = 0
    /\ late = {}

Goes(x, from, to) == pc[x] = from /\ pc' = [pc EXCEPT ![x] = to]

-----------------------------------------------------------------------------
\* ServeHTTP.

\* Faulty: redeliveries are not compared with what is on disk.
NewerAlways(a, b) == TRUE

Newer(a, b) == a \in Odd \/ b \in Odd \/ a > b

\* A delivery of the running release is a no-op.
Arrive(d) ==
    /\ Goes(d, "sent", IF tag[d] = version THEN "refused" ELSE "locking")
    /\ UNCHANGED <<tag, mu, installed, pending, version, disk, running, signals, late>>

\* It is on disk already: only the cut-over may remain.
Redelivered(d) ==
    /\ mu = Nobody
    /\ tag[d] = installed
    /\ Goes(d, "locking", "look")
    /\ UNCHANGED <<tag, mu, installed, pending, version, disk, running, signals, late>>

Older(d) ==
    /\ mu = Nobody
    /\ tag[d] # installed /\ installed # NoTag /\ ~Newer(tag[d], installed)
    /\ Goes(d, "locking", "refused")
    /\ UNCHANGED <<tag, mu, installed, pending, version, disk, running, signals, late>>

\* The download begins, with the mutex.
Fetch(d) ==
    /\ mu = Nobody
    /\ tag[d] # installed /\ (installed = NoTag \/ Newer(tag[d], installed))
    /\ Goes(d, "locking", "fetching")
    /\ mu' = d
    /\ UNCHANGED <<tag, installed, pending, version, disk, running, signals, late>>

InstallDaemon(d) ==
    /\ Goes(d, "fetching", "fetching more")
    /\ disk' = [disk EXCEPT !["autophaged"] = tag[d]]
    /\ UNCHANGED <<tag, mu, installed, pending, version, running, signals, late>>

\* The CLI, which a release may lack.
InstallCLI(d) ==
    /\ Goes(d, "fetching more", "look")
    /\ disk' \in {disk, [disk EXCEPT !["autophage"] = tag[d]]}
    /\ installed' = tag[d]
    /\ mu' = Nobody
    /\ UNCHANGED <<tag, pending, version, running, signals, late>>

\* A download, a checksum or a rename fails, or GitHub hung up: what was
\* installed stays, and the cut-over follows all the same.
InstallFails(d) ==
    /\ \/ Goes(d, "fetching", "look")
       \/ Goes(d, "fetching more", "look")
    /\ mu' = Nobody
    /\ UNCHANGED <<tag, installed, pending, version, disk, running, signals, late>>

-----------------------------------------------------------------------------
\* Idle, called without the mutex by handlers and by runs that ended.

\* What an idle handler does next, and what an idle run's goroutine does.
IfIdle(x) == IF x \in Delivery THEN "clear" ELSE "take"

IfBusy(x) == IF x \in Delivery THEN "defer" ELSE "over"

Look(x) ==
    /\ Goes(x, "look", IF running \cap Attempt = {} THEN "look again" ELSE IfBusy(x))
    /\ UNCHANGED <<tag, mu, installed, pending, version, disk, running, signals, late>>

\* Faulty: the repair rounds are not asked.
LookAgainNever(x) ==
    /\ Goes(x, "look again", IfIdle(x))
    /\ UNCHANGED <<tag, mu, installed, pending, version, disk, running, signals, late>>

LookAgain(x) ==
    /\ Goes(x, "look again", IF running \cap Round = {} THEN IfIdle(x) ELSE IfBusy(x))
    /\ UNCHANGED <<tag, mu, installed, pending, version, disk, running, signals, late>>

\* cutOver: restart now, on a goroutine of its own.
CutOver(d) ==
    /\ mu = Nobody
    /\ Goes(d, "clear", "answered")
    /\ pending' = FALSE
    /\ signals' = signals + 1
    /\ UNCHANGED <<tag, mu, installed, version, disk, running, late>>

Defer(d) ==
    /\ mu = Nobody
    /\ Goes(d, "defer", "answered")
    /\ pending' = TRUE
    /\ UNCHANGED <<tag, mu, installed, version, disk, running, signals, late>>

-----------------------------------------------------------------------------
\* The runs of both schedulers, and MaybeRestart, their OnDone.

\* A sweep commits the open attempt or round.
Open(j) ==
    /\ Goes(j, "queued", "opened")
    /\ UNCHANGED <<tag, mu, installed, pending, version, disk, running, signals, late>>

\* mark(id, true).
Mark(j) ==
    /\ Goes(j, "opened", "running")
    /\ running' = running \cup {j}
    /\ late' = late \cup {k \in {j} : signals > 0 \/ \E x \in Delivery \cup Run : HasLooked(x, j)}
    /\ UNCHANGED <<tag, mu, installed, pending, version, disk, signals>>

\* Faulty: OnDone is called before the run leaves the set.
UnmarkListed(j) ==
    /\ Goes(j, "running", "hook")
    /\ UNCHANGED <<tag, mu, installed, pending, version, disk, running, signals, late>>

\* mark(id, false), which calls OnDone after it.
Unmark(j) ==
    /\ Goes(j, "running", "hook")
    /\ running' = running \ {j}
    /\ UNCHANGED <<tag, mu, installed, pending, version, disk, signals, late>>

MaybeRestart(j) ==
    /\ mu = Nobody
    /\ Goes(j, "hook", IF pending THEN "look" ELSE "over")
    /\ UNCHANGED <<tag, mu, installed, pending, version, disk, running, signals, late>>

\* Faulty: what was pending at the first look is restarted for.
TakeUnchecked(j) ==
    /\ mu = Nobody
    /\ Goes(j, "take", "over")
    /\ pending' = FALSE
    /\ signals' = signals + 1
    /\ UNCHANGED <<tag, mu, installed, version, disk, running, late>>

\* The second look at pending: one of several restarts.
Take(j) ==
    /\ mu = Nobody
    /\ Goes(j, "take", "over")
    /\ pending' = FALSE
    /\ signals' = IF pending THEN signals + 1 ELSE signals
    /\ UNCHANGED <<tag, mu, installed, version, disk, running, late>>

\* What systemd starts next.
NextVersion == disk["autophaged"]

\* SIGTERM: the runs are cancelled, the handlers end or are cut off, and the
\* next process starts from what is on disk.
Terminate ==
    /\ signals > 0
    /\ signals' = 0
    /\ pc' = [x \in Delivery \cup Run |->
                 CASE pc[x] \in {"queued", "sent", "aborted", "over", "gone"} -> pc[x]
                   [] pc[x] \in {"opened", "running"} -> "aborted"
                   [] x \in Run -> "over"
                   [] OTHER -> "gone"]
    /\ version' = NextVersion
    /\ mu' = Nobody
    /\ installed' = NoTag
    /\ pending' = FALSE
    /\ running' = {}
    /\ UNCHANGED <<tag, disk, late>>

Serve(d) ==
    \/ Arrive(d) \/ Redelivered(d) \/ Older(d) \/ Fetch(d)
    \/ InstallDaemon(d) \/ InstallCLI(d) \/ InstallFails(d)
    \/ Look(d) \/ LookAgain(d) \/ CutOver(d) \/ Defer(d)

End(j) == Unmark(j) \/ MaybeRestart(j) \/ Look(j) \/ LookAgain(j) \/ Take(j)

Next ==
    \/ \E d \in Delivery : Serve(d)
    \/ \E j \in Run : Open(j) \/ Mark(j) \/ End(j)
    \/ Terminate

Spec == Init /\ [][Next]_vars

\* Fairness.  Downloads have a timeout, the mutex is held for nothing else, the
\* runs are bounded and a signal arrives.  No sweep owes a new run.
FairSpec ==
    /\ Spec
    /\ \A d \in Delivery : WF_vars(Serve(d))
    /\ \A j \in Run : WF_vars(Mark(j)) /\ WF_vars(End(j))
    /\ WF_vars(Terminate)

-----------------------------------------------------------------------------

\* Type invariant.
DeployTypeOK ==
    /\ pc \in [Delivery \cup Run -> DeliveryPc \cup RunPc]
    /\ \A d \in Delivery : pc[d] \in DeliveryPc
    /\ \A j \in Run : pc[j] \in RunPc
    /\ tag \in [Delivery -> Tag]
    /\ mu \in Delivery \cup {Nobody}
    /\ installed \in Tag \cup {NoTag}
    /\ pending \in BOOLEAN
    /\ version \in Tag
    /\ disk \in [Binary -> Tag]
    /\ running \subseteq Run
    /\ signals \in Nat
    /\ late \subseteq Run

\* Within a process the daemon's binary on disk is never behind the release
\* that was last installed as a whole.  One that failed half-way does not count:
\* an older one, if newer than the last whole one, may replace its binary.
NotBehindInstalled ==
    installed \notin Odd \cup {NoTag} /\ disk["autophaged"] \notin Odd => disk["autophaged"] >= installed

\* Every restart is for a delivery: several runs that end together, with a
\* handler beside them, send one signal for one deferral.
RestartsArePaid ==
    signals + (IF pending THEN 1 ELSE 0) <= Cardinality({d \in Delivery : pc[d] = "answered"})

\* A restart aborts only runs that a sweep opened while idleness was checked or
\* the signal was on its way, or had not marked yet.
AbortsAreLate ==
    [][\A j \in Run : pc'[j] = "aborted" /\ pc[j] = "running" => j \in late]_vars

\* No lost wake-up among the runs: a restart that was deferred while one is
\* listed is not left to the next delivery.
DeferralIsServed == (pending /\ running # {}) ~> ~pending
=============================================================================
