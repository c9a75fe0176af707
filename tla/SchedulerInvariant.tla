-------------------------- MODULE SchedulerInvariant --------------------------
(***************************************************************************)
(* The inductive invariant behind the safety properties of                 *)
(* ExecutionScheduler, job by job.                                         *)
(***************************************************************************)
EXTENDS ExecutionScheduler

\* Nothing is known of an attempt that has not been leased.
FutureUntouched(j) ==
    \A a \in Attempts : a > lease[j].attempt =>
        terminal[j][a] = "none" /\ frame[j][a] = 0 /\ answer[j][a] = "none"

\* An accepted dispatch is one of the current lease.
AuthorityIsCurrent(j) == authority[j] # 0 => authority[j] = lease[j].attempt

\* A cancelled job waits for its worker or has ended, and only a cancelled job waits.
CancelledIsLeaving(j) ==
    /\ job[j].cancelled => job[j].state \in {"cancelling", "failed"}
    /\ job[j].state = "cancelling" => job[j].cancelled

\* A queued job has not been attempted.
QueuedIsFirst(j) == job[j].state = "queued" => job[j].attempt = 1

\* No lease of a revoked device is open.
RevokedIsClosed(j) == revoked /\ j \in DeviceJobs => ~Open(j)

\* An execution exists only between an accepted dispatch and its outcome, and obeys a
\* frame it was sent; it was cancelled only if the job was.
WorkerAgrees(j) ==
    \A a \in Attempts :
        /\ deadline[j][a] <= frame[j][a]
        /\ answer[j][a] # "accepted" => deadline[j][a] = 0 /\ outcome[j][a] = "none"
        /\ outcome[j][a] # "none" => deadline[j][a] = 0
        /\ outcome[j][a] = "cancelled" => job[j].cancelled

\* The worker of the current lease has been told the expiry the registry has.
FrameIsLease(j) == lease[j] # NoLease => frame[j][lease[j].attempt] = lease[j].expires

\* The execution of an attempt is over for good: it can neither start nor be extended.
Over(j, a) == frame[j][a] <= now \/ (deadline[j][a] = 0 /\ answer[j][a] # "none")

\* An attempt is replaced only when its execution is over.
ReplacedIsOver(j) == \A a \in Attempts : a < lease[j].attempt => Over(j, a)

\* A lease failed because its dispatch was refused or its execution reported.
FailedHasReason(j) ==
    \A a \in Attempts : a = lease[j].attempt /\ terminal[j][a] = "failed" =>
        answer[j][a] = "rejected" \/ outcome[j][a] # "none"

\* A renewal that has been built prolongs the lease it was built from.
RenewalProlongs(j) ==
    renewal[j] # NoRenewal => renewal[j].prior < renewal[j].sent + LeaseTime

\* A decision is about an outcome that has been reported.
DecisionHasOutcome(j) ==
    decision[j] # NoDecision => outcome[j][decision[j].attempt] # "none"

JobInv(j) ==
    /\ Agrees(j) /\ FutureUntouched(j) /\ AuthorityIsCurrent(j) /\ CancelledIsLeaving(j)
    /\ RevokedIsClosed(j) /\ WorkerAgrees(j) /\ FrameIsLease(j) /\ ReplacedIsOver(j)
    /\ FailedHasReason(j) /\ RenewalProlongs(j) /\ DecisionHasOutcome(j)
    /\ QueuedIsFirst(j)

IInv == TypeOK /\ \A j \in Jobs : JobInv(j)

\* The jobs that CancelledForGood is about, and what a step may do to one.
Closed(j) == job[j].cancelled \/ (revoked /\ j \in DeviceJobs)

StaysClosed(j) ==
    /\ job[j].cancelled => job'[j].cancelled
    /\ lease'[j].attempt = lease[j].attempt
    /\ job'[j].state \in {job[j].state, "failed"}

\* How an attempt ended is never rewritten, and the attempt of a lease, which is its
\* fencing token, never goes back.
Stands(j) ==
    /\ lease'[j].attempt >= lease[j].attempt
    /\ \A a \in Attempts : terminal[j][a] # "none" => terminal'[j][a] = terminal[j][a]

TokensAndTerminalsStand == [][\A j \in Jobs : Stands(j)]_vars
=============================================================================
