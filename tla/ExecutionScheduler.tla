-------------------------- MODULE ExecutionScheduler --------------------------
(***************************************************************************)
(* Execution jobs, their attempts and their leases: the durable queue      *)
(* (execution_queue.rs), the registry of workers, leases, lease terminals  *)
(* and dispatch authorities (execution_registry.rs), and the repository    *)
(* scheduler that moves both in one transaction (repository_scheduler.rs). *)
(*                                                                         *)
(* A request that the code refuses, or that replays a receipt, changes     *)
(* nothing and is a stuttering step.  The fencing token of a lease is its  *)
(* attempt and its identity is derived from job and attempt, so an attempt *)
(* stands for both.  The revision of a job is left out: no job ever        *)
(* returns to a state, attempt and cancellation it had, so comparing those *)
(* is comparing revisions.                                                 *)
(*                                                                         *)
(* Time is the server's clock.  A worker measures what is left of a lease  *)
(* from before its request, so its own deadline is never later than the    *)
(* expiry in the frame it obeys.  Its deadline takes the authority from an *)
(* execution and does not end it: the process is being stopped from then   *)
(* on, which takes its time and may fail, and it may still report.         *)
(***************************************************************************)
EXTENDS Naturals

CONSTANTS
    NumJobs,      \* jobs, numbered in the order of submission
    Deps,         \* the jobs each job depends on
    DeviceJobs,   \* jobs executed by workers of a device: to recover one needs a new
                  \* grant, and the device may be revoked
    Workers,
    LeaseTime,    \* duration of a lease
    MaxTime,      \* bound: the clock
    MaxInstance,  \* bound: processes of a worker
    MaxAttempt    \* bound: attempts of a job

Jobs == 1..NumJobs
Attempts == 1..MaxAttempt
Instances == 1..MaxInstance
Expiries == 0..(MaxTime + LeaseTime)

ASSUME SchedulerBounds ==
    /\ NumJobs \in Nat /\ LeaseTime \in Nat \ {0} /\ MaxTime \in Nat
    /\ MaxInstance \in Nat \ {0} /\ MaxAttempt \in Nat \ {0}
    /\ DeviceJobs \subseteq Jobs
    /\ Deps \in [Jobs -> SUBSET Jobs] /\ \A j \in Jobs : \A d \in Deps[j] : d < j

States == {"queued", "leased", "running", "cancelling", "completed", "failed"}
Outcomes == {"none", "completed", "failed", "cancelled"}
Answers == {"none", "accepted", "rejected"}

JobRows == [state : States, attempt : Attempts, cancelled : BOOLEAN]
NoLease == [attempt |-> 0, worker |-> "none", instance |-> 0, expires |-> 0]
Leases == {NoLease} \cup
    [attempt : Attempts, worker : Workers, instance : Instances, expires : Expiries]
NoRenewal == [attempt |-> 0, prior |-> 0, sent |-> 0]
Renewals == {NoRenewal} \cup [attempt : Attempts, prior : Expiries, sent : 0..MaxTime]
NoDecision == [attempt |-> 0, expires |-> 0, cancelling |-> FALSE]
Decisions == {NoDecision} \cup
    [attempt : Attempts, expires : Expiries, cancelling : BOOLEAN]

VARIABLES
    now,
    \* durable
    job,       \* scheduler_execution_jobs
    lease,     \* execution_leases: one row per job
    terminal,  \* execution_lease_terminals: per job and attempt
    authority, \* execution_dispatch_authorities: the accepted attempt, or 0
    current,   \* execution_workers.worker_instance_id
    offered,   \* repository_scheduler_offers of the running generation
    cleanup,   \* execution-outcome stream of the current attempt
    revoked,   \* device_identity_bindings.revoked_at is set
    \* server, between two transactions
    renewal,   \* a renewal that has been built and not written
    decision,  \* the decision about an outcome that has not been committed
    \* workers and their outboxes
    frame,     \* latest expiry carried to the worker of an attempt, 0 if none
    deadline,  \* deadline of the execution of an attempt, 0 if nothing executes it
    answer,    \* dispatch result of the attempt
    outcome    \* job outcome of the attempt

registry == <<lease, terminal, authority>>
fleet == <<current, revoked>>
server == <<renewal, decision>>
worker == <<frame, deadline, answer, outcome>>
vars == <<now, job, registry, fleet, offered, cleanup, server, worker>>

PerAttempt(S) == [Jobs -> [Attempts -> S]]

TypeOK ==
    /\ now \in 0..MaxTime
    /\ job \in [Jobs -> JobRows] /\ lease \in [Jobs -> Leases]
    /\ terminal \in PerAttempt(Outcomes) /\ authority \in [Jobs -> 0..MaxAttempt]
    /\ current \in [Workers -> Instances] /\ offered \subseteq Jobs
    /\ cleanup \in [Jobs -> {"none", "pending", "done"}] /\ revoked \in BOOLEAN
    /\ renewal \in [Jobs -> Renewals] /\ decision \in [Jobs -> Decisions]
    /\ frame \in PerAttempt(Expiries) /\ deadline \in PerAttempt(Expiries)
    /\ answer \in PerAttempt(Answers) /\ outcome \in PerAttempt(Outcomes)

\* insert_submission: every job has been submitted with its dependencies.
Init ==
    /\ now = 0
    /\ job = [j \in Jobs |-> [state |-> "queued", attempt |-> 1, cancelled |-> FALSE]]
    /\ lease = [j \in Jobs |-> NoLease]
    /\ terminal = [j \in Jobs |-> [a \in Attempts |-> "none"]]
    /\ authority = [j \in Jobs |-> 0]
    /\ current = [w \in Workers |-> 1]
    /\ offered = {} /\ cleanup = [j \in Jobs |-> "none"] /\ revoked = FALSE
    /\ renewal = [j \in Jobs |-> NoRenewal] /\ decision = [j \in Jobs |-> NoDecision]
    /\ frame = [j \in Jobs |-> [a \in Attempts |-> 0]]
    /\ deadline = [j \in Jobs |-> [a \in Attempts |-> 0]]
    /\ answer = [j \in Jobs |-> [a \in Attempts |-> "none"]]
    /\ outcome = [j \in Jobs |-> [a \in Attempts |-> "none"]]
-----------------------------------------------------------------------------
(* Registry *)

Owned(j) == lease[j] # NoLease /\ lease[j].instance = current[lease[j].worker]

\* The current lease has no terminal.
Open(j) == lease[j] # NoLease /\ terminal[j][lease[j].attempt] = "none"

\* What claim_execution_job_in_transaction leaves behind: a new lease, the accepted
\* dispatch of the previous one deleted, and the frame that offers it.
Grant(j, a, w, i) ==
    /\ lease' = [lease EXCEPT ![j] = [attempt |-> a, worker |-> w, instance |-> i,
                                      expires |-> now + LeaseTime]]
    /\ authority' = [authority EXCEPT ![j] = 0]
    /\ frame' = [frame EXCEPT ![j][a] = now + LeaseTime]
    /\ offered' = offered \cup {j}

\* finish_execution_lease_in_transaction
Finish(j, result) == terminal' = [terminal EXCEPT ![j][lease[j].attempt] = result]

SetState(j, state) == job' = [job EXCEPT ![j].state = state]

\* replace_execution_job_attempt_in_transaction
NextAttempt(j) == job' = [job EXCEPT ![j].state = "leased", ![j].attempt = @ + 1]

\* register_worker: a new process of the worker takes its place.  The old one may
\* still be running.
Register(w) ==
    /\ current[w] < MaxInstance
    /\ current' = [current EXCEPT ![w] = @ + 1]
    /\ UNCHANGED <<now, job, registry, offered, cleanup, revoked, server, worker>>
-----------------------------------------------------------------------------
(* Scheduler: claim_next *)

\* recover_active_job: the active jobs of a worker that go before any queued one.
Recoverable(w, i, ready) ==
    {j \in Jobs : /\ job[j].state \in {"leased", "running"}
                  /\ lease[j].worker = w
                  /\ IF lease[j].instance = i THEN j \notin offered ELSE j \in ready}

\* recovery_ready: a job without a device always is, a device job once a successor
\* grant has been prepared.
ReadySets == {(Jobs \ DeviceJobs) \cup D : D \in SUBSET DeviceJobs}

\* The oldest of them is the one that is looked at.
Recovers(w, i, ready, j) ==
    j \in Recoverable(w, i, ready) /\ \A k \in Recoverable(w, i, ready) : j <= k

\* A dispatch of this very process that this generation has not sent is sent again.
Reoffer(w, i, ready) ==
    /\ \E j \in Jobs :
          /\ Recovers(w, i, ready, j) /\ lease[j].instance = i
          /\ offered' = offered \cup {j}
          /\ frame' = [frame EXCEPT ![j][lease[j].attempt] = lease[j].expires]
    /\ UNCHANGED <<now, job, registry, fleet, cleanup, server, deadline, answer, outcome>>

\* Mutant: a new process takes over without waiting for the lease to expire.
ReplaceAtOnce(w, i, ready) ==
    /\ i = current[w]
    /\ \E j \in Jobs :
          /\ Recovers(w, i, ready, j) /\ lease[j].instance # i
          /\ Open(j) /\ job[j].attempt < MaxAttempt
          /\ Finish(j, "failed")
          /\ NextAttempt(j)
          /\ Grant(j, job[j].attempt + 1, w, i)
    /\ UNCHANGED <<now, fleet, cleanup, server, deadline, answer, outcome>>

\* replacement_receipt: the job of a former process goes to the current one as a new
\* attempt, once the lease of the former one has expired; until then it waits.
Replace(w, i, ready) ==
    /\ i = current[w]
    /\ \E j \in Jobs :
          /\ Recovers(w, i, ready, j) /\ lease[j].instance # i
          /\ now >= lease[j].expires /\ Open(j) /\ job[j].attempt < MaxAttempt
          /\ Finish(j, "failed")
          /\ NextAttempt(j)
          /\ Grant(j, job[j].attempt + 1, w, i)
    /\ UNCHANGED <<now, fleet, cleanup, server, deadline, answer, outcome>>

\* select_ready_job, has_blocking_dependency; a device that has been revoked gets no
\* binding any more.
Ready(j) ==
    /\ revoked => j \notin DeviceJobs
    /\ job[j].state = "queued" /\ ~job[j].cancelled
    /\ \A d \in Deps[j] : job[d].state = "completed" /\ ~job[d].cancelled

\* claim_ready_job: which of the ready jobs is the fairness policy's choice.
ClaimReady(w, i, ready) ==
    /\ i = current[w] /\ Recoverable(w, i, ready) = {}
    /\ \E j \in Jobs :
          /\ Ready(j)
          /\ SetState(j, "leased")
          /\ Grant(j, job[j].attempt, w, i)
    /\ UNCHANGED <<now, terminal, fleet, cleanup, server, deadline, answer, outcome>>

\* retry_failed: an uncancelled failed job whose accepted outcome has been cleaned up.
Retryable(j) ==
    job[j].state = "failed" /\ ~job[j].cancelled /\ cleanup[j] # "pending"

\* retry_failed_receipt: another attempt, which the registry refuses unless the last
\* lease failed.
RetryFailed(j, w) ==
    /\ Retryable(j) /\ j \notin DeviceJobs /\ job[j].attempt < MaxAttempt
    /\ lease[j].attempt = job[j].attempt /\ terminal[j][lease[j].attempt] = "failed"
    /\ NextAttempt(j)
    /\ Grant(j, job[j].attempt + 1, w, current[w])
    /\ cleanup' = [cleanup EXCEPT ![j] = "none"]
    /\ UNCHANGED <<now, terminal, fleet, server, deadline, answer, outcome>>

\* A restarted scheduler has a generation of its own, without offers; what it was
\* about to write is gone.
Restart ==
    /\ offered' = {}
    /\ renewal' = [j \in Jobs |-> NoRenewal] /\ decision' = [j \in Jobs |-> NoDecision]
    /\ UNCHANGED <<now, job, registry, fleet, cleanup, worker>>
-----------------------------------------------------------------------------
(* Dispatch results and cancellation *)

\* record_dispatch_result_in_transaction: an answer about the current lease.
AnswerHolds(j, a) == Owned(j) /\ Open(j) /\ lease[j].attempt = a

\* record_dispatch_result: the first such answer.  An accepted one starts the job, any
\* other ends the lease and the job.
RecordAnswer(j, a) ==
    /\ answer[j][a] # "none" /\ AnswerHolds(j, a) /\ authority[j] # a
    /\ job[j].state = "leased" /\ job[j].attempt = a
    /\ IF answer[j][a] = "accepted"
       THEN /\ SetState(j, "running")
            /\ authority' = [authority EXCEPT ![j] = a] /\ UNCHANGED terminal
       ELSE SetState(j, "failed") /\ Finish(j, "failed") /\ UNCHANGED authority
    /\ UNCHANGED <<now, lease, fleet, offered, cleanup, server, worker>>

Active == {"queued", "leased", "running"}

\* Mutant: a job whose dispatch has not been accepted ends with its lease open.
RequestCancellationOnly(j) ==
    /\ job[j].state \in Active
    /\ job' = [job EXCEPT ![j].cancelled = TRUE,
                          ![j].state = IF authority[j] # 0 THEN "cancelling" ELSE "failed"]
    /\ UNCHANGED <<now, registry, fleet, offered, cleanup, server, worker>>

\* Mutant: every leased job waits for its worker.
RequestCancellationAndWait(j) ==
    /\ job[j].state \in Active
    /\ job' = [job EXCEPT ![j].cancelled = TRUE,
                          ![j].state = IF lease[j] # NoLease THEN "cancelling" ELSE "failed"]
    /\ UNCHANGED <<now, registry, fleet, offered, cleanup, server, worker>>

\* request_cancellation: a job whose dispatch was accepted waits for its worker; any
\* other ends at once, and its lease with it.
RequestCancellation(j) ==
    /\ job[j].state \in Active
    /\ IF authority[j] # 0
       THEN /\ job' = [job EXCEPT ![j].state = "cancelling", ![j].cancelled = TRUE]
            /\ UNCHANGED terminal
       ELSE /\ job' = [job EXCEPT ![j].state = "failed", ![j].cancelled = TRUE]
            /\ IF lease[j] = NoLease THEN UNCHANGED terminal
               ELSE Open(j) /\ Finish(j, "cancelled")
    /\ UNCHANGED <<now, lease, authority, fleet, offered, cleanup, server, worker>>

\* revoke_device_identity, settle_revoked_executions: every open lease of the device is
\* cancelled and its job failed, in the transaction of the revocation; so are the queued
\* jobs that already have their binding.
Revoke ==
    /\ ~revoked /\ revoked' = TRUE
    /\ \E bound \in SUBSET {j \in DeviceJobs : job[j].state = "queued"} :
          LET held == {j \in DeviceJobs : Open(j)}
          IN  /\ job' = [j \in Jobs |->
                    CASE j \in held  -> [job[j] EXCEPT !.state = "failed"]
                      [] j \in bound -> [job[j] EXCEPT !.state = "failed", !.cancelled = TRUE]
                      [] OTHER       -> job[j]]
              /\ terminal' = [j \in Jobs |->
                    IF j \in held THEN [terminal[j] EXCEPT ![lease[j].attempt] = "cancelled"]
                    ELSE terminal[j]]
    /\ UNCHANGED <<now, lease, authority, current, offered, cleanup, server, worker>>
-----------------------------------------------------------------------------
(* Lease renewal *)

\* renew_heartbeat_leases: a heartbeat that lists a live lease with the expiry the
\* registry has; the execution that sent it may be gone by now.  The code also waits
\* until the lease is in the last part of its time, so it renews less often than this.
\* The clock is read here ...
BuildRenewal(j) ==
    /\ renewal[j] = NoRenewal
    /\ Owned(j) /\ Open(j) /\ authority[j] = lease[j].attempt
    /\ now < lease[j].expires /\ lease[j].expires < now + LeaseTime
    /\ deadline[j][lease[j].attempt] \in {0, lease[j].expires}
    /\ renewal' = [renewal EXCEPT ![j] =
                      [attempt |-> lease[j].attempt, prior |-> lease[j].expires, sent |-> now]]
    /\ UNCHANGED <<now, job, registry, fleet, offered, cleanup, decision, worker>>

RenewalHolds(j) ==
    /\ Owned(j) /\ Open(j)
    /\ lease[j].attempt = renewal[j].attempt /\ lease[j].expires = renewal[j].prior

\* Mutant: the lease is prolonged from its old end.
WriteRenewalFromEnd(j) ==
    /\ renewal[j] # NoRenewal
    /\ renewal' = [renewal EXCEPT ![j] = NoRenewal]
    /\ IF RenewalHolds(j)
       THEN /\ lease' = [lease EXCEPT ![j].expires = @ + LeaseTime]
            /\ frame' = [frame EXCEPT ![j][lease[j].attempt] = lease[j].expires + LeaseTime]
       ELSE UNCHANGED <<lease, frame>>
    /\ UNCHANGED <<now, job, terminal, authority, fleet, offered, cleanup, decision,
                   deadline, answer, outcome>>

\* ... and renew_execution_lease compares and writes here, together with the frame.
WriteRenewal(j) ==
    /\ renewal[j] # NoRenewal
    /\ renewal' = [renewal EXCEPT ![j] = NoRenewal]
    /\ IF RenewalHolds(j)
       THEN /\ lease' = [lease EXCEPT ![j].expires = renewal[j].sent + LeaseTime]
            /\ frame' = [frame EXCEPT ![j][lease[j].attempt] = renewal[j].sent + LeaseTime]
       ELSE UNCHANGED <<lease, frame>>
    /\ UNCHANGED <<now, job, terminal, authority, fleet, offered, cleanup, decision,
                   deadline, answer, outcome>>
-----------------------------------------------------------------------------
(* Terminal outcomes *)

\* terminal_decision: what the outcome of the accepted attempt will count as.
Decide(j, a) ==
    /\ outcome[j][a] # "none" /\ decision[j] = NoDecision /\ cleanup[j] = "none"
    /\ lease[j].attempt = a /\ authority[j] = a
    /\ decision' = [decision EXCEPT ![j] =
                       [attempt |-> a, expires |-> lease[j].expires,
                        cancelling |-> job[j].state = "cancelling"]]
    /\ UNCHANGED <<now, job, registry, fleet, offered, cleanup, renewal, worker>>

\* Mutant: the job is not compared with the one the decision was made about.
DecisionHoldsForLease(j) ==
    /\ Owned(j) /\ Open(j) /\ authority[j] = decision[j].attempt
    /\ lease[j].attempt = decision[j].attempt /\ lease[j].expires = decision[j].expires
    /\ job[j].state \in {"running", "cancelling"}

\* validate_decision and the guard of commit_with_execution_terminal.
DecisionHolds(j) ==
    /\ Owned(j) /\ Open(j) /\ authority[j] = decision[j].attempt
    /\ lease[j].attempt = decision[j].attempt /\ lease[j].expires = decision[j].expires
    /\ job[j].state = IF decision[j].cancelling THEN "cancelling" ELSE "running"

\* An outcome that arrives for a cancelling job counts as its cancellation.
Result(j) == IF decision[j].cancelling THEN "cancelled" ELSE outcome[j][decision[j].attempt]

\* commit_with_execution_terminal, settle_terminal_in_transaction
CommitOutcome(j) ==
    /\ decision[j] # NoDecision
    /\ decision' = [decision EXCEPT ![j] = NoDecision]
    /\ IF DecisionHolds(j)
       THEN /\ Finish(j, Result(j))
            /\ SetState(j, IF Result(j) = "completed" THEN "completed" ELSE "failed")
            /\ cleanup' = [cleanup EXCEPT ![j] = "pending"]
       ELSE UNCHANGED <<terminal, job, cleanup>>
    /\ UNCHANGED <<now, lease, authority, fleet, offered, renewal, worker>>

\* mark_acknowledgement_ready
Acknowledge(j) ==
    /\ cleanup[j] = "pending"
    /\ cleanup' = [cleanup EXCEPT ![j] = "done"]
    /\ UNCHANGED <<now, job, registry, fleet, offered, server, worker>>
-----------------------------------------------------------------------------
(* Workers: modelled by what they send *)

\* receive_response, accept_dispatch: a dispatch that arrives before its deadline starts
\* an execution, which keeps that deadline ...
Accept(j, a) ==
    /\ frame[j][a] > now /\ answer[j][a] = "none"
    /\ answer' = [answer EXCEPT ![j][a] = "accepted"]
    /\ deadline' = [deadline EXCEPT ![j][a] = frame[j][a]]
    /\ UNCHANGED <<now, job, registry, fleet, offered, cleanup, server, frame, outcome>>

\* ... or a refusal: no capacity, no capability, too late.
Reject(j, a) ==
    /\ frame[j][a] > 0 /\ answer[j][a] = "none"
    /\ answer' = [answer EXCEPT ![j][a] = "rejected"]
    /\ UNCHANGED <<now, job, registry, fleet, offered, cleanup, server, frame,
                   deadline, outcome>>

\* check_authority, confirm: a renewal extends an execution that has not reached its
\* deadline.  One that comes later ends it, see Report and Die.
Extend(j, a) ==
    /\ now < deadline[j][a] /\ deadline[j][a] < frame[j][a]
    /\ deadline' = [deadline EXCEPT ![j][a] = frame[j][a]]
    /\ UNCHANGED <<now, job, registry, fleet, offered, cleanup, server, frame,
                   answer, outcome>>

\* finish_job: the execution ends with an outcome, "cancelled" only if it was told to
\* stop.  It may do so after its deadline: a renewal that is consumed too late fails the
\* job, and a worker that stops sends the outcomes it has kept ...
Report(j, a, result) ==
    /\ deadline[j][a] > 0 /\ outcome[j][a] = "none"
    /\ result = "cancelled" => job[j].state = "cancelling" /\ lease[j].attempt = a
    /\ outcome' = [outcome EXCEPT ![j][a] = result]
    /\ deadline' = [deadline EXCEPT ![j][a] = 0]
    /\ UNCHANGED <<now, job, registry, fleet, offered, cleanup, server, frame, answer>>

\* ... or without one: it dies, or its deadline or that of another job of its process
\* has passed and shutdown_worker has stopped it, at some time after.
Die(j, a) ==
    /\ deadline[j][a] > 0
    /\ deadline' = [deadline EXCEPT ![j][a] = 0]
    /\ UNCHANGED <<now, job, registry, fleet, offered, cleanup, server, frame,
                   answer, outcome>>

Tick ==
    /\ now < MaxTime
    /\ now' = now + 1
    /\ UNCHANGED <<job, registry, fleet, offered, cleanup, server, worker>>
-----------------------------------------------------------------------------
Drive(w, i, ready) ==
    Reoffer(w, i, ready) \/ Replace(w, i, ready) \/ ClaimReady(w, i, ready)

Results == {"completed", "failed", "cancelled"}

Next ==
    \/ \E w \in Workers :
          \/ Register(w)
          \/ \E i \in 1..current[w], ready \in ReadySets : Drive(w, i, ready)
          \/ \E j \in Jobs : RetryFailed(j, w)
    \/ \E j \in Jobs :
          \/ RequestCancellation(j) \/ BuildRenewal(j) \/ WriteRenewal(j)
          \/ CommitOutcome(j) \/ Acknowledge(j)
          \/ \E a \in Attempts :
                \/ RecordAnswer(j, a) \/ Decide(j, a) \/ Accept(j, a) \/ Reject(j, a)
                \/ Extend(j, a) \/ Die(j, a) \/ \E r \in Results : Report(j, a, r)
    \/ Revoke \/ Restart \/ Tick

Spec == Init /\ [][Next]_vars

\* A worker that is told to stop reports, and what has been reported is handled.  The
\* outcome stays in the outbox of the worker until it is: strong fairness says that the
\* server does not restart between every decision and its commit.
Fairness ==
    \A j \in Jobs :
        /\ \A a \in Attempts :
              /\ WF_vars(job[j].state = "cancelling" /\ \E r \in Results : Report(j, a, r))
              /\ WF_vars(Decide(j, a))
        /\ SF_vars(CommitOutcome(j))

FairSpec == Spec /\ Fairness
-----------------------------------------------------------------------------
(* Properties *)

\* Something executes the attempt, perhaps while it is being stopped.
Running(j, a) == deadline[j][a] > 0

\* Nobody but the attempt that has the lease is within its deadline.  The execution of a
\* replaced attempt may still be there, for shutdown_worker takes its time: it has lost
\* its authority for good, whatever processes the worker has and however late a renewal
\* is written or consumed, since every frame that was sent to it has run out too
\* (recover_active_job waits for the expiry, renew_execution_lease compares, confirm
\* checks the deadline before it moves it).
ExclusiveAuthority ==
    \A j \in Jobs : \A a \in Attempts :
        Running(j, a) /\ a # lease[j].attempt => deadline[j][a] <= now /\ frame[j][a] <= now

\* How the current lease has ended.
Last(j) == IF lease[j] = NoLease THEN "none" ELSE terminal[j][lease[j].attempt]

Agrees(j) ==
    /\ lease[j] # NoLease => lease[j].attempt = job[j].attempt
    /\ \A a \in 1..(lease[j].attempt - 1) : terminal[j][a] = "failed"
    /\ lease[j] = NoLease => job[j].state = "queued" \/ job[j].cancelled
    /\ job[j].state = "queued" => lease[j] = NoLease
    /\ job[j].state \in {"leased", "running", "cancelling"} => Open(j)
    /\ job[j].state \in {"completed", "failed"} => ~Open(j)
    /\ job[j].state \in {"running", "cancelling"} => authority[j] = job[j].attempt
    /\ job[j].state = "leased" => authority[j] = 0
    /\ job[j].state = "completed" <=> Last(j) = "completed"
    /\ Last(j) = "failed" => job[j].state = "failed" /\ ~job[j].cancelled
    /\ Last(j) = "cancelled" =>
          job[j].state = "failed" /\ (job[j].cancelled \/ (revoked /\ j \in DeviceJobs))

\* Queue and registry tell the same story after every transaction, and every attempt
\* before the current one has ended as failed: neither "active queue job has no Registry
\* lease", "dispatch authority differs from the current lease" nor "lease terminal replay
\* conflicts" is reachable, and a replaced process left nothing open that a late message
\* could still settle.
RegistryAgrees == \A j \in Jobs : Agrees(j)

\* A cancelled job, and any job of a revoked device, gets no other attempt and does not
\* complete any more, not even when its worker finished before it was told, and the
\* decision about that was already made; and nothing of a revoked device stays open.
CancelledForGood ==
    [][\A j \in Jobs : job[j].cancelled \/ (revoked /\ j \in DeviceJobs) =>
          /\ job[j].cancelled => job'[j].cancelled
          /\ lease'[j].attempt = lease[j].attempt
          /\ job'[j].state \in {job[j].state, "failed"}
          /\ revoked /\ j \in DeviceJobs => ~Open(j)]_vars

\* The process that executes the job has been replaced, or has died.
Lost(j) ==
    LET a == lease[j].attempt
    IN  ~Owned(j) \/ (deadline[j][a] = 0 /\ outcome[j][a] = "none")

\* A cancellation that was accepted comes to its end unless the process it waits for
\* is lost: nothing takes the job of a lost process over any more.
CancellationEnds ==
    \A j \in Jobs : <>[](job[j].state = "cancelling") => <>[]Lost(j)
=============================================================================
