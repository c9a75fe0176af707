# WinWinCode: formal models of the device control plane

This directory holds TLA+ models of WinWinCode, the properties that make the
modelled parts correct, TLC configurations that check them on small instances,
and TLAPS proofs that establish the most important ones for every instance.
`PROJECT.json` maps every definition to the source lines it models and lists
runs, mutants, findings, hazards and theorems in machine-readable form.

1. [The system](#1-the-system)
2. [Modules](#2-modules-and-how-they-correspond-to-the-code)
3. [Runs and what they show](#3-runs-and-what-they-show)
4. [Fairness](#4-fairness)
5. [Proofs](#5-proofs)
6. [Disagreements between code and documentation](#6-disagreements-found)
7. [What is not modelled](#7-what-is-not-modelled)
8. [Plan](#8-plan)

## 1. The system

WinWinCode runs coding agents on users' own machines:

    Browser <-> Server / Control Plane <-> Device Client <-> Worker <-> Codex

The *server* is the authority. It keeps users, devices, occupancy leases, jobs
and outcomes in SQLite. A *device client* is a daemon on a user's machine; it
polls the server over HTTPS (the *control exchange*), mirrors the authority it
was given, and starts, supervises and stops *workers*. A worker embeds a Codex
core and talks to model *providers*. First-party Rust code lives in
`src/crates/*`, the browser client in `src/apps/client`, and
`src/third_party/codex` is vendored. The documents `docs/invariants.md`,
`docs/architecture/overview.md` and `docs/contracts.md` state the intended
behaviour.

### Inventory

| Component | State it keeps | Operations | What is hard | What makes it correct |
|---|---|---|---|---|
| Control exchange, device to server (`client-port/exchange`, `device-client/daemon.rs`, `server/client_exchange.rs`, `storage/client_registry.rs`) | device: durable outbox, published prefix, frozen envelopes, delivery cursor; server: current instance, cursor, frame and command rows | enqueue, send, retry, acknowledge, replay; settle a batch frame by frame, take over by a new launch | lost and late requests, crash between effect and completion, relaunch, administration processes that share the outbox | nothing forgotten before it is taken, no effect lost or repeated, the retry loop converges |
| Control exchange, server to device (`storage/client_downlink.rs`, `server/client_exchange.rs`, `device-client/daemon.rs`) | server: downlink rows, acknowledged prefix; device: inbox cursor, frozen acknowledgement, configuration thread | append, deliver, retain, ingest, consume | two handlers at one position, stale acknowledgements, a head that cannot be applied, effect and cursor in two commits | commands arrive in order, none is skipped, deleted early or blocked |
| Occupancy (`storage/client_occupancy.rs`, `server/client_occupancy.rs`, `device-client/fencing.rs`, `daemon.rs`) | leases, token counter, recovery rows, presence, observed mirror revision; device mirror | claim, offer, acknowledge, reject, time out, release, drain, sweep, recover, force release, fence | each request is several transactions, late acknowledgements, two databases, offline devices | server and device agree on the occupant; superseded authority is gone |
| Network journal and retry policy (`network/journal.rs`, `policy.rs`) | one row per open request, one record per attempt | prepare, finish, resume, price | a caller dies between send and commit, callers overlap, late results | no paid request is sent beyond its budget or after success, no mutation is repeated blindly |
| Device identity and authentication | key pair, enrolment, connect codes, challenges | enrol, sign, revoke | expiry and attempt limits | a revoked device is refused |
| Worker supervision (`device-client/supervisor.rs`) | worker records, stop intents, process handles | launch, adopt, stop, report | restart between spawn and record, late exits | every launched worker is reported once |
| Launch grants, scheduler, execution bindings | grants, reservations, bindings | grant, reserve, acknowledge, settle | occupancy token changes under a grant | no worker runs without a live grant |
| Candidate application (`device-client/apply_engine.rs`, `application_journal.rs`, `storage/candidate_applications.rs`, `local_candidate.rs`, `server/client_exchange.rs`) | server: approvals, receipts, candidate state; device: journal, local state; repository: branch, worktree | approve, apply, recover, report, settle, discard | a crash at every step, leases that change, a user who commits meanwhile | what is recorded happened, what happened is recorded, nothing is tried again that may have been done |
| Candidate registry and retention | candidates, anchors, retention rows | retain, release, collect | collection racing with an application | an anchored candidate is never collected |
| Execution registry and scheduler (`storage/execution_queue.rs`, `execution_registry.rs`, `repository_scheduler.rs`) | jobs, attempts, leases, lease terminals, dispatch authorities, offers | submit, claim, offer again, replace, renew, cancel, settle, retry, revoke | a replaced process that still runs, late renewals and answers, decisions made before the commit | only the current attempt of a job has authority, queue and registry agree, a cancellation stands and ends |
| Terminal outcomes and runtime events | outcome rows, event cursors | commit outcome, append event, route recovery | replayed or contradicting outcomes | exactly one terminal outcome per attempt |
| Storage commit, command receipts, outbox | revisions, receipts, outbox rows | commit, replay, drain | commit without answer | a command takes effect once |
| Worker outbound queue and session slots | queue rows, slots | push, acknowledge, take, free | reconnects, full slots | no slot is held by two sessions |
| Publication coordinator | operation rows, step outcomes | start, step, reconcile | external service with unknown outcome | nothing is published twice |
| Product sessions | sessions, bindings | create, bind, close | two workers for one session | one binding at a time |
| Delivery workflow | event-sourced delivery state | stages, gates, decisions | long sequences | no gate is passed twice |
| Model stream flow control and request pool | credits, pool entries | admit, grant, settle, cancel | cancellation racing with data | credits are conserved |
| Codex adapter, worker runtime | durable outboxes, stores | drive Codex | as in the exchange | as in the exchange |
| Provider adapters, fusion, audit, previews, repository bindings, event hub, CLI, generated contracts | see `PROJECT.json` | | mostly I/O, formatting or cryptography | |

### How the modelled parts interact

The daemon is a single loop: enqueue reports, send one batch, wait, apply the
response. One HTTP request carries both halves of the exchange: uplink frames
and the device's acknowledgement one way, the server's acknowledgement and
downlink commands the other. Each half is an ordered stream. Occupancy commands
travel down and their answers travel up; request handlers of the server and the
exchange share SQLite, one transaction at a time. Every send goes through the
network journal, which freezes the bytes of an operation and decides about
retries. An application of a candidate travels over the same two streams, under
the lease of Occupancy. Jobs are dispatched to workers over a connection of their
own; queue, registry and scheduler are tables of one database that every
operation changes in one transaction.

## 2. Modules and how they correspond to the code

| Module | Role |
|---|---|
| `OrderedStream` | abstract: a stream with a delivered and a confirmed position |
| `UplinkExchange` | device-to-server half of the exchange; implements `OrderedStream` |
| `UplinkInvariant`, `UplinkProofs` | its inductive invariant; its theorems |
| `DownlinkExchange` | server-to-device half; implements `OrderedStream` |
| `DownlinkInvariant`, `DownlinkProofs` | its inductive invariant; its theorems |
| `Occupancy` | leases, tokens and the device mirror, over two streams that behave as `OrderedStream` promises |
| `OccupancyInvariant`, `OccupancyProofs` | its inductive invariant; its theorems |
| `NetworkJournal` | the request journal and the retry policy |
| `JournalInvariant`, `JournalProofs` | its inductive invariant; its theorems |
| `CandidateApplication` | applying a candidate: approval, device journal, Git, recovery and settlement |
| `ApplicationInvariant`, `ApplicationProofs` | its inductive invariant; its theorems |
| `SettlementInvariant`, `SettlementProofs` | the invariant of leases, frames and plans on top of it; the theorem that no applied result is lost |
| `ExecutionScheduler` | jobs, attempts, leases and their workers |
| `SchedulerInvariant`, `SchedulerProofs` | its inductive invariant; its theorems |
| `MCUplink`, `MCDownlink`, `MCOccupancy`, `MCJournal`, `MCApplication`, `MCScheduler` | entry points for TLC |

A definition whose comment begins with "Mutant:" is a plausible mistake in the
code. It is never part of a specification; it replaces the definition that
follows it to show that a property would notice.

### OrderedStream

`sent` grows at its end and never changes; `delivered` advances one frame at a
time; `confirmed` never passes `delivered`. This is what the exchange promises
to the layers above.

### UplinkExchange

A frame's sequence is its index in `outbox`, since durable rows are marked
published but never removed. A request is therefore the pair of its first and
last sequence. `frozen` is the envelope table of the journal, keyed by the first
sequence (`bind_envelope`); `acked` is the published prefix, `deliveryCursor` the
volatile `delivery_cursor`. On the server `current` is the registered instance,
`cursor` the acknowledged sequence, `completed` and `settled` the frame and
command rows. `job` is the exchange that holds `exchange_lock`; the server may
fail between any two of its transactions (`JobFails`).

| Action | Code |
|---|---|
| `Announce`, `Enqueue` | `ensure_pending_reports`, `DeviceDaemon::enqueue` |
| `AdminOpen`, `AdminEnqueue` | `wwc device code refresh` and its like, in a process of their own: read the instance, then append |
| `Send`, `ExchangeFails`, `Receive`, `ApplyResponse` | `exchange_tick`, `record_exchange_failure`, `apply_accepted`, `apply_gap` |
| `Relaunch` | `ensure_device_identity` of a new launch |
| `ServePending`, `ServeLate`, `SettleFrame`, `ApplyEffect`, `CompleteFrame`, `Respond` | `client_exchange`: lock, `BatchSettler::ingest`, `supersede_instance`, `reserve_exchange_frame`, effect, `complete_exchange_frame`, response |

A request the device gave up on may be lost, be served already, or arrive later
(`late`). The effect of a frame is reduced to "it happened" and, for a Hello, the
registration of its instance.

### DownlinkExchange

`sent` is the history of appended commands, `rows` the sequences still stored. A
handler builds a frame in one step (`Draft`: `next_sequence` and the addressed
instance) and appends it in another (`AppendDraft`), which refuses a sequence that
has been taken. An exchange advances the server's acknowledgement, reads what is
deliverable and deletes what was reported. The device visits the frames of a
response one by one; effect and inbox cursor are separate commits. Commands are
reduced to four kinds, by the way `ingest_downlink` treats them: `candidate` is
refused and consumed when its authority is stale, `repository` and `config`
insist on the instance they name, `config` runs on a thread, `plain` is the rest.
The batch budget (32 frames, 25 ms) is `StopEarly`. The uplink appears only as
the fact that the Hello of a launch is registered some time after the launch.

### Occupancy

A lease is `reserving`, `occupied`, `draining`, `recovery` (pending), `overdue`
(pending, its deadline past) or over; what is over is told apart by its release
reason (`withdrawn`, `released`, `drained`, `forced`), since a replayed request
depends on it. A request handler works in steps (`work[h]`): it reads the active
lease, commits its transition against whatever has become of that lease, mints a
token if it needs one, reads the observed mirror revision, appends its command,
and, for a claim, waits. Every reading may be outdated when it is used: nothing is
assumed about how fast a handler is.

| Action | Code |
|---|---|
| `Claim`, `ClaimAgain`, `ClaimAnswered`, `ClaimTimesOut` | `claim`: `atomic_claim`, the wait, `roll_back_unanswered_offer` |
| `Release`, then `Withdraw` or `RequestRelease` | `release`: reading, then `reject_offer` or `request_release`, whose replay branch tells the device again |
| `ForceRelease`, `ForceEnd`, `Mint` | `force_release`: reading, then ending the lease or finding it ended, then the token of the fence |
| `ReadView`, `AppendCommand` | `client_mirror_revision_view`, `enqueue_occupancy_frame` |
| `Heartbeat`, `DrainComplete` | the two transactions of a heartbeat |
| `SweepOffline`, `MarkRecovery`, `DeadlinePasses` | the two transactions of the sweep, and the recovery window |
| `ApplyCommand`, `RefuseLocked`, `ReportWorkers` | the device: mirror, answer and inbox cursor in three commits |
| `ObserveRevision`, `Settle` | the effect of an answer: the revision goes to another database than the lease |

A claim that is not answered is rolled back. The device installs an offer or a
fence if its token is higher than the mirrored one and it expects the current
revision, answers, and repeats this when it crashes before the inbox cursor moved.
`Failures` switches deaths half way on and off. Idle expiry (`expire_idle`) has no
caller and is left out.

### NetworkJournal

One logical request: rows of different operations never touch each other. `row`
is its `network_queue_state` row, `log` its attempt records. Callers are threads
or processes that share the database. `prepare` recovers an attempt it finds in
flight as *unknown*, spends from the budget and hands out a permit; `finish`
settles the attempt if the caller still holds it. `accepted` is the ghost of what
the remote side has taken and may charge for. A delay is "ready" or "not ready":
all delays are positive and `monotonic_now` never runs backwards, so their length
cannot change which steps are possible, only when. The `connections` counter
influences delays only. `retry_delay` reads and changes nothing. Each failure is
one representative of the class the policy treats alike.

### CandidateApplication

One candidate and several applications of it, one target branch each. On the
server `row` is the approval with the lease it was granted under, `receipt` and
`candidate` what the settlement writes; an apply request reads lease and instance
(`PrepareApply`) and publishes in a later transaction (`Publish`). On the device
`journal` is the entry that is written before Git is touched, and `work` where the
handler stands: a crash (`Relaunch`) may come between any two commits, and keeps
`journal`, the branch and the worktree. The branch is the sequence of commits a
user or an application put on it, which is all that `inspect_started_application`
distinguishes; whether an integration conflicts is left open. A command carries the
instance, the lease and the mirror revision the server read before it published, and
the revision may be outdated (`exact`). `blocked_application` returns any one of the
applications whose outcome is unknown, and only that one is compared: with two of
them the answer is either (`Blocked`). `MoveBranch` compares and moves in one step,
as `update-ref` does; for a branch that is checked out the code compares first and
then runs `git merge --ff-only`, which refuses a branch that has moved on elsewhere.
A user who checks out another branch between the two is left out.

| Action | Code |
|---|---|
| `PrepareApply`, `Publish`, `Discard` | `ClientCandidates::prepare`, `publish_candidate_application`, `discard_candidate` |
| `ReplayFinished`, `FinishFound`, `AskForDecision`, `Start`, `BeginAttempt`, `BaseStale`, `Integrate`, `MoveBranch`, `RefuseMove`, `Cleanup`, `FinishAttempt`, `Answer` | `apply_candidate` and `run_attempt`, commit by commit |
| `Recover`, `Defer`, `Report`, `EndReport` | `recover_started_applications`, `report_recovered_applications` |
| `RecordReceipt`, `SettleRow`, `NoteOutcome`, `ServerFails`, `PassOver` | `settle_candidate_apply_result`, `settle_application_reconciled` |
| `Claim`, `Release`, `TakeOffer`, `RefuseOffer`, `SendAck`, `TakeAck` | what `Occupancy` does, reduced to its epochs |
| `CommitToBranch`, `RewindBranch`, `EditWorkingTree` | the user |

### ExecutionScheduler

Jobs are numbered in the order of their submission. A lease is the pair of job
and attempt: its identity and its fencing token are derived from them. A refused
or replayed request changes nothing and is a stutter. `job` is the queue, `lease`,
`terminal` and `authority` the registry, `offered` the offers of the running
scheduler generation. A renewal is built when a heartbeat arrives (`BuildRenewal`,
which reads the clock) and written later (`WriteRenewal`, which compares the
expiry); the decision what an outcome counts as is made in one transaction
(`Decide`) and committed by another that compares job, lease and worker instance
(`CommitOutcome`). Workers are modelled by what they send: a process accepts or
refuses the frame it was offered, follows renewals, and reports or dies. Its
`deadline` is that of the last frame it obeyed. Passing it takes the authority away
and moves it no more, but does not end the execution: a monitor notices (25 ms), the
whole worker is shut down (up to 10 s, then up to 5 s, see `docs/invariants.md:172`),
and until `Report` or `Die` the execution is there and may still report, while the
server may have replaced the attempt at its expiry. One expired job ends every job of
its worker; here each dies on its own, which includes that. A worker that registers
again does not stop the process it replaces. A heartbeat whose process is gone by
the time it is read still renews (`BuildRenewal`), at any time before the expiry: the
lead with which the code renews is a matter of delay.

| Action | Code |
|---|---|
| `Reoffer`, `Replace`, `ClaimReady` | `claim_next`: `recover_active_job`, `replacement_receipt`, `claim_ready_job` |
| `RetryFailed` | `retry_failed`, which only tests call so far |
| `RecordAnswer`, `RequestCancellation` | `record_dispatch_result`, `request_cancellation` |
| `Revoke` | `revoke_device_identity`, as far as it settles executions |
| `Decide`, `CommitOutcome`, `Acknowledge` | `terminal_decision`, `commit_with_execution_terminal`, `mark_acknowledgement_ready` |
| `Register` | `register_worker` |
| `Restart` | a new scheduler generation |

The legal transitions back to *queued* are used by no code and have no action.
Which ready job is claimed is the fairness policy's choice and left open, and so
is whether the successor grant of a device job has been prepared
(`recovery_ready`). A worker answers a frame once; the second answer to a frame
that is offered again repeats the first, and is refused when that was recorded.

## 3. Runs and what they show

| Run | Bounds | Distinct states | Result |
|---|---|---|---|
| `uplink_safety` | 3 frames, 2 launches, batches of 2, 1 late request, 1 command key, administration | 106 361 | holds |
| `uplink_restart` | 3 frames, 2 launches, no late requests, no administration | stops at the violation | violated |
| `downlink_safety` | 2 commands, 2 launches, 2 handlers, batches of 2, 1 late request | 610 988 | holds |
| `downlink_restart` | 2 commands, 2 launches, 1 handler | stops at the violation | violated |
| `occupancy_safety` | 2 leases, 3 tokens, 1 session, streams of 2 down and 1 up, 2 handlers, deaths | 4 654 368 | holds |
| `occupancy_claim` | 2 leases, 2 tokens, streams of 3 down and 1 up, 2 handlers | 548 136 | holds |
| `occupancy_fence` | 2 leases, 3 tokens, streams of 2 down and 1 up, 2 handlers, no deaths | stops at the violation | violated |
| `journal_safety` | 2 callers, budget 2, 4 attempts, 3 faults, all replay classes | 311 572 | holds |
| `application_safety` | 2 applications (symmetric), 2 leases, 2 launches, 2 commands, 1 change by the user, streams of 3 | 3 354 952 | holds |
| `application_reissue` | 1 application, 2 leases, 2 launches, 2 commands, 1 change by the user | stops at the violation | violated |
| `application_poison` | the same, 2 changes by the user | stops at the violation | violated |
| `scheduler_safety` | 2 jobs, the second dependent and on a device, 1 worker with 2 processes, 2 attempts, leases of 2 ticks, 3 ticks | 541 584 | holds |

**Why these bounds are enough to be interesting.** Three frames in batches of two
allow a full batch, a frozen batch that has grown stale and a frame behind it;
two launches allow the take-over and a replay of the launch before; one late
request is enough to process any abandoned batch after its successor. On the
downlink two handlers race for one position, and a command can be consumed while
another waits. Two leases, a fence and two handlers allow a claim inside a force
release; three tokens are exactly what these need. Two attempts of budget and
three faults allow the budget to be spent by failures, by deaths and by both. Two
applications allow one to be in doubt while the other is asked for; two leases and
two commands allow a refused command, a retry and a result that arrives under the
next lease; two launches allow a crash at any one step. With leases of two ticks
and three ticks a lease can be renewed, expire and be replaced, and the renewal
can be written one tick late; two processes and two attempts allow a replaced
process that still runs. For the safety properties the proofs remove the bounds
altogether (section 5).

**What the runs state.**

- *uplink_safety*: `ConfirmedIsDelivered` (the device forgets only what the
  server took), `CursorCoversEffects` (the cursor passes a frame only with its
  effect, and no effect is more than one ahead), `CommandAppliedOnce`,
  `NeverGaps` (the replay path of the protocol is pure defence),
  `OneOpenOperation` (a retry replays the frozen batch), `ImplementsOrderedStream`,
  and `ConfirmedAcrossLaunches`: everything is confirmed in the end, except in the
  case `uplink_restart` shows.
- *downlink_safety*: `UnconsumedRetained`, `NeverRefused`, `ResponseContinues`
  (the skip and gap branches of `ingest_downlink` are unreachable),
  `EffectsInOrder`, `ImplementsOrderedStream`, and `ConsumedAcrossLaunches`:
  everything is consumed in the end, except in the case `downlink_restart` shows.
- *occupancy_safety*: `DisplacedByFenceOnly` (what the device mirrors instead of a
  confirmed lease can only be the fence of a force-released one), `DrainIsHeard` (a
  release is refused only by a device that has gone on), `FencedAuthorityGone`,
  `ViewTrailsMirror`. All four hold however late a handler uses what it has read. The
  stronger `OccupiedIsMirrored` does not: that is what `occupancy_fence` shows.
- *occupancy_claim*: `ReservationEnds`, for requests that are served to their
  end; the device may do nothing at all.
- *journal_safety*: `OneInFlight`, `InferenceBudget`, `CompletedIsLast`,
  `ReconciledFirst`, `KnownCostIsWhole`, the action property `OutcomesFinal` and
  the liveness property `RequestEnds`.
- *application_safety*: `SettledIsTrue` (the server records only what happened),
  `NotStartedIsTrue` (an attempt is repeated only if it left nothing behind),
  `RecordsAgree`, `AppliedIsSettled` (no applied result is lost, except in the case
  `application_reissue` shows), and the action property `UnknownBlocks`.
- *scheduler_safety*: `ExclusiveAuthority` (when an attempt has been replaced, what
  still executes it is past its deadline and past every frame sent to it, so its
  authority is gone for good; it may take its time to stop),
  `RegistryAgrees` (queue, leases, lease terminals and dispatch authorities tell
  one story, and every replaced attempt is closed), the action property
  `CancelledForGood` and the liveness property `CancellationEnds`: a cancellation
  comes to its end unless the process it waits for is lost.

Deadlock is checked everywhere but in the uplink runs, where a bounded stream
goes quiet once everything is confirmed, the journal run, where a completed
request is done, and the application runs, where nothing is left to do when every
application is settled and the bounds are used up.

`occupancy_safety` permutes handlers and `application_safety` applications, which
no definition tells apart; neither checks a liveness property.

## 4. Fairness

Fairness is assumed only of steps that a running loop takes, and it is weak with
one exception:

- uplink and downlink: the steps of the daemon loop (`run` ticks forever, with
  bounded back-off) and of an exchange the server is serving. Nothing is asked of
  failures, late requests, relaunches, administration or new work. A pending
  request ends because the transport has a timeout, hence the fairness of
  `ExchangeFails`. Since every exchange might time out, the properties are
  conditional: *if from some point on no exchange is cut short and the server no
  longer fails*, then everything is confirmed or consumed.
- occupancy: a request that is being served keeps taking steps; nothing is asked
  of the device.
- journal: the fairness is part of `RequestEnds`, since it is asked of one caller
  at a time: that caller keeps taking steps, time passes, and from some point on no
  other caller takes the request over. Failures end because their number is bounded
  by `MaxFaults`.
- scheduler: a worker that is told to stop reports in the end (or dies, and then
  its job counts as lost), and the outcomes in its outbox are handled. The commit
  of a decided outcome is strongly fair: the outcome stays in the outbox, so it is
  decided again after a restart, and the server does not restart between every
  decision and its commit. Nothing is asked of workers otherwise, of claims or of
  the clock.

## 5. Proofs

TLAPS checks every proof in full:

| Module | Lemmas and theorems | Obligations | Assumption on the constants |
|---|---|---|---|
| `UplinkProofs` | 35 | 766 | `KeyAssumption`, `BoundAssumption` |
| `DownlinkProofs` | 39 | 946 | `DownlinkBounds` |
| `OccupancyProofs` | 66 | 1905 | `OccupancyBounds` |
| `JournalProofs` | 29 | 1085 | `JournalBounds` |
| `ApplicationProofs` | 85 | 3315 | `ApplicationBounds` |
| `SettlementProofs` | 75 | 2749 | `ApplicationBounds` |
| `SchedulerProofs` | 54 | 1595 | `SchedulerBounds` |

The assumptions say that bounds are natural numbers, that the ones the code needs
to be positive are positive (batches, launches, the attempt budget, the length of a
lease), that switches are Boolean, that `NoKey` is no key, and that the jobs a job
depends on come before it. Sets of handlers, callers, workers, keys and
applications are arbitrary. No bound is small in the proofs. Every inductive
invariant below was checked by TLC on small instances before it was
proved.

Each module follows one pattern: the initial states satisfy the invariant, one
lemma per action says that the action keeps it (with one step per conjunct the
action can disturb), a theorem puts these together, and the properties of the runs
are consequences. Action properties and refinements are proved step by step from
the same invariant.

**Uplink.** `ConfirmedIsDelivered` is not inductive: it says nothing of the
acknowledgement that a response in flight will make the device believe. `IInv`
(`UplinkInvariant`) adds that

- `RequestsSound`: every request anywhere, abandoned ones included, is a
  non-empty range of the outbox that starts at most one after the cursor;
- `JournalMatches`: the frozen envelope is the pending operation;
- `AnswersSound`: no answer acknowledges more than the cursor or asks for a gap;
- `JobPosition`: where a running exchange stands relative to the cursor;
- `TablesMatchCursor`, `AppliedExists`: the frame and command rows agree with the
  cursor and with the effects that happened.

`Invariance` proves `Spec => []IInv` with one step per action; `TypeCorrect`,
`NothingForgotten`, `EffectsCovered`, `CommandsOnce`, `NoGaps` and `OneOperation`
are its consequences. `Refinement` shows that every step is a step or a stutter of
`OrderedStream`.

**Downlink.** Deletion follows the acknowledgement of a request, and a request may
be late. `IInv` (`DownlinkInvariant`) says that

- `RowsAreTheEnd`: the stored rows are a suffix of the stream that holds all the
  server does not know to be consumed;
- `AcksSound`, `JobSound`: no acknowledgement anywhere exceeds the inbox cursor, and
  that of the open operation equals it, because the device consumes nothing while an
  operation is open;
- `OnePlace`: a pending request is on its way, being served or answered, never two
  of these;
- `ResponsesSound`: the frames of a response follow the cursor without a gap;
- `DraftsFit`, `IngestSound`: what a handler has drafted and where the device stands
  between an effect and its cursor.

The lemma that carries the argument, `StreamEnd`, shows that the frames a delivery
picks continue the cursor. `NothingDeletedEarly`, `RequestsAccepted`,
`ResponsesContinue`, `EffectsOrdered`, `TypeCorrect` and the `Refinement` of
`OrderedStream` follow.

**Occupancy.** `IInv` (`OccupancyInvariant`) says what a command, an answer or a
handler half way may believe about the mirror, without any assumption about timing:

- `Fits(l, rev)`, the central notion: the device has reached the token of lease `l`,
  and `rev` is its revision for as long as it holds that lease. `HeldKnown`,
  `CommandsSound`, `AnswersSound` and `WorksSound` say of whom it is true;
- `Ended`, `FenceToken`: a fence belongs to a lease that is over for good, and its
  token is that of no lease, earlier or later;
- `MirrorKnown`: the device obeys nothing, a lease, or such a fence;
- `LeasesInOrder`: only the last lease can be active, so whatever replaced a confirmed
  lease on the device is no later lease, hence a fence.

`TypesHold` (the revision never outruns the tokens), `FenceTakesEffect`
(`FencedAuthorityGone`), `OnlyFencesDisplace` (`DisplacedByFenceOnly`), `ViewIsExact`
(`ViewTrailsMirror`), `ReleaseReachesDevice` (`DrainIsHeard`) and the action property
`AuthorityIsMonotone` follow: tokens, mirror and observed revision only move on, and a
lease that has ended stays ended.

**Journal.** The properties speak of what the remote side *may* have taken, which
the journal cannot see. `IInv` (`JournalInvariant`) ties the two together:

- `InFlightIsLast`, `HeldIsOpen`: the open attempt is the last record, and only a
  caller that holds it can settle it;
- `AcceptedIsSpent`, `BudgetCounted`, `AttemptBounded`: everything accepted is
  recorded by an attempt the budget counts;
- `CompletedIsOver`, `PricedIsCompleted`, `KnownIsSettled`: after a completion
  the row is gone, and a cost is called known only when every other attempt
  certainly never left;
- `UncertainIsHeld`, `StoppedIsIdle`: a mutation with an uncertain attempt is
  never handed out again.

`JournalSafe` proves the invariant; `JournalTypes`, `InferenceWithinBudget`,
`CompletedNeverResent`, `MutationReconciledFirst`, `KnownCostWhole`,
`JournalAccounted` and the action property `OutcomesAreFinal` follow.

**Candidate application.** `NotStartedIsTrue` and `SettledIsTrue` relate durable
records to the repository, but between the check and the record a handler is half
way, and the frames that carry a result arrive later. `IInv`
(`ApplicationInvariant`) therefore says what each point of a handler may rely on:

- `BeginSound`, `AttemptSound`, `PublishSound`: before an attempt touches Git the
  application is open, nothing of it is left in the repository (`Clean`), and no
  other application of the candidate is in doubt;
- `FinishSound`, `AnswerSound`, `SaySound`, `FramesSound`: a verdict a handler
  carries, and one in a frame, is true of the repository or of the journal;
- `HalfwaySound`: between the two transactions of a settlement the receipt is that of
  the head frame;
- `EntrySound`, `RecordSound`: the same for the records of device and server.

`SettlementIsTrue`, `PermissionIsTrue`, `ServerRecordsAgree`, `ApplicationTypes` and
the action property `DoubtBlocks` (`UnknownBlocks`) follow, for any number of
applications, leases, launches and interventions of the user.

**Settlement.** `AppliedIsSettled` says that no applied result is lost: when the
daemon is at rest under the server's lease, the server knows. That is a statement
about the end of a journey, and the invariant has to follow the journey. `SInv`
(`SettlementInvariant`), on top of `IInv`, says

- `TellSound`: while device and server hold the same lease, every application
  that is applied is known to the server, or carried by a frame that it will
  accept (`Told`), or the handler the daemon is in will send such a frame
  (`WillTell`): the answer of an attempt, a report it has begun, or one that is
  due. An entry marked as reported under this lease, and one about to be marked, is
  `Told`, which is what makes it safe to report only once per lease;
- `FramesTimely`: a result carries a lease that the approval or its permission to
  try again covers (`Covers`), all results of an application carry the same, and a
  report names the lease of the journal; so the frame is not refused;
- `WorkTimely`: the same of the handler before it sends, and nothing is due that is
  not journalled;
- `LeasesSound`, `CommandsSound`, `RetrySound`, `EntryTimely`: offers arrive in the
  order of their leases, a permission to try again is never replaced by an older
  one, and the journal holds no lease newer than the mirror.

`SettlementInvariance` proves `Spec => [](IInv /\ SInv)`; `NoResultIsLost` is
`AppliedIsSettled` for every number of applications, leases, launches and commands.
The condition in `AppliedIsSettled`, that the entry was started with the lease of
the approval, cannot be dropped: `application_reissue` shows what happens without
it.

**Scheduler.** `ExclusiveAuthority` speaks of processes the server cannot see.
`IInv` (`SchedulerInvariant`) connects them with the registry, job by job:

- `WorkerAgrees`, `FrameIsLease`: the deadline of an execution never exceeds the
  frame it was sent, and the last frame of the lease carries the expiry of the registry;
- `ReplacedIsOver`: an attempt is replaced only when its execution can neither start
  nor be extended any more, either because its last frame has expired or because it has
  answered and reported;
- `RenewalProlongs`: a renewal built before the commit still prolongs its lease;
- `FailedHasReason`, `DecisionHasOutcome`, `FutureUntouched`, `CancelledIsLeaving`,
  `RevokedIsClosed` and the rest: what the tables say of one another.

`AuthorityIsExclusive`, `QueueAndRegistryAgree`, `TypesHold` and the action
properties `CancellationIsFinal` (`CancelledForGood`) and `RecordsStand` (terminals
are never rewritten, fencing tokens never go back) follow.

**Only model-checked.** The liveness properties `ConfirmedAcrossLaunches`,
`ConsumedAcrossLaunches`, `ReservationEnds`, `RequestEnds` and `CancellationEnds`:
fairness and `ENABLED` are out of this prover's reach.

## 6. Disagreements found

Each is the expected violation of a run; `PROJECT.json` quotes both sides.

1. **A replayed Hello takes the stream back** (`uplink_restart`,
   `server/client_exchange.rs:421`). A batch with the Hello of two launches is
   processed, its answer lost, and replayed byte for byte. Now the second launch
   is current, so the first Hello differs from it and takes over before its
   sequence is looked at; the second then equals the instance read at the start
   of the batch and is refused. Every later frame of the running launch is
   refused until the next relaunch.
2. **A command for an earlier launch blocks the downlink** (`downlink_restart`,
   `device-client/daemon.rs:1371`). Stale candidate commands are refused and
   consumed so that what follows can arrive (`docs/invariants.md:143`);
   repository and configuration commands are not.
3. **A fence overtakes the next occupant** (`occupancy_fence`,
   `server/client_occupancy.rs:376`). `force_release` ends the lease and mints
   the token of its fence in two transactions; a claim that commits between them
   gets the lower token, contrary to `docs/invariants.md:62`. If its
   acknowledgement is observed before the revision view is read, the device
   replaces the confirmed lease by the fence of the old one.
4. **An application that is sent again is never settled** (`application_reissue`,
   `server/client_exchange.rs:1696`). A command that was refused left no entry in
   the device's journal. Sent again under a newer lease, as `docs/invariants.md:147`
   and `docs/contracts.md:222` foresee, it is carried out under that lease, while
   the approval still names the first one: result and reports are refused, and the
   commit stays on the branch with the application open for ever.
5. **A contradictory report blocks the uplink** (`application_poison`,
   `device-client/apply_engine.rs:776`). A failed application is not reported with
   its result after a restart or under a new lease, contrary to
   `docs/invariants.md:147`; the repository is inspected again. If the first report
   was *unknown* and the user rewinds the branch, the next one is *not started*,
   which the server answers as unavailable for ever, at the head of the stream.

Smaller observations, without a run of their own: an administration command may
enqueue its frame under a new instance before the daemon's first tick
(`cli/device_admin.rs:154`), although `docs/invariants.md:143` puts the Hello of
an instance first. A sweep that fails between its two transactions leaves an
occupied lease on an offline node, and a force release that stops before its
append never sends its fence. A claim whose request dies before its wait ends
leaves the device reserved until its holder claims or releases again, if the
device never answers. A cancelling job whose worker process is lost stays
cancelling: recovery looks at leased and running jobs only
(`repository_scheduler.rs:1318`), so only the revocation of its device ends it.
The repository states nothing about the last four, so no property is claimed
beyond the condition in `CancellationEnds`.

## 7. What is not modelled

- Within the modelled components: enrolment and revocation, digest conflicts of a
  sequence, presence details, the contents of effects, connect codes, rate limits,
  access grants, worker processes, and the lengths of delays. The idempotency rows
  of the uplink are modelled in `UplinkExchange` and not repeated in `Occupancy`.
- In `Occupancy`: a release reads the node and its active lease in one step; a force
  release that finds its lease resumed and overdue a second time is refused by the
  code, which compares with the time it started at, and accepted here.
- In `CandidateApplication`: branches created from a candidate, integration for
  verification, and the history of facts the server keeps.
- In `ExecutionScheduler`: heartbeats and the health derived from them, worker
  session slots, replay by request identity, admission and its budgets, the ticks
  of the retry policy, the order in which ready jobs are chosen, runtime events and
  the delivery side of an outcome, and how long stopping a worker takes. A worker
  reads the clock and starts its execution in one step (`Accept`).
- Cryptography, parsing and wire formats, file and process I/O.
- The components marked `not_modelled` in `PROJECT.json`, each with its reason.

## 8. Plan

The operations of the control exchange, occupancy, the journal, candidate
application and job execution are in place. What is left, in this order:

1. `LaunchGrants`: grant, reservation, launch acknowledgement, exit settlement
   and worker adoption under the occupancy token; composes with `Occupancy` and
   supplies the prepared recoveries of `ExecutionScheduler`.
2. `CommandReceipts`: revision compare-and-set, receipts and the transactional
   outbox, with exactly-once commands as the abstract specification.
3. `Publication`, product sessions, candidate retention, model stream flow
   control.

Each module gets one run with its safety and liveness properties; the bounds follow
the pattern of section 3: two of everything that can race, one more of everything
that is numbered.
