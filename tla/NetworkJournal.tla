--------------------------- MODULE NetworkJournal ---------------------------
(***************************************************************************)
(* The durable request journal (winwincode-network/src/journal.rs) and the *)
(* retry policy (policy.rs) under one logical request, as the two callers  *)
(* use them: the device exchange (replay_exact, daemon.rs exchange_tick)   *)
(* and the model request (retry_inference, provider_https_sse.rs           *)
(* open_recovering_admitted).  reconcile_first is the policy of a mutation *)
(* whose outcome has to be looked up first; the journal implements it, and *)
(* so far only its tests ask for it.                                       *)
(*                                                                         *)
(* Rows of different requests do not touch each other, so one request is   *)
(* modelled.  Callers are threads or processes that share the database;    *)
(* every journal operation is one transaction.  A caller dies at any step, *)
(* and a second one may ask for the same request while the first is still  *)
(* at work.  Delays are kept as "not yet ready": every delay is positive   *)
(* and monotonic_now never runs backwards.                                 *)
(***************************************************************************)
EXTENDS Naturals, Sequences, FiniteSets

CONSTANTS
    Callers,      \* threads or processes sharing the journal
    MaxAttempts,  \* max_attempts of the policy
    MaxSequence,  \* bound: attempts ever recorded
    MaxFaults     \* bound: failures, deaths and refusals that may happen

ASSUME JournalBounds ==
    /\ MaxAttempts \in Nat \ {0}
    /\ MaxSequence \in Nat /\ MaxFaults \in Nat

Replays == {"retry_inference", "replay_exact", "reconcile_first"}

\* NetworkFailure: its kind, and what is known about the remote side.  One kind
\* stands for all the kinds the policy treats alike.
Unreachable == [kind |-> "connection_unavailable", acceptance |-> "not_sent"]
Garbled     == [kind |-> "protocol_invalid", acceptance |-> "not_sent"]
Untrusted   == [kind |-> "tls_invalid", acceptance |-> "not_sent"]
Interrupted == [kind |-> "transport_interrupted", acceptance |-> "unknown"]
Limited     == [kind |-> "rate_limited", acceptance |-> "response_received"]
Denied      == [kind |-> "authentication", acceptance |-> "response_received"]
Invalid     == [kind |-> "request_invalid", acceptance |-> "response_received"]
NoFailure   == [kind |-> "none", acceptance |-> "none"]
Failures == {Unreachable, Garbled, Untrusted, Interrupted, Limited, Denied, Invalid}

\* network_request_attempts
Outcomes == {"in_flight", "unknown", "failed", "completed"}
Attempts == [outcome : Outcomes, failure : Failures \cup {NoFailure}]

\* network_queue_state; stored is FALSE when there is no row.
Rows == [stored : BOOLEAN, attempt : 1..MaxSequence + 1,
         sequence : 0..MaxSequence, inFlight : BOOLEAN, waiting : BOOLEAN,
         stopped : BOOLEAN, failure : Failures \cup {NoFailure}]
NoRow == [stored |-> FALSE, attempt |-> 1, sequence |-> 0, inFlight |-> FALSE,
          waiting |-> FALSE, stopped |-> FALSE, failure |-> NoFailure]

\* What a caller is doing: nothing, about to send, holding a result, or about
\* to price a completed request.
Phases == {"idle", "permitted", "answered", "priced"}
Calls == [phase : Phases, sequence : 0..MaxSequence, result : Failures \cup {NoFailure}]
Idle == [phase |-> "idle", sequence |-> 0, result |-> NoFailure]

VARIABLES
    replay,    \* the replay class of this request
    row,       \* its network_queue_state row
    log,       \* its network_request_attempts rows
    call,      \* what each caller is doing
    accepted,  \* the attempts the remote side has taken and may charge for
    charge,    \* the cost reported with the completion: "none", "known" or "unknown"
    faults     \* faults so far

vars == <<replay, row, log, call, accepted, charge, faults>>

TypeOK ==
    /\ replay \in Replays /\ row \in Rows
    /\ log \in Seq(Attempts) /\ Len(log) \in 0..MaxSequence
    /\ call \in [Callers -> Calls]
    /\ accepted \subseteq 1..MaxSequence
    /\ charge \in {"none", "known", "unknown"} /\ faults \in 0..MaxFaults

Init ==
    /\ replay \in Replays
    /\ row = NoRow /\ log = <<>> /\ call = [c \in Callers |-> Idle]
    /\ accepted = {} /\ charge = "none" /\ faults = 0
-----------------------------------------------------------------------------
(* policy.rs *)

Transient(f) ==
    f.kind \in {"connection_unavailable", "protocol_invalid", "transport_interrupted",
                "rate_limited"}

\* There was no connection: such a failure costs no attempt.
Disconnected(f) == f.acceptance = "not_sent" /\ f.kind = "connection_unavailable"

\* Mutant: the budget is compared one late.
RetriesOneMore(f, attempt) ==
    /\ Transient(f)
    /\ ~(replay = "reconcile_first" /\ f.acceptance # "not_sent")
    /\ Disconnected(f) \/ replay = "replay_exact" \/ attempt <= MaxAttempts

\* Mutant: a mutation is retried like a model request.
RetriesMutation(f, attempt) ==
    /\ Transient(f)
    /\ Disconnected(f) \/ replay = "replay_exact" \/ attempt < MaxAttempts

\* decide() answers RetryAfter or DeferredUntil, and not Stop or Reconcile.
Retries(f, attempt) ==
    /\ Transient(f)
    /\ ~(replay = "reconcile_first" /\ f.acceptance # "not_sent")
    /\ Disconnected(f) \/ replay = "replay_exact" \/ attempt < MaxAttempts

\* apply_failure
AfterFailure(r, f) ==
    LET again == Retries(f, r.attempt)
    IN  [r EXCEPT !.inFlight = FALSE, !.failure = f,
                  !.waiting = again \/ r.waiting,
                  !.attempt = IF again /\ ~Disconnected(f) THEN @ + 1 ELSE @,
                  !.stopped = @ \/ ~again]
-----------------------------------------------------------------------------
(* RequestJournal *)

Completed == \E i \in DOMAIN log : log[i].outcome = "completed"

\* Mutant: attempts are counted from zero.
FreshFromZero == [NoRow EXCEPT !.stored = TRUE, !.attempt = 0, !.failure = Interrupted]

\* The State a request starts with.
Fresh == [NoRow EXCEPT !.stored = TRUE, !.failure = Interrupted]

\* The row after prepare has noticed an attempt nobody finished, and that
\* attempt's record.
Recovered ==
    LET r == IF row.stored THEN row ELSE Fresh
    IN  IF r.inFlight THEN AfterFailure(r, Interrupted) ELSE r
RecoveredLog ==
    IF row.stored /\ row.inFlight
    THEN [log EXCEPT ![row.sequence] = [outcome |-> "unknown", failure |-> Interrupted]]
    ELSE log

\* Mutant: a row without state is a request that was never made.
MaySendAnyway == TRUE

\* A model request that has completed before has no row and is not sent again.
MaySend == row.stored \/ replay # "retry_inference" \/ ~Completed

\* Mutant: an unfinished attempt is not noticed.
PrepareOverlooking(c) ==
    /\ call[c].phase = "idle" /\ MaySend
    /\ LET r == IF row.stored THEN row ELSE Fresh
           s == Len(log) + 1
       IN  /\ ~r.stopped /\ ~r.waiting /\ s <= MaxSequence
           /\ row' = [r EXCEPT !.sequence = s, !.inFlight = TRUE]
           /\ log' = Append(log, [outcome |-> "in_flight", failure |-> NoFailure])
           /\ call' = [call EXCEPT ![c] = [Idle EXCEPT !.phase = "permitted", !.sequence = s]]
    /\ UNCHANGED <<replay, accepted, charge, faults>>

\* prepare(): QueuePermit::Ready.
Prepare(c) ==
    /\ call[c].phase = "idle" /\ MaySend
    /\ LET r == Recovered
           s == Len(log) + 1
       IN  /\ ~r.stopped /\ ~r.waiting /\ s <= MaxSequence
           /\ row' = [r EXCEPT !.sequence = s, !.inFlight = TRUE]
           /\ log' = Append(RecoveredLog, [outcome |-> "in_flight", failure |-> NoFailure])
           /\ call' = [call EXCEPT ![c] = [Idle EXCEPT !.phase = "permitted", !.sequence = s]]
    /\ UNCHANGED <<replay, accepted, charge, faults>>

\* prepare(): QueuePermit::Waiting or Stopped; the row is saved all the same.
\* The caller of a stopped request gets the failure and the waiting one sleeps.
PrepareWithheld(c) ==
    /\ call[c].phase = "idle" /\ MaySend
    /\ Recovered.stopped \/ Recovered.waiting
    /\ row' = Recovered /\ log' = RecoveredLog
    /\ UNCHANGED <<replay, call, accepted, charge, faults>>

\* Mutant: a request deferred for want of a connection has no ready time.
DelayPassesIfConnected ==
    /\ row.waiting /\ ~Disconnected(row.failure)
    /\ row' = [row EXCEPT !.waiting = FALSE]
    /\ UNCHANGED <<replay, log, call, accepted, charge, faults>>

DelayPasses ==
    /\ row.waiting
    /\ row' = [row EXCEPT !.waiting = FALSE]
    /\ UNCHANGED <<replay, log, call, accepted, charge, faults>>

\* Mutant: any in-flight attempt is settled by any answer.
HoldsAny(c) == row.stored /\ row.inFlight

\* finish() is refused unless the attempt is the one in flight.
Holds(c) == row.stored /\ row.inFlight /\ row.sequence = call[c].sequence

\* The answer of an attempt somebody else has taken over is an error.
FinishRefused(c) ==
    /\ call[c].phase = "answered" /\ ~Holds(c)
    /\ call' = [call EXCEPT ![c] = Idle]
    /\ UNCHANGED <<replay, row, log, accepted, charge, faults>>

FinishFailed(c) ==
    /\ call[c].phase = "answered" /\ Holds(c) /\ call[c].result # NoFailure
    /\ LET f == call[c].result
       IN  /\ row' = AfterFailure(row, f)
           /\ log' = [log EXCEPT ![call[c].sequence] = [outcome |-> "failed", failure |-> f]]
    /\ call' = [call EXCEPT ![c] = Idle]
    /\ UNCHANGED <<replay, accepted, charge, faults>>

\* Success deletes the row; only the model request prices it.
FinishCompleted(c) ==
    /\ call[c].phase = "answered" /\ Holds(c) /\ call[c].result = NoFailure
    /\ row' = NoRow
    /\ log' = [log EXCEPT ![call[c].sequence] = [outcome |-> "completed", failure |-> NoFailure]]
    /\ call' = [call EXCEPT ![c] =
                  IF replay = "retry_inference" THEN [@ EXCEPT !.phase = "priced"] ELSE Idle]
    /\ UNCHANGED <<replay, accepted, charge, faults>>

\* Mutant: only reported failures count, not the attempts nobody finished.
UnknownUsageOfFailures ==
    \E i \in DOMAIN log :
        log[i].outcome = "failed" /\ log[i].failure.acceptance # "not_sent"

\* has_unknown_usage
UnknownUsage ==
    \E i \in DOMAIN log :
        \/ log[i].outcome \in {"in_flight", "unknown"}
        \/ log[i].outcome = "failed" /\ log[i].failure.acceptance # "not_sent"

\* The completed request reports its cost, or none if another attempt may have
\* been charged as well.
Price(c) ==
    /\ call[c].phase = "priced"
    /\ charge' = IF UnknownUsage THEN "unknown" ELSE "known"
    /\ call' = [call EXCEPT ![c] = Idle]
    /\ UNCHANGED <<replay, row, log, accepted, faults>>
-----------------------------------------------------------------------------
(* The callers and the remote side *)

Answered(c, f) == call' = [call EXCEPT ![c] = [@ EXCEPT !.phase = "answered", !.result = f]]

Fault == faults < MaxFaults /\ faults' = faults + 1

\* The request reaches the remote side and its response comes back.
Attempt(c) ==
    /\ call[c].phase = "permitted"
    /\ accepted' = accepted \cup {call[c].sequence}
    /\ Answered(c, NoFailure)
    /\ UNCHANGED <<replay, row, log, charge, faults>>

\* The request fails before it is sent, or it is refused, or its fate is unknown.
\* A model request that is not admitted locally is recorded as Limited.
AttemptFails(c) ==
    /\ call[c].phase = "permitted" /\ Fault
    /\ \E f \in Failures :
          /\ Answered(c, f)
          /\ \/ accepted' = accepted
             \/ f.acceptance # "not_sent" /\ accepted' = accepted \cup {call[c].sequence}
    /\ UNCHANGED <<replay, row, log, charge>>

\* The caller's process ends.  What it has sent stays sent.
Die(c) ==
    /\ call[c].phase # "idle" /\ Fault
    /\ call' = [call EXCEPT ![c] = Idle]
    /\ \/ accepted' = accepted
       \/ call[c].phase = "permitted" /\ accepted' = accepted \cup {call[c].sequence}
    /\ UNCHANGED <<replay, row, log, charge>>

\* A starting daemon forgets that its control request was denied, so that it is
\* tried again with the credentials of now.
Denial == row.stopped /\ replay = "replay_exact" /\ row.failure = Denied

ResumeControlAuthentication ==
    /\ row.stored /\ Denial
    /\ row' = NoRow
    /\ UNCHANGED <<replay, log, call, accepted, charge, faults>>
-----------------------------------------------------------------------------
Step(c) ==
    \/ Prepare(c) \/ PrepareWithheld(c) \/ Attempt(c) \/ AttemptFails(c)
    \/ FinishRefused(c) \/ FinishFailed(c) \/ FinishCompleted(c) \/ Price(c)

Next ==
    \/ \E c \in Callers : Step(c) \/ Die(c)
    \/ DelayPasses \/ ResumeControlAuthentication

Spec == Init /\ [][Next]_vars
-----------------------------------------------------------------------------
(* Properties *)

\* Exactly the attempt the row names is in flight: no attempt is left open that
\* a later prepare or has_unknown_usage would not account for.
OneInFlight ==
    \A i \in DOMAIN log :
        (log[i].outcome = "in_flight") <=> (row.stored /\ row.inFlight /\ row.sequence = i)

\* However callers die, overlap or answer late, the remote side never takes more
\* than max_attempts copies of one model request.
InferenceBudget ==
    replay = "retry_inference" => Cardinality(accepted) <= MaxAttempts

\* A model request that has completed is never put in flight again, even though
\* its row is gone.
CompletedIsLast ==
    replay = "retry_inference" =>
        \A i \in DOMAIN log : log[i].outcome = "completed" => i = Len(log)

\* A mutation the remote side may have taken is not sent a second time, however the
\* journal is reopened: it is left for reconciliation (prepare and finish for
\* ReconcileFirst, a service of the journal that no production caller uses yet).
ReconciledFirst ==
    replay = "reconcile_first" =>
        \A i \in accepted : i \in DOMAIN log
            /\ log[i].outcome # "completed" => i = Len(log)

\* The cost reported as known is the whole cost: the remote side has taken no
\* other attempt of the request.
KnownCostIsWhole ==
    charge = "known" => \A i \in accepted : log[i].outcome = "completed"

\* An attempt once settled keeps its outcome: a late answer never rewrites what
\* a takeover has recorded.
OutcomesFinal ==
    [][\A i \in DOMAIN log :
          log[i].outcome # "in_flight" => i \in DOMAIN log' /\ log'[i] = log[i]]_vars

\* The request of a caller that keeps working ends in a completion or in a recorded
\* stop, once failures and deaths cease and no other caller takes it over any more,
\* whatever records earlier callers left (within the bound on attempts).  A model
\* request and a control request are both meant; a mutation left for reconciliation
\* is stopped.
RequestEnds ==
    \A c \in Callers :
        /\ WF_vars(DelayPasses) /\ WF_vars(Step(c))
        /\ <>[][\A d \in Callers \ {c} : ~Step(d)]_vars
        /\ [](Len(log) < MaxSequence)
        => <>(Completed \/ row.stopped)
=============================================================================
