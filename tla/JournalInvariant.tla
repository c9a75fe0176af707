--------------------------- MODULE JournalInvariant ---------------------------
(***************************************************************************)
(* The inductive invariant behind the safety properties of NetworkJournal. *)
(***************************************************************************)
EXTENDS NetworkJournal

\* A failed attempt that certainly never left: the only kind that is free.
Free(a) == a.outcome = "failed" /\ a.failure.acceptance = "not_sent"

\* The attempts the remote side may have taken.
Spent == {i \in DOMAIN log : ~Free(log[i])}

\* A control request is given up only for a failure no retry can mend.
ControlStopsForGood ==
    replay = "replay_exact" /\ row.stopped => ~Transient(row.failure)

\* The attempt in flight is the last one recorded.
InFlightIsLast ==
    row.stored /\ row.inFlight => row.sequence = Len(log) /\ Len(log) > 0

\* A caller holds a recorded attempt nobody else holds, which is in flight or has
\* been taken over, and what it knows about the remote side is true.
HeldIsOpen ==
    \A c \in Callers : call[c].phase \in {"permitted", "answered"} =>
        /\ call[c].sequence \in DOMAIN log
        /\ log[call[c].sequence].outcome \in {"in_flight", "unknown"}
        /\ call[c].phase = "permitted" => call[c].sequence \notin accepted
        /\ call[c].phase = "answered" /\ call[c].result.acceptance = "not_sent" =>
              call[c].sequence \notin accepted
        /\ \A d \in Callers : d # c /\ call[d].phase \in {"permitted", "answered"} =>
              call[d].sequence # call[c].sequence

\* What the remote side has taken is recorded as possibly taken.
AcceptedIsSpent == accepted \subseteq Spent

\* A completed model request has no row, and nothing comes after it.
CompletedIsOver ==
    replay = "retry_inference" =>
        /\ \A i \in DOMAIN log : log[i].outcome = "completed" => ~row.stored /\ i = Len(log)
        /\ ~row.stored => log = <<>> \/ Completed

\* Pricing follows a completion.
PricedIsCompleted ==
    (charge # "none" \/ \E c \in Callers : call[c].phase = "priced") =>
        replay = "retry_inference" /\ Completed

\* A known cost leaves no attempt of an uncertain fate.
KnownIsSettled ==
    charge = "known" =>
        \A i \in DOMAIN log : log[i].outcome = "completed" \/ Free(log[i])

\* Only the last attempt of a mutation may be of an uncertain fate, and then the
\* row keeps it from being sent again.
UncertainIsHeld ==
    replay = "reconcile_first" =>
        \A i \in DOMAIN log :
            \/ log[i].outcome = "completed" \/ Free(log[i])
            \/ i = Len(log) /\ row.stored /\ (row.inFlight \/ row.stopped)

\* The attempt counter of the row counts the attempts that are not free.
BudgetCounted ==
    replay = "retry_inference" =>
        /\ Cardinality(Spent) <= MaxAttempts /\ row.attempt <= MaxAttempts
        /\ row.stored /\ row.inFlight => Cardinality(Spent) <= row.attempt
        /\ row.stored /\ ~row.inFlight /\ ~row.stopped => Cardinality(Spent) < row.attempt

\* The counter never overtakes the attempts recorded, so it stays in its range.
AttemptBounded ==
    /\ row.attempt <= Len(log) + 1
    /\ row.stored /\ row.inFlight => row.attempt <= Len(log)
    /\ ~row.stored => row = NoRow

\* A stopped request has nothing in flight.
StoppedIsIdle == row.stopped => ~row.inFlight

IInv ==
    /\ TypeOK /\ OneInFlight /\ InFlightIsLast /\ HeldIsOpen /\ AcceptedIsSpent
    /\ CompletedIsOver /\ PricedIsCompleted /\ KnownIsSettled /\ UncertainIsHeld
    /\ BudgetCounted /\ AttemptBounded /\ ControlStopsForGood /\ StoppedIsIdle
=============================================================================
