---------------------------- MODULE JournalProofs ----------------------------
(***************************************************************************)
(* Proofs about NetworkJournal for every value of its constants.           *)
(***************************************************************************)
EXTENDS JournalInvariant, FiniteSetTheorems, TLAPS

\* What apply_failure does to each field of the row.
LEMMA AfterFailureFields ==
    ASSUME NEW r \in Rows, NEW f \in Failures, r.attempt <= MaxSequence
    PROVE  /\ AfterFailure(r, f) \in Rows
           /\ AfterFailure(r, f).stored = r.stored
           /\ AfterFailure(r, f).sequence = r.sequence
           /\ AfterFailure(r, f).inFlight = FALSE
           /\ AfterFailure(r, f).failure = f
           /\ AfterFailure(r, f).waiting = (Retries(f, r.attempt) \/ r.waiting)
           /\ AfterFailure(r, f).stopped = (r.stopped \/ ~Retries(f, r.attempt))
           /\ AfterFailure(r, f).attempt =
                IF Retries(f, r.attempt) /\ ~Disconnected(f) THEN r.attempt + 1 ELSE r.attempt
  <1> DEFINE again == Retries(f, r.attempt)
             free == Disconnected(f)
  <1>1. again \in BOOLEAN /\ free \in BOOLEAN
    BY DEF Retries, Disconnected
  <1>2. AfterFailure(r, f) =
          [r EXCEPT !.inFlight = FALSE, !.failure = f, !.waiting = again \/ r.waiting,
                    !.attempt = IF again /\ ~free THEN r.attempt + 1 ELSE r.attempt,
                    !.stopped = r.stopped \/ ~again]
    BY DEF AfterFailure, Rows
  <1> DEFINE q == AfterFailure(r, f)
             n == IF again /\ ~free THEN r.attempt + 1 ELSE r.attempt
  <1>3. n \in 1..MaxSequence + 1
    BY JournalBounds DEF Rows
  <1>4. /\ (again \/ r.waiting) \in BOOLEAN /\ (r.stopped \/ ~again) \in BOOLEAN
    BY <1>1, Zenon DEF Rows
  <1> DEFINE w == again \/ r.waiting
             t == r.stopped \/ ~again
  <1>5. q = [r EXCEPT !.inFlight = FALSE, !.failure = f, !.waiting = w, !.attempt = n,
                      !.stopped = t]
    BY <1>2, Zenon
  <1> HIDE DEF q, n, w, t
  <1>6. q \in Rows /\ q.stored = r.stored /\ q.sequence = r.sequence /\ q.inFlight = FALSE
    BY <1>3, <1>4, <1>5 DEF Rows, w, t
  <1>7. q.failure = f /\ q.waiting = w /\ q.stopped = t /\ q.attempt = n
    BY <1>5 DEF Rows
  <1> QED
    BY <1>6, <1>7, Zenon DEF q, w, t, n

\* There are finitely many spent attempts.
LEMMA SpentFinite == TypeOK => IsFiniteSet(Spent) /\ Cardinality(Spent) \in Nat
  <1> SUFFICES ASSUME TypeOK PROVE IsFiniteSet(Spent) /\ Cardinality(Spent) \in Nat
    OBVIOUS
  <1>1. DOMAIN log = 1..Len(log) /\ Len(log) \in Nat
    BY JournalBounds DEF TypeOK
  <1>2. IsFiniteSet(1..Len(log))
    BY <1>1, FS_Interval
  <1>3. Spent \subseteq 1..Len(log)
    BY <1>1 DEF Spent
  <1> QED
    BY <1>2, <1>3, FS_Subset, FS_CardinalityType

\* The failures by what they say of the remote side.
LEMMA FailureFacts ==
    /\ \A f \in Failures : f # NoFailure
    /\ \A f \in Failures : Disconnected(f) => f.acceptance = "not_sent"
    /\ Interrupted \in Failures /\ Interrupted.acceptance # "not_sent"
    /\ Transient(Interrupted)
  BY DEF Failures, Unreachable, Garbled, Untrusted, Interrupted, Limited, Denied, Invalid,
         NoFailure, Disconnected, Transient

\* Nothing is recorded before the first call.
LEMMA InitIInv == Init => IInv
  <1> SUFFICES ASSUME Init PROVE IInv
    OBVIOUS
  <1>1. log = <<>> /\ Len(log) = 0 /\ DOMAIN log = {} /\ row = NoRow /\ accepted = {}
    BY DEF Init
  <1>2. Spent = {}
    BY <1>1 DEF Spent
  <1>3. Cardinality(Spent) = 0
    BY <1>2, FS_EmptySet
  <1>4. row \in Rows
    BY <1>1, JournalBounds DEF NoRow, Rows
  <1>5. call \in [Callers -> Calls]
    BY JournalBounds DEF Init, Idle, Calls, Phases
  <1>6. TypeOK
    BY <1>1, <1>4, <1>5, JournalBounds DEF Init, TypeOK
  <1>7. OneInFlight /\ InFlightIsLast /\ AcceptedIsSpent /\ KnownIsSettled /\ UncertainIsHeld
    BY <1>1 DEF OneInFlight, InFlightIsLast, AcceptedIsSpent, KnownIsSettled,
                UncertainIsHeld, NoRow
  <1>8. HeldIsOpen /\ PricedIsCompleted
    BY DEF Init, HeldIsOpen, PricedIsCompleted, Idle
  <1>9. CompletedIsOver /\ AttemptBounded /\ ControlStopsForGood /\ StoppedIsIdle
    BY <1>1 DEF CompletedIsOver, AttemptBounded, ControlStopsForGood, StoppedIsIdle, NoRow
  <1>10. BudgetCounted
    BY <1>1, <1>3, JournalBounds DEF BudgetCounted, NoRow
  <1> QED
    BY <1>6, <1>7, <1>8, <1>9, <1>10 DEF IInv

\* The end of a delay only makes the row ready.
LEMMA DelayPassesKeeps == IInv /\ DelayPasses => IInv'
  <1> SUFFICES ASSUME IInv, DelayPasses PROVE IInv'
    OBVIOUS
  <1> USE DEF IInv
  <1>1. /\ row' = [row EXCEPT !.waiting = FALSE]
        /\ UNCHANGED <<replay, log, call, accepted, charge, faults>>
    BY DEF DelayPasses
  <1>2. /\ row' \in Rows /\ row'.stored = row.stored /\ row'.attempt = row.attempt
        /\ row'.sequence = row.sequence /\ row'.inFlight = row.inFlight
        /\ row'.stopped = row.stopped /\ row'.failure = row.failure
    BY <1>1 DEF TypeOK, Rows
  <1>3. TypeOK'
    BY <1>1, <1>2 DEF TypeOK
  <1>4. Spent' = Spent /\ Completed' = Completed
    BY <1>1 DEF Spent, Completed
  <1>5. row.stored
    BY DEF DelayPasses, AttemptBounded, NoRow
  <1>6. OneInFlight' /\ InFlightIsLast' /\ AcceptedIsSpent' /\ CompletedIsOver'
    BY <1>1, <1>2, <1>4 DEF OneInFlight, InFlightIsLast, AcceptedIsSpent, CompletedIsOver
  <1>7. HeldIsOpen'
    BY <1>1 DEF HeldIsOpen
  <1>8. PricedIsCompleted' /\ KnownIsSettled' /\ UncertainIsHeld'
    BY <1>1, <1>2, <1>4 DEF PricedIsCompleted, KnownIsSettled, UncertainIsHeld
  <1>9. BudgetCounted' /\ AttemptBounded' /\ ControlStopsForGood' /\ StoppedIsIdle'
    BY <1>1, <1>2, <1>4, <1>5 DEF BudgetCounted, AttemptBounded, ControlStopsForGood, StoppedIsIdle
  <1> QED
    BY <1>3, <1>6, <1>7, <1>8, <1>9

\* A step of one caller that leaves the journal alone keeps the journal's part of
\* the invariant; the caller's own part is left to show.
LEMMA JournalUnchanged ==
    ASSUME IInv, UNCHANGED <<replay, row, log>>, TypeOK', HeldIsOpen', AcceptedIsSpent',
           PricedIsCompleted', KnownIsSettled'
    PROVE  IInv'
  <1> USE DEF IInv
  <1>1. Spent' = Spent /\ Completed' = Completed
    BY DEF Spent, Completed
  <1>2. OneInFlight' /\ InFlightIsLast' /\ CompletedIsOver' /\ UncertainIsHeld'
    BY <1>1 DEF OneInFlight, InFlightIsLast, CompletedIsOver, UncertainIsHeld
  <1>3. BudgetCounted' /\ AttemptBounded' /\ ControlStopsForGood' /\ StoppedIsIdle'
    BY <1>1 DEF BudgetCounted, AttemptBounded, ControlStopsForGood, StoppedIsIdle
  <1> QED
    BY <1>2, <1>3

\* A refused answer is dropped.
LEMMA FinishRefusedKeeps == ASSUME NEW c \in Callers PROVE IInv /\ FinishRefused(c) => IInv'
  <1> SUFFICES ASSUME IInv, FinishRefused(c) PROVE IInv'
    OBVIOUS
  <1> USE DEF IInv
  <1>1. /\ call' = [call EXCEPT ![c] = Idle]
        /\ UNCHANGED <<replay, row, log, accepted, charge, faults>>
    BY DEF FinishRefused
  <1>2. Idle \in Calls /\ Idle.phase = "idle"
    BY JournalBounds DEF Idle, Calls, Phases
  <1>3. TypeOK'
    BY <1>1, <1>2 DEF TypeOK
  <1>4. \A d \in Callers : call'[d] = IF d = c THEN Idle ELSE call[d]
    BY <1>1 DEF TypeOK
  <1>5. HeldIsOpen'
    BY <1>1, <1>2, <1>4 DEF HeldIsOpen
  <1>6. AcceptedIsSpent' /\ PricedIsCompleted' /\ KnownIsSettled'
    BY <1>1, <1>2, <1>4 DEF AcceptedIsSpent, Spent, PricedIsCompleted, Completed, KnownIsSettled
  <1> QED
    BY <1>1, <1>3, <1>5, <1>6, JournalUnchanged

\* The cost is reported as known only when no attempt is of an uncertain fate.
LEMMA PriceKeeps == ASSUME NEW c \in Callers PROVE IInv /\ Price(c) => IInv'
  <1> SUFFICES ASSUME IInv, Price(c) PROVE IInv'
    OBVIOUS
  <1> USE DEF IInv
  <1>1. /\ call' = [call EXCEPT ![c] = Idle] /\ call[c].phase = "priced"
        /\ charge' = IF UnknownUsage THEN "unknown" ELSE "known"
        /\ UNCHANGED <<replay, row, log, accepted, faults>>
    BY DEF Price
  <1>2. Idle \in Calls /\ Idle.phase = "idle"
    BY JournalBounds DEF Idle, Calls, Phases
  <1>3. TypeOK'
    BY <1>1, <1>2 DEF TypeOK
  <1>4. \A d \in Callers : call'[d] = IF d = c THEN Idle ELSE call[d]
    BY <1>1 DEF TypeOK
  <1>5. HeldIsOpen'
    BY <1>1, <1>2, <1>4 DEF HeldIsOpen
  <1>6. AcceptedIsSpent'
    BY <1>1 DEF AcceptedIsSpent, Spent
  <1>7. PricedIsCompleted'
    BY <1>1 DEF PricedIsCompleted, Completed
  <1>8. KnownIsSettled'
    <2> SUFFICES ASSUME charge' = "known", NEW i \in DOMAIN log
                 PROVE  log[i].outcome = "completed" \/ Free(log[i])
      BY <1>1 DEF KnownIsSettled
    <2>1. ~UnknownUsage
      BY <1>1
    <2>a. log[i] \in Attempts
      BY DEF TypeOK
    <2>2. log[i].outcome \in Outcomes
      BY <2>a DEF Attempts
    <2> QED
      BY <2>1, <2>2 DEF UnknownUsage, Outcomes, Free
  <1> QED
    BY <1>1, <1>3, <1>5, <1>6, <1>7, <1>8, JournalUnchanged

\* A caller that holds a permit may reach the remote side; what it then knows is
\* true of the remote side.  It is the only holder of its attempt.
LEMMA AnswerKeeps ==
    ASSUME NEW c \in Callers, NEW f \in Failures \cup {NoFailure}, IInv,
           call[c].phase = "permitted", Answered(c, f), faults' \in 0..MaxFaults,
           \/ accepted' = accepted
           \/ f.acceptance # "not_sent" /\ accepted' = accepted \cup {call[c].sequence},
           UNCHANGED <<replay, row, log, charge>>
    PROVE  IInv'
  <1> USE DEF IInv
  <1> DEFINE s == call[c].sequence
  <1>0. call[c] \in Calls
    BY DEF TypeOK
  <1>1. [call[c] EXCEPT !.phase = "answered", !.result = f] \in Calls
    BY <1>0 DEF Calls, Phases
  <1>2. /\ call' \in [Callers -> Calls]
        /\ \A d \in Callers : d # c => call'[d] = call[d]
        /\ call'[c].phase = "answered" /\ call'[c].sequence = s /\ call'[c].result = f
    BY <1>0, <1>1 DEF TypeOK, Answered, Calls
  <1>3. s \in DOMAIN log /\ log[s].outcome \in {"in_flight", "unknown"} /\ s \notin accepted
    BY DEF HeldIsOpen
  <1>4. s \in 1..MaxSequence
    BY <1>0, <1>3, JournalBounds DEF TypeOK, Calls
  <1>5. TypeOK'
    BY <1>2, <1>4 DEF TypeOK
  <1>6. HeldIsOpen'
    <2> SUFFICES ASSUME NEW d \in Callers, call'[d].phase \in {"permitted", "answered"}
                 PROVE  /\ call'[d].sequence \in DOMAIN log
                        /\ log[call'[d].sequence].outcome \in {"in_flight", "unknown"}
                        /\ call'[d].phase = "permitted" => call'[d].sequence \notin accepted'
                        /\ call'[d].phase = "answered" /\ call'[d].result.acceptance = "not_sent" =>
                              call'[d].sequence \notin accepted'
                        /\ \A e \in Callers : e # d /\ call'[e].phase \in {"permitted", "answered"} =>
                              call'[e].sequence # call'[d].sequence
      BY DEF HeldIsOpen
    <2>1. CASE d = c
      BY <1>2, <1>3, <2>1 DEF HeldIsOpen
    <2>2. CASE d # c
      BY <1>2, <1>3, <2>2 DEF HeldIsOpen
    <2> QED
      BY <2>1, <2>2
  <1>7. AcceptedIsSpent'
    BY <1>3 DEF AcceptedIsSpent, Spent, Free
  <1>8. PricedIsCompleted' /\ KnownIsSettled'
    BY <1>2 DEF PricedIsCompleted, Completed, KnownIsSettled
  <1> QED
    BY <1>5, <1>6, <1>7, <1>8, JournalUnchanged

\* An answered request, and one that failed, are two ways to come back.
LEMMA AttemptKeeps ==
    ASSUME NEW c \in Callers PROVE IInv /\ (Attempt(c) \/ AttemptFails(c)) => IInv'
  <1>1. ASSUME IInv, Attempt(c) PROVE IInv'
    <2>1. NoFailure.acceptance # "not_sent" /\ faults' \in 0..MaxFaults
      BY <1>1 DEF NoFailure, Attempt, IInv, TypeOK
    <2> QED
      BY <1>1, <2>1, AnswerKeeps, Zenon DEF Attempt
  <1>2. ASSUME IInv, AttemptFails(c) PROVE IInv'
    <2>1. PICK f \in Failures :
            /\ Answered(c, f)
            /\ \/ accepted' = accepted
               \/ f.acceptance # "not_sent" /\ accepted' = accepted \cup {call[c].sequence}
      BY <1>2 DEF AttemptFails
    <2>2. faults' \in 0..MaxFaults
      BY <1>2, JournalBounds DEF AttemptFails, Fault, IInv, TypeOK
    <2> QED
      BY <1>2, <2>1, <2>2, AnswerKeeps, Zenon DEF AttemptFails
  <1> QED
    BY <1>1, <1>2

\* A caller that dies leaves its attempt open, and perhaps sent.
LEMMA DieKeeps == ASSUME NEW c \in Callers PROVE IInv /\ Die(c) => IInv'
  <1> SUFFICES ASSUME IInv, Die(c) PROVE IInv'
    OBVIOUS
  <1> USE DEF IInv
  <1> DEFINE s == call[c].sequence
  <1>1. /\ call' = [call EXCEPT ![c] = Idle] /\ faults' \in 0..MaxFaults
        /\ UNCHANGED <<replay, row, log, charge>>
        /\ \/ accepted' = accepted
           \/ call[c].phase = "permitted" /\ accepted' = accepted \cup {s}
    BY JournalBounds DEF Die, Fault, TypeOK
  <1>2. Idle \in Calls /\ Idle.phase = "idle"
    BY JournalBounds DEF Idle, Calls, Phases
  <1>3. /\ call' \in [Callers -> Calls]
        /\ \A d \in Callers : call'[d] = IF d = c THEN Idle ELSE call[d]
    BY <1>1, <1>2 DEF TypeOK
  <1>4. call[c].phase = "permitted" => s \in DOMAIN log /\ log[s].outcome # "failed"
    BY DEF HeldIsOpen
  <1>a. DOMAIN log = 1..Len(log) /\ Len(log) \in 0..MaxSequence
    BY DEF TypeOK
  <1>b. call[c].phase = "permitted" => s \in 1..MaxSequence
    BY <1>4, <1>a, JournalBounds
  <1>5. accepted' \subseteq 1..MaxSequence
    BY <1>1, <1>b DEF TypeOK
  <1>6. TypeOK'
    BY <1>1, <1>3, <1>5 DEF TypeOK
  <1>7. HeldIsOpen'
    BY <1>1, <1>2, <1>3 DEF HeldIsOpen
  <1>8. AcceptedIsSpent'
    BY <1>1, <1>4 DEF AcceptedIsSpent, Spent, Free
  <1>9. PricedIsCompleted' /\ KnownIsSettled'
    BY <1>1, <1>2, <1>3 DEF PricedIsCompleted, Completed, KnownIsSettled
  <1> QED
    BY <1>1, <1>6, <1>7, <1>8, <1>9, JournalUnchanged

\* Forgetting a denial drops the row of a stopped control request.
LEMMA ResumeKeeps == IInv /\ ResumeControlAuthentication => IInv'
  <1> SUFFICES ASSUME IInv, ResumeControlAuthentication PROVE IInv'
    OBVIOUS
  <1> USE DEF IInv
  <1>1. /\ row' = NoRow /\ replay = "replay_exact" /\ row.stopped
        /\ UNCHANGED <<replay, log, call, accepted, charge, faults>>
    BY DEF ResumeControlAuthentication, Denial
  <1>2. NoRow \in Rows /\ ~NoRow.stored /\ ~NoRow.stopped /\ NoRow.attempt = 1
    BY JournalBounds DEF NoRow, Rows
  <1>3. TypeOK'
    BY <1>1, <1>2 DEF TypeOK
  <1>4. ~(row.stored /\ row.inFlight)
    BY <1>1 DEF StoppedIsIdle
  <1>5. OneInFlight' /\ InFlightIsLast'
    BY <1>1, <1>2, <1>4 DEF OneInFlight, InFlightIsLast
  <1>6. AcceptedIsSpent' /\ PricedIsCompleted' /\ KnownIsSettled'
    BY <1>1 DEF AcceptedIsSpent, Spent, PricedIsCompleted, Completed, KnownIsSettled
  <1>7. HeldIsOpen'
    BY <1>1 DEF HeldIsOpen
  <1>8. CompletedIsOver' /\ UncertainIsHeld' /\ BudgetCounted'
    BY <1>1 DEF CompletedIsOver, UncertainIsHeld, BudgetCounted
  <1>9. AttemptBounded' /\ ControlStopsForGood' /\ StoppedIsIdle'
    BY <1>1, <1>2 DEF AttemptBounded, ControlStopsForGood, StoppedIsIdle, TypeOK
  <1> QED
    BY <1>3, <1>5, <1>6, <1>7, <1>8, <1>9

\* Recording the outcome of one attempt changes that attempt alone.
LEMMA Recorded ==
    ASSUME TypeOK, NEW s \in DOMAIN log, NEW e \in Attempts, log' = [log EXCEPT ![s] = e]
    PROVE  /\ log' \in Seq(Attempts) /\ Len(log') = Len(log) /\ DOMAIN log' = DOMAIN log
           /\ log'[s] = e /\ \A i \in DOMAIN log : i # s => log'[i] = log[i]
  BY DEF TypeOK

\* The holder of the attempt in flight is alone, and its attempt is the last.
LEMMA HolderFacts ==
    ASSUME IInv, NEW c \in Callers, call[c].phase = "answered", Holds(c)
    PROVE  /\ call[c].sequence = Len(log) /\ call[c].sequence \in DOMAIN log
           /\ log[call[c].sequence].outcome = "in_flight"
           /\ row.stored /\ row.inFlight /\ row.sequence = call[c].sequence /\ ~row.stopped
           /\ row \in Rows /\ row.attempt <= Len(log) /\ Len(log) \in 1..MaxSequence
           /\ call[c].result \in Failures \cup {NoFailure}
           /\ \A i \in DOMAIN log : i # Len(log) => log[i].outcome # "in_flight"
           /\ \A d \in Callers : d # c /\ call[d].phase \in {"permitted", "answered"} =>
                 call[d].sequence # call[c].sequence
  <1> USE DEF IInv
  <1>1. row.stored /\ row.inFlight /\ row.sequence = call[c].sequence
    BY DEF Holds
  <1>2. row.sequence = Len(log) /\ Len(log) > 0 /\ ~row.stopped
    BY <1>1 DEF InFlightIsLast, StoppedIsIdle
  <1>3. row \in Rows /\ Len(log) \in 1..MaxSequence /\ DOMAIN log = 1..Len(log)
    BY <1>2, JournalBounds DEF TypeOK
  <1>4. call[c] \in Calls
    BY DEF TypeOK
  <1>5. call[c].result \in Failures \cup {NoFailure}
    BY <1>4 DEF Calls
  <1>6. row.attempt <= Len(log)
    BY <1>1 DEF AttemptBounded
  <1>7. \A i \in DOMAIN log : (log[i].outcome = "in_flight") <=> i = Len(log)
    BY <1>1, <1>2 DEF OneInFlight
  <1>8. \A d \in Callers : d # c /\ call[d].phase \in {"permitted", "answered"} =>
                 call[d].sequence # call[c].sequence
    BY DEF HeldIsOpen
  <1> QED
    BY <1>1, <1>2, <1>3, <1>5, <1>6, <1>7, <1>8

\* A reported failure settles the attempt, and the row says what comes next.
LEMMA FinishFailedKeeps == ASSUME NEW c \in Callers PROVE IInv /\ FinishFailed(c) => IInv'
  <1> SUFFICES ASSUME IInv, FinishFailed(c) PROVE IInv'
    OBVIOUS
  <1> USE DEF IInv
  <1> DEFINE s == call[c].sequence
             f == call[c].result
             e == [outcome |-> "failed", failure |-> f]
  <1>1. /\ call[c].phase = "answered" /\ Holds(c) /\ f # NoFailure
        /\ row' = AfterFailure(row, f) /\ log' = [log EXCEPT ![s] = e]
        /\ call' = [call EXCEPT ![c] = Idle]
        /\ UNCHANGED <<replay, accepted, charge, faults>>
    BY DEF FinishFailed
  <1>2. /\ s = Len(log) /\ s \in DOMAIN log /\ log[s].outcome = "in_flight"
        /\ row.stored /\ row.inFlight /\ row.sequence = s /\ ~row.stopped
        /\ row \in Rows /\ row.attempt <= Len(log) /\ Len(log) \in 1..MaxSequence
        /\ f \in Failures
        /\ \A i \in DOMAIN log : i # s => log[i].outcome # "in_flight"
        /\ \A d \in Callers : d # c /\ call[d].phase \in {"permitted", "answered"} =>
              call[d].sequence # s
    BY <1>1, HolderFacts
  <1>3. e \in Attempts /\ e.outcome = "failed" /\ e.failure = f
    BY <1>2 DEF Attempts, Outcomes
  <1> HIDE DEF e
  <1>4. /\ log' \in Seq(Attempts) /\ Len(log') = Len(log) /\ DOMAIN log' = DOMAIN log
        /\ log'[s] = e /\ \A i \in DOMAIN log : i # s => log'[i] = log[i]
    BY <1>1, <1>2, <1>3, Recorded, Zenon
  <1>5. /\ row' \in Rows /\ row'.stored /\ row'.sequence = s /\ row'.inFlight = FALSE
        /\ row'.failure = f
        /\ row'.stopped = ~Retries(f, row.attempt)
        /\ row'.attempt = IF Retries(f, row.attempt) /\ ~Disconnected(f)
                          THEN row.attempt + 1 ELSE row.attempt
    <2>1. row.attempt <= MaxSequence
      BY <1>2, JournalBounds DEF Rows
    <2>2. /\ row' \in Rows /\ row'.stored = row.stored /\ row'.sequence = row.sequence
          /\ row'.inFlight = FALSE /\ row'.failure = f
          /\ row'.stopped = (row.stopped \/ ~Retries(f, row.attempt))
          /\ row'.attempt = IF Retries(f, row.attempt) /\ ~Disconnected(f)
                            THEN row.attempt + 1 ELSE row.attempt
      <3>1. row \in Rows /\ f \in Failures /\ row' = AfterFailure(row, f)
        BY <1>1, <1>2
      <3> HIDE DEF f
      <3> QED
        BY <2>1, <3>1, AfterFailureFields, Zenon
    <2>3. row'.stopped = ~Retries(f, row.attempt)
      BY <1>2, <2>2 DEF Retries
    <2> QED
      BY <1>2, <2>2, <2>3
  <1>6. Idle \in Calls /\ Idle.phase = "idle"
    BY JournalBounds DEF Idle, Calls, Phases
  <1>7. /\ call' \in [Callers -> Calls]
        /\ \A d \in Callers : call'[d] = IF d = c THEN Idle ELSE call[d]
    BY <1>1, <1>6 DEF TypeOK
  <1>8. TypeOK'
    BY <1>1, <1>4, <1>5, <1>7 DEF TypeOK
  <1>9. Free(e) <=> f.acceptance = "not_sent"
    BY <1>3 DEF Free
  <1>10. OneInFlight' /\ InFlightIsLast' /\ StoppedIsIdle'
    BY <1>2, <1>3, <1>4, <1>5 DEF OneInFlight, InFlightIsLast, StoppedIsIdle
  <1>11. HeldIsOpen'
    BY <1>1, <1>2, <1>4, <1>6, <1>7 DEF HeldIsOpen
  <1>12. AcceptedIsSpent'
    <2>1. f.acceptance = "not_sent" => s \notin accepted
      BY <1>1 DEF HeldIsOpen
    <2> QED
      BY <1>1, <1>4, <1>9, <2>1 DEF AcceptedIsSpent, Spent
  <1>13. Completed' <=> Completed
    BY <1>2, <1>3, <1>4 DEF Completed
  <1>14. CompletedIsOver' /\ PricedIsCompleted'
    BY <1>1, <1>2, <1>3, <1>4, <1>5, <1>6, <1>7, <1>13
       DEF CompletedIsOver, PricedIsCompleted
  <1>15. KnownIsSettled'
    BY <1>1, <1>2 DEF KnownIsSettled, Free
  <1>16. UncertainIsHeld'
    <2> SUFFICES ASSUME replay = "reconcile_first", NEW i \in DOMAIN log
                 PROVE  \/ log'[i].outcome = "completed" \/ Free(log'[i])
                        \/ i = Len(log) /\ row'.stored /\ (row'.inFlight \/ row'.stopped)
      BY <1>1, <1>4 DEF UncertainIsHeld
    <2>1. CASE i # s
      BY <1>2, <1>4, <2>1 DEF UncertainIsHeld
    <2>2. CASE i = s /\ f.acceptance = "not_sent"
      BY <1>4, <1>9, <2>2
    <2>3. CASE i = s /\ f.acceptance # "not_sent"
      <3>1. ~Retries(f, row.attempt)
        BY <1>2, <2>3, FailureFacts DEF Retries
      <3> QED
        BY <1>2, <1>5, <2>3, <3>1
    <2> QED
      BY <2>1, <2>2, <2>3
  <1>17. BudgetCounted'
    <2> SUFFICES ASSUME replay = "retry_inference" PROVE BudgetCounted'
      BY <1>1 DEF BudgetCounted
    <2>1. /\ Cardinality(Spent) <= row.attempt /\ row.attempt <= MaxAttempts
          /\ IsFiniteSet(Spent) /\ Cardinality(Spent) \in Nat /\ row.attempt \in Nat
      BY <1>2, SpentFinite DEF BudgetCounted, Rows
    <2>a. /\ Cardinality(Spent') \in Nat /\ Cardinality(Spent') <= Cardinality(Spent)
          /\ Disconnected(f) => Cardinality(Spent') = Cardinality(Spent) - 1
      <3>1. CASE f.acceptance = "not_sent"
        <4>1. Spent' = Spent \ {s} /\ s \in Spent
          BY <1>2, <1>3, <1>4, <1>9, <3>1 DEF Spent, Free
        <4>2. Cardinality(Spent') = Cardinality(Spent) - 1
          BY <2>1, <4>1, FS_RemoveElement
        <4>3. Cardinality(Spent') \in Nat
          BY <2>1, <4>1, FS_RemoveElement, FS_CardinalityType
        <4> QED
          BY <2>1, <4>2, <4>3
      <3>2. CASE f.acceptance # "not_sent"
        <4>1. Spent' = Spent
          BY <1>2, <1>3, <1>4, <1>9, <3>2 DEF Spent, Free
        <4>2. ~Disconnected(f)
          BY <1>2, <3>2, FailureFacts
        <4> QED
          BY <2>1, <4>1, <4>2
      <3> QED
        BY <3>1, <3>2
    <2>b. Cardinality(Spent') <= MaxAttempts
      BY <2>1, <2>a, JournalBounds
    <2>2. CASE Disconnected(f) /\ Retries(f, row.attempt)
      <3>1. row'.attempt = row.attempt /\ Cardinality(Spent') < row.attempt
        BY <1>5, <2>1, <2>2, <2>a
      <3> QED
        BY <1>5, <2>1, <2>b, <3>1 DEF BudgetCounted
    <2>3. CASE ~Disconnected(f) /\ Retries(f, row.attempt)
      <3>1. row'.attempt = row.attempt + 1 /\ row.attempt < MaxAttempts
        BY <1>1, <1>5, <2>3 DEF Retries
      <3>2. Cardinality(Spent') < row'.attempt /\ row'.attempt <= MaxAttempts
        BY <2>1, <2>a, <3>1, JournalBounds
      <3> QED
        BY <1>5, <2>b, <3>2 DEF BudgetCounted
    <2>4. CASE ~Retries(f, row.attempt)
      <3>1. row'.attempt = row.attempt /\ row'.stopped
        BY <1>5, <2>4
      <3> QED
        BY <1>5, <2>1, <2>b, <3>1 DEF BudgetCounted
    <2> QED
      BY <2>2, <2>3, <2>4
  <1>18. AttemptBounded' /\ ControlStopsForGood'
    <2>1. AttemptBounded'
      BY <1>2, <1>4, <1>5 DEF AttemptBounded, Rows
    <2>2. ControlStopsForGood'
      BY <1>1, <1>2, <1>5, FailureFacts DEF ControlStopsForGood, Retries
    <2> QED
      BY <2>1, <2>2
  <1> QED
    BY <1>8, <1>10, <1>11, <1>12, <1>14, <1>15, <1>16, <1>17, <1>18

\* A completion settles the attempt and drops the row.
LEMMA FinishCompletedKeeps ==
    ASSUME NEW c \in Callers PROVE IInv /\ FinishCompleted(c) => IInv'
  <1> SUFFICES ASSUME IInv, FinishCompleted(c) PROVE IInv'
    OBVIOUS
  <1> USE DEF IInv
  <1> DEFINE s == call[c].sequence
             e == [outcome |-> "completed", failure |-> NoFailure]
             k == IF replay = "retry_inference"
                  THEN [call[c] EXCEPT !.phase = "priced"] ELSE Idle
  <1>1. /\ call[c].phase = "answered" /\ Holds(c)
        /\ row' = NoRow /\ log' = [log EXCEPT ![s] = e]
        /\ UNCHANGED <<replay, accepted, charge, faults>>
    BY DEF FinishCompleted
  <1>a. call' = [call EXCEPT ![c] = k]
    BY DEF FinishCompleted
  <1>2. /\ s = Len(log) /\ s \in DOMAIN log /\ log[s].outcome = "in_flight"
        /\ row.stored /\ row.inFlight /\ row.sequence = s /\ ~row.stopped
        /\ Len(log) \in 1..MaxSequence
        /\ \A i \in DOMAIN log : i # s => log[i].outcome # "in_flight"
        /\ \A d \in Callers : d # c /\ call[d].phase \in {"permitted", "answered"} =>
              call[d].sequence # s
    BY <1>1, HolderFacts
  <1>3. e \in Attempts /\ e.outcome = "completed" /\ ~Free(e)
    BY DEF Attempts, Outcomes, Free
  <1> HIDE DEF e
  <1>4. /\ log' \in Seq(Attempts) /\ Len(log') = Len(log) /\ DOMAIN log' = DOMAIN log
        /\ log'[s] = e /\ \A i \in DOMAIN log : i # s => log'[i] = log[i]
    BY <1>1, <1>2, <1>3, Recorded, Zenon
  <1>5. /\ NoRow \in Rows /\ ~NoRow.stored /\ ~NoRow.stopped /\ NoRow.attempt = 1
        /\ ~NoRow.inFlight
    BY JournalBounds DEF NoRow, Rows
  <1>6. call[c] \in Calls
    BY DEF TypeOK
  <1>7. /\ k \in Calls /\ k.phase \in {"idle", "priced"}
        /\ k.phase = "priced" => replay = "retry_inference"
    BY <1>6, JournalBounds DEF Idle, Calls, Phases
  <1> HIDE DEF k
  <1>8. /\ call' \in [Callers -> Calls]
        /\ \A d \in Callers : call'[d] = IF d = c THEN k ELSE call[d]
    BY <1>a, <1>7 DEF TypeOK
  <1>9. TypeOK'
    BY <1>1, <1>4, <1>5, <1>8 DEF TypeOK
  <1>10. OneInFlight' /\ InFlightIsLast' /\ StoppedIsIdle'
    BY <1>1, <1>2, <1>3, <1>4, <1>5 DEF OneInFlight, InFlightIsLast, StoppedIsIdle
  <1>11. HeldIsOpen'
    BY <1>1, <1>2, <1>4, <1>7, <1>8 DEF HeldIsOpen
  <1>12. Spent' = Spent
    BY <1>2, <1>3, <1>4 DEF Spent, Free
  <1>13. Completed'
    BY <1>2, <1>3, <1>4 DEF Completed
  <1>14. AcceptedIsSpent'
    BY <1>1, <1>12 DEF AcceptedIsSpent
  <1>15. CompletedIsOver'
    <2>1. replay = "retry_inference" => \A i \in DOMAIN log : log[i].outcome # "completed"
      BY <1>2 DEF CompletedIsOver
    <2> QED
      BY <1>1, <1>2, <1>4, <1>5, <1>13, <2>1 DEF CompletedIsOver
  <1>16. PricedIsCompleted'
    BY <1>1, <1>7, <1>8, <1>13 DEF PricedIsCompleted
  <1>17. KnownIsSettled'
    BY <1>1, <1>2, <1>3, <1>4 DEF KnownIsSettled
  <1>18. UncertainIsHeld'
    BY <1>1, <1>2, <1>3, <1>4 DEF UncertainIsHeld
  <1>19. BudgetCounted' /\ AttemptBounded' /\ ControlStopsForGood'
    <2>1. Cardinality(Spent') = Cardinality(Spent)
      BY <1>12
    <2> QED
      BY <1>1, <1>2, <1>4, <1>5, <2>1, JournalBounds
         DEF BudgetCounted, AttemptBounded, ControlStopsForGood
  <1> QED
    BY <1>9, <1>10, <1>11, <1>14, <1>15, <1>16, <1>17, <1>18, <1>19

\* prepare that finds nothing in flight leaves row and record as they are, and
\* one that finds an attempt in flight counts it as possibly taken.
LEMMA PrepareWithheldKeeps ==
    ASSUME NEW c \in Callers PROVE IInv /\ PrepareWithheld(c) => IInv'
  <1> SUFFICES ASSUME IInv, PrepareWithheld(c) PROVE IInv'
    OBVIOUS
  <1> USE DEF IInv
  <1>1. /\ row' = Recovered /\ log' = RecoveredLog
        /\ Recovered.stopped \/ Recovered.waiting
        /\ UNCHANGED <<replay, call, accepted, charge, faults>>
    BY DEF PrepareWithheld
  <1>2. row.stored
    <2>1. ~Fresh.stopped /\ ~Fresh.waiting /\ ~Fresh.inFlight
      BY DEF Fresh, NoRow
    <2> QED
      BY <1>1, <2>1 DEF Recovered
  <1>3. CASE ~row.inFlight
    <2>1. row' = row /\ log' = log
      BY <1>1, <1>2, <1>3 DEF Recovered, RecoveredLog
    <2>2. TypeOK' /\ HeldIsOpen' /\ AcceptedIsSpent'
      BY <1>1, <2>1 DEF TypeOK, HeldIsOpen, AcceptedIsSpent, Spent
    <2>3. PricedIsCompleted' /\ KnownIsSettled'
      BY <1>1, <2>1 DEF PricedIsCompleted, KnownIsSettled, Completed
    <2> QED
      BY <1>1, <2>1, <2>2, <2>3, JournalUnchanged
  <1>4. CASE row.inFlight
    <2> DEFINE s == row.sequence
               e == [outcome |-> "unknown", failure |-> Interrupted]
    <2>1. row' = AfterFailure(row, Interrupted) /\ log' = [log EXCEPT ![s] = e]
      BY <1>1, <1>2, <1>4 DEF Recovered, RecoveredLog
    <2>2. s = Len(log) /\ Len(log) \in 1..MaxSequence /\ s \in DOMAIN log /\ row \in Rows
      BY <1>2, <1>4, JournalBounds DEF InFlightIsLast, TypeOK
    <2>3. /\ log[s].outcome = "in_flight" /\ ~row.stopped /\ row.attempt <= Len(log)
          /\ \A i \in DOMAIN log : i # s => log[i].outcome # "in_flight"
      BY <1>2, <1>4, <2>2 DEF OneInFlight, StoppedIsIdle, AttemptBounded
    <2>4. e \in Attempts /\ e.outcome = "unknown"
      BY FailureFacts DEF Attempts, Outcomes
    <2>5. ~Free(e)
      BY <2>4 DEF Free
    <2> HIDE DEF e
    <2>6. /\ log' \in Seq(Attempts) /\ Len(log') = Len(log) /\ DOMAIN log' = DOMAIN log
          /\ log'[s] = e /\ \A i \in DOMAIN log : i # s => log'[i] = log[i]
      BY <2>1, <2>2, <2>4, Recorded, Zenon
    <2>7. row.attempt <= MaxSequence
      BY <2>2, <2>3, JournalBounds DEF Rows
    <2>8. /\ row' \in Rows /\ row'.stored = row.stored /\ row'.sequence = row.sequence
          /\ row'.inFlight = FALSE /\ row'.failure = Interrupted
          /\ row'.stopped = (row.stopped \/ ~Retries(Interrupted, row.attempt))
          /\ row'.attempt = IF Retries(Interrupted, row.attempt) /\ ~Disconnected(Interrupted)
                            THEN row.attempt + 1 ELSE row.attempt
      BY <2>1, <2>2, <2>7, FailureFacts, AfterFailureFields, Zenon
    <2>9. ~Disconnected(Interrupted)
      BY FailureFacts
    <2>10. TypeOK'
      BY <1>1, <2>6, <2>8 DEF TypeOK
    <2>11. OneInFlight' /\ InFlightIsLast' /\ StoppedIsIdle'
      BY <2>2, <2>3, <2>4, <2>6, <2>8 DEF OneInFlight, InFlightIsLast, StoppedIsIdle
    <2>12. HeldIsOpen'
      BY <1>1, <2>2, <2>4, <2>6 DEF HeldIsOpen
    <2>13. Spent' = Spent /\ (Completed' <=> Completed)
      BY <2>2, <2>3, <2>4, <2>5, <2>6 DEF Spent, Free, Completed
    <2>14. AcceptedIsSpent' /\ CompletedIsOver' /\ PricedIsCompleted'
      BY <1>1, <1>2, <2>2, <2>3, <2>4, <2>6, <2>8, <2>13
         DEF AcceptedIsSpent, CompletedIsOver, PricedIsCompleted
    <2>15. KnownIsSettled'
      BY <1>1, <2>2, <2>3, <2>6 DEF KnownIsSettled, Free
    <2>16. replay = "reconcile_first" => row'.stopped
      BY <2>8, FailureFacts DEF Retries
    <2>17. UncertainIsHeld'
      BY <1>1, <1>2, <2>2, <2>6, <2>8, <2>16 DEF UncertainIsHeld
    <2>18. BudgetCounted'
      <3> SUFFICES ASSUME replay = "retry_inference" PROVE BudgetCounted'
        BY <1>1 DEF BudgetCounted
      <3>1. /\ Cardinality(Spent) <= row.attempt /\ row.attempt <= MaxAttempts
            /\ Cardinality(Spent) \in Nat /\ row.attempt \in Nat
        BY <1>2, <1>4, <2>2, SpentFinite DEF BudgetCounted, Rows
      <3>2. Cardinality(Spent') = Cardinality(Spent)
        BY <2>13
      <3>3. CASE Retries(Interrupted, row.attempt)
        <4>1. row'.attempt = row.attempt + 1 /\ row.attempt < MaxAttempts
          BY <2>8, <2>9, <3>3 DEF Retries
        <4> QED
          BY <2>8, <3>1, <3>2, <4>1, JournalBounds DEF BudgetCounted
      <3>4. CASE ~Retries(Interrupted, row.attempt)
        <4>1. row'.attempt = row.attempt /\ row'.stopped
          BY <2>8, <3>4
        <4> QED
          BY <2>8, <3>1, <3>2, <4>1, JournalBounds DEF BudgetCounted
      <3> QED
        BY <3>3, <3>4
    <2>19. AttemptBounded'
      BY <1>2, <2>2, <2>3, <2>6, <2>8 DEF AttemptBounded, Rows
    <2>20. ControlStopsForGood'
      BY <1>1, <2>3, <2>8, FailureFacts DEF ControlStopsForGood, Retries
    <2> QED
      BY <2>10, <2>11, <2>12, <2>14, <2>15, <2>17, <2>18, <2>19, <2>20
  <1> QED
    BY <1>3, <1>4

\* A permit is only given when nothing is in flight: an attempt nobody finished
\* makes the row wait or stop first.
LEMMA ReadyIsIdle ==
    ASSUME IInv, ~Recovered.stopped, ~Recovered.waiting
    PROVE  /\ ~(row.stored /\ row.inFlight) /\ RecoveredLog = log
           /\ Recovered = IF row.stored THEN row ELSE Fresh
  <1> USE DEF IInv
  <1>1. ASSUME row.stored, row.inFlight PROVE FALSE
    <2>1. row \in Rows /\ row.attempt <= Len(log) /\ Len(log) \in 0..MaxSequence
      BY <1>1 DEF TypeOK, AttemptBounded
    <2>2. row.attempt <= MaxSequence
      BY <2>1, JournalBounds DEF Rows
    <2>3. Recovered = AfterFailure(row, Interrupted)
      BY <1>1 DEF Recovered
    <2>4. /\ Recovered.waiting = (Retries(Interrupted, row.attempt) \/ row.waiting)
          /\ Recovered.stopped = (row.stopped \/ ~Retries(Interrupted, row.attempt))
      BY <2>1, <2>2, <2>3, FailureFacts, AfterFailureFields, Zenon
    <2> QED
      BY <2>4
  <1>2. ~Fresh.inFlight
    BY DEF Fresh, NoRow
  <1> QED
    BY <1>1, <1>2 DEF Recovered, RecoveredLog

\* A permit opens a new attempt, the last of the record.
LEMMA PrepareKeeps == ASSUME NEW c \in Callers PROVE IInv /\ Prepare(c) => IInv'
  <1> SUFFICES ASSUME IInv, Prepare(c) PROVE IInv'
    OBVIOUS
  <1> USE DEF IInv
  <1> DEFINE r == IF row.stored THEN row ELSE Fresh
             s == Len(log) + 1
             e == [outcome |-> "in_flight", failure |-> NoFailure]
             k == [Idle EXCEPT !.phase = "permitted", !.sequence = s]
  <1>1. /\ MaySend /\ ~Recovered.stopped /\ ~Recovered.waiting /\ s <= MaxSequence
        /\ row' = [Recovered EXCEPT !.sequence = s, !.inFlight = TRUE]
        /\ log' = Append(RecoveredLog, e) /\ call' = [call EXCEPT ![c] = k]
        /\ call[c].phase = "idle"
        /\ UNCHANGED <<replay, accepted, charge, faults>>
    BY DEF Prepare
  <1>2. ~(row.stored /\ row.inFlight) /\ RecoveredLog = log /\ Recovered = r
    BY <1>1, ReadyIsIdle
  <1>3. /\ Fresh \in Rows /\ Fresh.stored /\ ~Fresh.stopped /\ Fresh.attempt = 1
    <2>1. NoRow \in Rows /\ ~NoRow.stopped /\ NoRow.attempt = 1
      BY JournalBounds DEF NoRow, Rows
    <2>2. Interrupted \in Failures \cup {NoFailure}
      BY FailureFacts
    <2> QED
      BY <2>1, <2>2 DEF Rows, Fresh
  <1>4. r \in Rows /\ r.stored /\ ~r.stopped /\ r.attempt <= Len(log) + 1
    BY <1>1, <1>2, <1>3 DEF TypeOK, AttemptBounded
  <1>5. s \in 1..MaxSequence /\ Len(log) \in Nat /\ log \in Seq(Attempts)
        /\ DOMAIN log = 1..Len(log)
    BY <1>1, JournalBounds DEF TypeOK
  <1>6. /\ row' \in Rows /\ row'.stored /\ row'.sequence = s /\ row'.inFlight = TRUE
        /\ ~row'.stopped /\ row'.attempt = r.attempt
    <2>1. row' = [r EXCEPT !.sequence = s, !.inFlight = TRUE]
      BY <1>1, <1>2
    <2>2. s \in 0..MaxSequence
      BY <1>5
    <2> HIDE DEF r, s
    <2> QED
      BY <1>4, <2>1, <2>2 DEF Rows
  <1>7. e \in Attempts /\ e.outcome = "in_flight"
    BY DEF Attempts, Outcomes
  <1>8. ~Free(e)
    BY <1>7 DEF Free
  <1> HIDE DEF e
  <1>9. /\ log' \in Seq(Attempts) /\ Len(log') = s /\ DOMAIN log' = 1..s
        /\ log'[s] = e /\ \A i \in DOMAIN log : log'[i] = log[i]
    BY <1>1, <1>2, <1>5, <1>7
  <1>10. k \in Calls /\ k.phase = "permitted" /\ k.sequence = s
    <2>1. s \in 0..MaxSequence
      BY <1>5
    <2> HIDE DEF s
    <2> QED
      BY <2>1 DEF Calls, Phases, Idle
  <1> HIDE DEF k
  <1>11. /\ call' \in [Callers -> Calls]
         /\ \A d \in Callers : call'[d] = IF d = c THEN k ELSE call[d]
    BY <1>1, <1>10 DEF TypeOK
  <1>12. TypeOK'
    BY <1>1, <1>5, <1>6, <1>9, <1>11 DEF TypeOK
  <1>13. \A i \in DOMAIN log : log[i].outcome # "in_flight"
    BY <1>2 DEF OneInFlight
  <1>14. DOMAIN log' = DOMAIN log \cup {s} /\ s \notin DOMAIN log
    BY <1>5, <1>9
  <1>15. OneInFlight' /\ InFlightIsLast' /\ StoppedIsIdle'
    BY <1>5, <1>6, <1>7, <1>9, <1>13, <1>14 DEF OneInFlight, InFlightIsLast, StoppedIsIdle
  <1>16. s \notin accepted
    BY <1>14 DEF AcceptedIsSpent, Spent
  <1>17. HeldIsOpen'
    <2> SUFFICES ASSUME NEW d \in Callers, call'[d].phase \in {"permitted", "answered"}
                 PROVE  /\ call'[d].sequence \in DOMAIN log'
                        /\ log'[call'[d].sequence].outcome \in {"in_flight", "unknown"}
                        /\ call'[d].phase = "permitted" => call'[d].sequence \notin accepted
                        /\ call'[d].phase = "answered" /\ call'[d].result.acceptance = "not_sent" =>
                              call'[d].sequence \notin accepted
                        /\ \A b \in Callers : b # d /\ call'[b].phase \in {"permitted", "answered"} =>
                              call'[b].sequence # call'[d].sequence
      BY <1>1 DEF HeldIsOpen
    <2>1. CASE d = c
      BY <1>7, <1>9, <1>10, <1>11, <1>14, <1>16, <2>1 DEF HeldIsOpen
    <2>2. CASE d # c
      <3>1. call'[d] = call[d] /\ call[d].sequence \in DOMAIN log
        BY <1>11, <2>2 DEF HeldIsOpen
      <3>2. call'[c].sequence = s /\ call[d].sequence # s
        BY <1>10, <1>11, <1>14, <3>1
      <3>3. \A b \in Callers : b # d /\ call'[b].phase \in {"permitted", "answered"} =>
              call'[b].sequence # call'[d].sequence
        BY <1>11, <3>1, <3>2 DEF HeldIsOpen
      <3> QED
        BY <1>9, <1>14, <3>1, <3>3 DEF HeldIsOpen
    <2> QED
      BY <2>1, <2>2
  <1>18. Spent' = Spent \cup {s} /\ s \notin Spent
    BY <1>8, <1>9, <1>14 DEF Spent
  <1>19. AcceptedIsSpent'
    BY <1>1, <1>18 DEF AcceptedIsSpent
  <1>20. Completed' <=> Completed
    BY <1>7, <1>9, <1>14 DEF Completed
  <1>21. replay = "retry_inference" => ~Completed /\ (~row.stored => log = <<>>)
    BY <1>1 DEF CompletedIsOver, MaySend, Completed
  <1>22. CompletedIsOver' /\ PricedIsCompleted'
    <2>1. CompletedIsOver'
      BY <1>1, <1>6, <1>20, <1>21 DEF CompletedIsOver, Completed
    <2>2. PricedIsCompleted'
      BY <1>1, <1>10, <1>11, <1>20 DEF PricedIsCompleted
    <2> QED
      BY <2>1, <2>2
  <1>23. KnownIsSettled'
    BY <1>1, <1>21 DEF KnownIsSettled, PricedIsCompleted
  <1>24. UncertainIsHeld'
    <2>1. replay = "reconcile_first" =>
            \A i \in DOMAIN log : log[i].outcome = "completed" \/ Free(log[i])
      BY <1>2, <1>4 DEF UncertainIsHeld
    <2> QED
      BY <1>1, <1>6, <1>9, <1>14, <2>1 DEF UncertainIsHeld
  <1>25. BudgetCounted'
    <2> SUFFICES ASSUME replay = "retry_inference" PROVE BudgetCounted'
      BY <1>1 DEF BudgetCounted
    <2>1. IsFiniteSet(Spent) /\ Cardinality(Spent) \in Nat /\ r.attempt \in Nat
      BY <1>4, SpentFinite DEF Rows
    <2>2. Cardinality(Spent') = Cardinality(Spent) + 1
      BY <1>18, <2>1, FS_AddElement
    <2>3. Cardinality(Spent) < r.attempt /\ r.attempt <= MaxAttempts
      <3>1. CASE row.stored
        BY <1>2, <1>4, <3>1 DEF BudgetCounted
      <3>2. CASE ~row.stored
        <4>1. Spent = {}
          BY <1>5, <1>21, <3>2 DEF Spent
        <4>2. Cardinality(Spent) = 0
          BY <4>1, FS_EmptySet
        <4> QED
          BY <1>3, <3>2, <4>2, JournalBounds
      <3> QED
        BY <3>1, <3>2
    <2> HIDE DEF r
    <2> QED
      BY <1>6, <2>1, <2>2, <2>3, JournalBounds DEF BudgetCounted
  <1>26. AttemptBounded' /\ ControlStopsForGood'
    BY <1>4, <1>5, <1>6, <1>9 DEF AttemptBounded, ControlStopsForGood, Rows
  <1> QED
    BY <1>12, <1>15, <1>17, <1>19, <1>22, <1>23, <1>24, <1>25, <1>26

\* Every step keeps the invariant.
LEMMA NextIInv == IInv /\ [Next]_vars => IInv'
  <1> SUFFICES ASSUME IInv, [Next]_vars PROVE IInv'
    OBVIOUS
  <1>1. CASE UNCHANGED vars
    <2>1. TypeOK' /\ HeldIsOpen' /\ AcceptedIsSpent'
      BY <1>1 DEF vars, IInv, TypeOK, HeldIsOpen, AcceptedIsSpent, Spent
    <2>2. PricedIsCompleted' /\ KnownIsSettled'
      BY <1>1 DEF vars, IInv, PricedIsCompleted, KnownIsSettled, Completed
    <2> QED
      BY <1>1, <2>1, <2>2, JournalUnchanged DEF vars
  <1>2. ASSUME NEW c \in Callers, Step(c) \/ Die(c) PROVE IInv'
    BY <1>2, PrepareKeeps, PrepareWithheldKeeps, AttemptKeeps, FinishRefusedKeeps,
       FinishFailedKeeps, FinishCompletedKeeps, PriceKeeps, DieKeeps DEF Step
  <1> QED
    BY <1>1, <1>2, DelayPassesKeeps, ResumeKeeps DEF Next

\* The inductive invariant holds in every reachable state.
THEOREM JournalSafe == Spec => []IInv
  <1>1. Init => IInv
    BY InitIInv
  <1>2. IInv /\ [Next]_vars => IInv'
    BY NextIInv
  <1> QED
    BY <1>1, <1>2, PTL DEF Spec

\* However callers die, overlap or answer late, the remote side takes at most
\* max_attempts copies of one model request.
THEOREM InferenceWithinBudget == Spec => []InferenceBudget
  <1>1. IInv => InferenceBudget
    <2> SUFFICES ASSUME IInv, replay = "retry_inference"
                 PROVE  Cardinality(accepted) <= MaxAttempts
      BY DEF InferenceBudget
    <2>1. IsFiniteSet(Spent) /\ Cardinality(Spent) \in Nat /\ Cardinality(Spent) <= MaxAttempts
      BY SpentFinite DEF IInv, BudgetCounted
    <2>2. accepted \subseteq Spent
      BY DEF IInv, AcceptedIsSpent
    <2>3. Cardinality(accepted) <= Cardinality(Spent) /\ Cardinality(accepted) \in Nat
      BY <2>1, <2>2, FS_Subset, FS_CardinalityType
    <2> QED
      BY <2>1, <2>3, JournalBounds
  <1> QED
    BY <1>1, JournalSafe, PTL

\* A completed model request is never put in flight again.
THEOREM CompletedNeverResent == Spec => []CompletedIsLast
  <1>1. IInv => CompletedIsLast
    BY DEF IInv, CompletedIsOver, CompletedIsLast
  <1> QED
    BY <1>1, JournalSafe, PTL

\* A mutation the remote side may have taken is not sent a second time.
THEOREM MutationReconciledFirst == Spec => []ReconciledFirst
  <1>1. IInv => ReconciledFirst
    BY DEF IInv, UncertainIsHeld, AcceptedIsSpent, Spent, ReconciledFirst
  <1> QED
    BY <1>1, JournalSafe, PTL

\* A cost reported as known is the whole cost of the request.
THEOREM KnownCostWhole == Spec => []KnownCostIsWhole
  <1>1. IInv => KnownCostIsWhole
    BY DEF IInv, KnownIsSettled, AcceptedIsSpent, Spent, KnownCostIsWhole
  <1> QED
    BY <1>1, JournalSafe, PTL

\* Attempts left open are exactly the one the row names; a control request stops
\* only for a failure no retry can mend; the state keeps its type.
THEOREM JournalAccounted == Spec => [](TypeOK /\ OneInFlight /\ ControlStopsForGood)
  <1>1. IInv => TypeOK /\ OneInFlight /\ ControlStopsForGood
    BY DEF IInv
  <1> QED
    BY <1>1, JournalSafe, PTL

\* The counters, the row and the attempt records of the journal stay in their ranges
\* (journal.rs): the attempt number never passes its bound although callers die and
\* recover each other's attempts.
THEOREM JournalTypes == Spec => []TypeOK
  BY JournalAccounted, PTL

\* A step changes the record of no attempt but the one in flight.
LEMMA SettledStays ==
    ASSUME IInv, Next, NEW i \in DOMAIN log, log[i].outcome # "in_flight"
    PROVE  i \in DOMAIN log' /\ log'[i] = log[i]
  <1> USE DEF IInv
  <1>0. log \in Seq(Attempts) /\ TypeOK
    BY DEF TypeOK
  <1>1. ASSUME NEW c \in Callers, Prepare(c) PROVE i \in DOMAIN log' /\ log'[i] = log[i]
    <2>1. ~Recovered.stopped /\ ~Recovered.waiting
      BY <1>1 DEF Prepare
    <2>2. RecoveredLog = log
      BY <2>1, ReadyIsIdle
    <2>3. log' = Append(log, [outcome |-> "in_flight", failure |-> NoFailure])
      BY <1>1, <2>2 DEF Prepare
    <2> QED
      BY <1>0, <2>3
  <1>2. ASSUME NEW c \in Callers, PrepareWithheld(c)
        PROVE  i \in DOMAIN log' /\ log'[i] = log[i]
    <2>1. log' = RecoveredLog
      BY <1>2 DEF PrepareWithheld
    <2>2. row.stored /\ row.inFlight => i # row.sequence
      BY DEF OneInFlight
    <2> QED
      BY <1>0, <2>1, <2>2 DEF RecoveredLog
  <1>3. ASSUME NEW c \in Callers, FinishFailed(c) \/ FinishCompleted(c)
        PROVE  i \in DOMAIN log' /\ log'[i] = log[i]
    <2>1. call[c].phase = "answered" /\ Holds(c)
      BY <1>3 DEF FinishFailed, FinishCompleted
    <2>2. i # call[c].sequence
      BY <2>1, HolderFacts
    <2>3. PICK e : log' = [log EXCEPT ![call[c].sequence] = e]
      BY <1>3 DEF FinishFailed, FinishCompleted
    <2> QED
      BY <1>0, <2>2, <2>3
  <1>4. ASSUME NEW c \in Callers,
               Attempt(c) \/ AttemptFails(c) \/ FinishRefused(c) \/ Price(c) \/ Die(c)
        PROVE  log' = log
    BY <1>4 DEF Attempt, AttemptFails, FinishRefused, Price, Die
  <1>5. DelayPasses \/ ResumeControlAuthentication => log' = log
    BY DEF DelayPasses, ResumeControlAuthentication
  <1> QED
    BY <1>1, <1>2, <1>3, <1>4, <1>5 DEF Next, Step

\* An attempt once settled keeps its outcome, whatever answers come late.
THEOREM OutcomesAreFinal == Spec => OutcomesFinal
  <1> DEFINE A == \A i \in DOMAIN log :
                    log[i].outcome # "in_flight" => i \in DOMAIN log' /\ log'[i] = log[i]
  <1>1. IInv /\ [Next]_vars => [A]_vars
    BY SettledStays
  <1>2. Spec => [][A]_vars
    BY <1>1, JournalSafe, PTL DEF Spec
  <1> QED
    BY <1>2 DEF OutcomesFinal
=============================================================================
