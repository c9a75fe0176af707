--------------------------- MODULE SchedulerProofs ---------------------------
(***************************************************************************)
(* Proofs about ExecutionScheduler for every value of its constants.       *)
(***************************************************************************)
EXTENDS SchedulerInvariant, TLAPS

\* A job has a lease exactly when its lease has an attempt.
LEMMA LeaseFacts ==
    ASSUME TypeOK, NEW j \in Jobs
    PROVE  /\ lease[j] # NoLease => /\ lease[j].attempt \in Attempts
                                    /\ lease[j].worker \in Workers
                                    /\ lease[j].instance \in Instances
                                    /\ lease[j].expires \in Expiries
           /\ lease[j] = NoLease <=> lease[j].attempt = 0
           /\ lease[j].attempt \in 0..MaxAttempt
  <1>1. lease[j] \in Leases
    BY DEF TypeOK
  <1> QED
    BY <1>1, SchedulerBounds DEF Leases, NoLease, Attempts

\* The invariant of a job depends on nothing but the clock, the revocation and what is
\* kept for that job.
LEMMA Untouched ==
    ASSUME NEW j \in Jobs, JobInv(j), UNCHANGED <<now, revoked>>,
           job'[j] = job[j], lease'[j] = lease[j], terminal'[j] = terminal[j],
           authority'[j] = authority[j], renewal'[j] = renewal[j],
           decision'[j] = decision[j], frame'[j] = frame[j], deadline'[j] = deadline[j],
           answer'[j] = answer[j], outcome'[j] = outcome[j]
    PROVE  JobInv(j)'
  <1> USE DEF JobInv
  <1>1. Open(j)' <=> Open(j)
    BY DEF Open
  <1>2. Last(j)' = Last(j)
    BY DEF Last
  <1>3. Agrees(j)'
    BY <1>1, <1>2 DEF Agrees
  <1>4. FutureUntouched(j)' /\ AuthorityIsCurrent(j)' /\ CancelledIsLeaving(j)' /\ QueuedIsFirst(j)'
    BY DEF FutureUntouched, AuthorityIsCurrent, CancelledIsLeaving, QueuedIsFirst
  <1>5. RevokedIsClosed(j)' /\ WorkerAgrees(j)' /\ FrameIsLease(j)'
    BY <1>1 DEF RevokedIsClosed, WorkerAgrees, FrameIsLease
  <1>6. ReplacedIsOver(j)' /\ FailedHasReason(j)' /\ RenewalProlongs(j)' /\ DecisionHasOutcome(j)'
    BY DEF ReplacedIsOver, Over, FailedHasReason, RenewalProlongs, DecisionHasOutcome
  <1> QED
    BY <1>3, <1>4, <1>5, <1>6

\* What the queue and the registry say of a job when they are left alone.
LEMMA RecordsUntouched ==
    ASSUME NEW j \in Jobs, JobInv(j), UNCHANGED <<job, registry, revoked>>
    PROVE  /\ Agrees(j)' /\ AuthorityIsCurrent(j)' /\ CancelledIsLeaving(j)' /\ QueuedIsFirst(j)'
           /\ RevokedIsClosed(j)'
  <1> USE DEF JobInv, registry
  <1>1. (Open(j)' <=> Open(j)) /\ Last(j)' = Last(j)
    BY DEF Open, Last
  <1> QED
    BY <1>1 DEF Agrees, AuthorityIsCurrent, CancelledIsLeaving, RevokedIsClosed, QueuedIsFirst

-----------------------------------------------------------------------------
(* The clock, the fleet and the scheduler's generation *)

\* Every job is queued for its first attempt, and nothing has been leased.
LEMMA InitIInv == Init => IInv
  <1> SUFFICES ASSUME Init PROVE IInv
    OBVIOUS
  <1>1. TypeOK
    <2>1. NoLease \in Leases /\ NoRenewal \in Renewals /\ NoDecision \in Decisions
      BY DEF Leases, Renewals, Decisions
    <2>2. job \in [Jobs -> JobRows]
      BY SchedulerBounds DEF Init, JobRows, States, Attempts
    <2>3. terminal \in PerAttempt(Outcomes) /\ outcome \in PerAttempt(Outcomes)
      BY DEF Init, PerAttempt, Outcomes
    <2>4. frame \in PerAttempt(Expiries) /\ deadline \in PerAttempt(Expiries)
      BY SchedulerBounds DEF Init, PerAttempt, Expiries
    <2>5. answer \in PerAttempt(Answers)
      BY DEF Init, PerAttempt, Answers
    <2> QED
      <3>1. now \in 0..MaxTime /\ authority \in [Jobs -> 0..MaxAttempt]
        BY SchedulerBounds DEF Init
      <3>2. /\ current \in [Workers -> Instances] /\ offered \subseteq Jobs /\ revoked \in BOOLEAN
            /\ cleanup \in [Jobs -> {"none", "pending", "done"}]
        <4>1. 1 \in Instances
          BY SchedulerBounds DEF Instances
        <4>2. current \in [Workers -> Instances] /\ offered \subseteq Jobs
          BY <4>1 DEF Init
        <4>3. revoked \in BOOLEAN /\ cleanup \in [Jobs -> {"none", "pending", "done"}]
          BY DEF Init
        <4> QED
          BY <4>2, <4>3
      <3>3. /\ lease \in [Jobs -> Leases] /\ renewal \in [Jobs -> Renewals]
            /\ decision \in [Jobs -> Decisions]
        BY <2>1 DEF Init
      <3> QED
        BY <2>2, <2>3, <2>4, <2>5, <3>1, <3>2, <3>3 DEF TypeOK
  <1>2. ASSUME NEW j \in Jobs PROVE JobInv(j)
    <2>1. /\ job[j].state = "queued" /\ job[j].cancelled = FALSE /\ lease[j] = NoLease
          /\ lease[j].attempt = 0 /\ authority[j] = 0 /\ ~Open(j) /\ Last(j) = "none"
          /\ job[j].attempt = 1
      BY <1>2 DEF Init, NoLease, Open, Last
    <2>2. Agrees(j)
      BY <2>1 DEF Agrees
    <2>3. /\ AuthorityIsCurrent(j) /\ CancelledIsLeaving(j) /\ QueuedIsFirst(j)
          /\ RevokedIsClosed(j) /\ FrameIsLease(j)
      BY <2>1 DEF AuthorityIsCurrent, CancelledIsLeaving, QueuedIsFirst, RevokedIsClosed,
         FrameIsLease
    <2>4. FutureUntouched(j) /\ WorkerAgrees(j) /\ ReplacedIsOver(j) /\ FailedHasReason(j)
      BY <1>2, <2>1 DEF Init, FutureUntouched, WorkerAgrees, ReplacedIsOver, FailedHasReason, Attempts
    <2>5. RenewalProlongs(j) /\ DecisionHasOutcome(j)
      BY <1>2 DEF Init, RenewalProlongs, DecisionHasOutcome
    <2> QED
      BY <2>2, <2>3, <2>4, <2>5 DEF JobInv
  <1> QED
    BY <1>1, <1>2 DEF IInv

\* A new process of a worker takes its place: no job of it changes.
LEMMA RegisterKeeps ==
    ASSUME IInv, NEW w \in Workers, Register(w)
    PROVE  IInv'
  <1> USE DEF IInv
  <1>1. TypeOK'
    BY SchedulerBounds DEF Register, TypeOK, Instances, registry, server, worker
  <1>2. ASSUME NEW j \in Jobs PROVE JobInv(j)'
    BY <1>2, Untouched DEF Register, registry, server, worker
  <1> QED
    BY <1>1, <1>2

\* A restart forgets what was about to be written.
LEMMA RestartKeeps == IInv /\ Restart => IInv'
  <1> SUFFICES ASSUME IInv, Restart PROVE IInv'
    OBVIOUS
  <1> USE DEF IInv
  <1>1. UNCHANGED <<now, job, lease, terminal, authority, current, revoked, cleanup,
                    frame, deadline, answer, outcome>>
    BY DEF Restart, registry, fleet, worker
  <1>2. TypeOK'
    BY <1>1 DEF Restart, TypeOK, Renewals, Decisions
  <1>3. ASSUME NEW j \in Jobs PROVE JobInv(j)'
    <2>1. /\ Agrees(j)' /\ AuthorityIsCurrent(j)' /\ CancelledIsLeaving(j)' /\ QueuedIsFirst(j)'
          /\ RevokedIsClosed(j)'
      BY <1>1, <1>3, RecordsUntouched DEF registry
    <2>2. /\ FutureUntouched(j)' /\ WorkerAgrees(j)' /\ FrameIsLease(j)' /\ ReplacedIsOver(j)'
          /\ FailedHasReason(j)'
      BY <1>1, <1>3 DEF JobInv, FutureUntouched, WorkerAgrees, FrameIsLease, ReplacedIsOver,
         Over, FailedHasReason
    <2>3. RenewalProlongs(j)' /\ DecisionHasOutcome(j)'
      BY <1>3 DEF Restart, RenewalProlongs, DecisionHasOutcome
    <2> QED
      BY <2>1, <2>2, <2>3 DEF JobInv
  <1> QED
    BY <1>2, <1>3

\* What is over stays over as time passes.
LEMMA TickKeeps == IInv /\ Tick => IInv'
  <1> SUFFICES ASSUME IInv, Tick PROVE IInv'
    OBVIOUS
  <1> USE DEF IInv
  <1>1. /\ UNCHANGED <<job, lease, terminal, authority, current, revoked, offered, cleanup,
                       renewal, decision, frame, deadline, answer, outcome>>
        /\ now \in Nat /\ now' = now + 1 /\ now' \in 0..MaxTime
    BY SchedulerBounds DEF Tick, TypeOK, registry, fleet, server, worker
  <1>2. TypeOK'
    BY <1>1 DEF TypeOK
  <1>3. ASSUME NEW j \in Jobs PROVE JobInv(j)'
    <2>1. /\ Agrees(j)' /\ AuthorityIsCurrent(j)' /\ CancelledIsLeaving(j)' /\ QueuedIsFirst(j)'
          /\ RevokedIsClosed(j)'
      BY <1>1, <1>3, RecordsUntouched DEF registry
    <2>2. /\ FutureUntouched(j)' /\ WorkerAgrees(j)' /\ FrameIsLease(j)' /\ FailedHasReason(j)'
          /\ RenewalProlongs(j)' /\ DecisionHasOutcome(j)'
      BY <1>1, <1>3 DEF JobInv, FutureUntouched, WorkerAgrees, FrameIsLease, FailedHasReason,
         RenewalProlongs, DecisionHasOutcome
    <2>3. ReplacedIsOver(j)'
      <3>1. \A a \in Attempts : frame[j][a] \in Nat
        BY <1>3, SchedulerBounds DEF TypeOK, PerAttempt, Expiries
      <3> QED
        BY <1>1, <1>3, <3>1 DEF JobInv, ReplacedIsOver, Over
    <2> QED
      BY <2>1, <2>2, <2>3 DEF JobInv
  <1> QED
    BY <1>2, <1>3

-----------------------------------------------------------------------------
(* Workers *)

\* A step of the workers touches neither the queue nor the registry nor what the server
\* is about to write.
LEMMA WorkerStep ==
    ASSUME TypeOK, UNCHANGED <<now, job, registry, fleet, offered, cleanup, server>>,
           frame' \in PerAttempt(Expiries), deadline' \in PerAttempt(Expiries),
           answer' \in PerAttempt(Answers), outcome' \in PerAttempt(Outcomes),
           \A j \in Jobs : /\ JobInv(j)
                           /\ FutureUntouched(j)' /\ WorkerAgrees(j)' /\ FrameIsLease(j)'
                           /\ ReplacedIsOver(j)' /\ FailedHasReason(j)'
                           /\ DecisionHasOutcome(j)'
    PROVE  IInv'
  <1>1. TypeOK'
    BY DEF TypeOK, registry, fleet, server
  <1>2. ASSUME NEW j \in Jobs PROVE JobInv(j)'
    <2>1. /\ Agrees(j)' /\ AuthorityIsCurrent(j)' /\ CancelledIsLeaving(j)' /\ QueuedIsFirst(j)'
          /\ RevokedIsClosed(j)'
      BY <1>2, RecordsUntouched DEF fleet
    <2>2. RenewalProlongs(j)'
      BY <1>2 DEF JobInv, RenewalProlongs, server
    <2> QED
      BY <1>2, <2>1, <2>2 DEF JobInv
  <1> QED
    BY <1>1, <1>2 DEF IInv

\* The entries that are kept per attempt.
LEMMA Entries ==
    ASSUME TypeOK, NEW j \in Jobs, NEW a \in Attempts
    PROVE  /\ frame[j][a] \in Nat /\ deadline[j][a] \in Nat /\ now \in Nat /\ a \in Nat
           /\ frame[j][a] \in Expiries /\ deadline[j][a] \in Expiries
           /\ answer[j][a] \in Answers /\ outcome[j][a] \in Outcomes
           /\ terminal[j][a] \in Outcomes /\ lease[j].attempt \in Nat
  BY LeaseFacts, SchedulerBounds DEF TypeOK, PerAttempt, Expiries, Attempts

\* A dispatch is accepted before its frame has passed, so it is not one that is over.
LEMMA AcceptKeeps ==
    ASSUME IInv, NEW j \in Jobs, NEW a \in Attempts, Accept(j, a)
    PROVE  IInv'
  <1> USE DEF IInv, JobInv
  <1>1. /\ frame[j][a] > now /\ answer[j][a] = "none" /\ UNCHANGED <<frame, outcome>>
        /\ answer' = [answer EXCEPT ![j][a] = "accepted"]
        /\ deadline' = [deadline EXCEPT ![j][a] = frame[j][a]]
        /\ UNCHANGED <<now, job, lease, terminal, authority, decision>>
    BY DEF Accept, registry, server
  <1>2. /\ answer' \in PerAttempt(Answers) /\ deadline' \in PerAttempt(Expiries)
        /\ answer'[j][a] = "accepted" /\ deadline'[j][a] = frame[j][a]
        /\ \A k \in Jobs : \A b \in Attempts : k # j \/ b # a =>
              answer'[k][b] = answer[k][b] /\ deadline'[k][b] = deadline[k][b]
    <2>1. frame[j][a] \in Expiries /\ "accepted" \in Answers
      BY Entries DEF Answers
    <2> QED
      BY <1>1, <2>1 DEF TypeOK, PerAttempt
  <1>3. ASSUME NEW k \in Jobs
        PROVE  /\ FutureUntouched(k)' /\ WorkerAgrees(k)' /\ FrameIsLease(k)'
               /\ ReplacedIsOver(k)' /\ FailedHasReason(k)' /\ DecisionHasOutcome(k)'
    <2>1. FutureUntouched(k)'
      BY <1>1, <1>2, <1>3, Entries DEF FutureUntouched
    <2>2. WorkerAgrees(k)'
      BY <1>1, <1>2, <1>3, Entries DEF WorkerAgrees
    <2>3. FrameIsLease(k)' /\ DecisionHasOutcome(k)'
      BY <1>1, <1>3 DEF FrameIsLease, DecisionHasOutcome
    <2>4. ReplacedIsOver(k)'
      BY <1>1, <1>2, <1>3, Entries DEF ReplacedIsOver, Over
    <2>5. FailedHasReason(k)'
      BY <1>1, <1>2, <1>3, Entries DEF FailedHasReason, WorkerAgrees
    <2> QED
      BY <2>1, <2>2, <2>3, <2>4, <2>5
  <1> QED
    BY <1>1, <1>2, <1>3, WorkerStep DEF Accept, TypeOK

\* A dispatch that is refused never executes.
LEMMA RejectKeeps ==
    ASSUME IInv, NEW j \in Jobs, NEW a \in Attempts, Reject(j, a)
    PROVE  IInv'
  <1> USE DEF IInv, JobInv
  <1>1. /\ frame[j][a] > 0 /\ answer[j][a] = "none" /\ UNCHANGED <<frame, deadline, outcome>>
        /\ answer' = [answer EXCEPT ![j][a] = "rejected"]
        /\ UNCHANGED <<now, job, lease, terminal, authority, decision>>
    BY DEF Reject, registry, server
  <1>2. /\ answer' \in PerAttempt(Answers) /\ answer'[j][a] = "rejected"
        /\ \A k \in Jobs : \A b \in Attempts : k # j \/ b # a => answer'[k][b] = answer[k][b]
    <2>1. "rejected" \in Answers
      BY DEF Answers
    <2> QED
      BY <1>1, <2>1 DEF TypeOK, PerAttempt
  <1>3. ASSUME NEW k \in Jobs
        PROVE  /\ FutureUntouched(k)' /\ WorkerAgrees(k)' /\ FrameIsLease(k)'
               /\ ReplacedIsOver(k)' /\ FailedHasReason(k)' /\ DecisionHasOutcome(k)'
    <2>1. FutureUntouched(k)'
      BY <1>1, <1>2, <1>3, Entries DEF FutureUntouched
    <2>2. WorkerAgrees(k)'
      BY <1>1, <1>2, <1>3, Entries DEF WorkerAgrees
    <2>3. FrameIsLease(k)' /\ DecisionHasOutcome(k)'
      BY <1>1, <1>3 DEF FrameIsLease, DecisionHasOutcome
    <2>4. ReplacedIsOver(k)'
      BY <1>1, <1>2, <1>3, Entries DEF ReplacedIsOver, Over
    <2>5. FailedHasReason(k)'
      BY <1>1, <1>2, <1>3, Entries DEF FailedHasReason, WorkerAgrees
    <2> QED
      BY <2>1, <2>2, <2>3, <2>4, <2>5
  <1> QED
    BY <1>1, <1>2, <1>3, WorkerStep DEF Reject, TypeOK

\* A step of the workers that only moves the deadline of one execution.
LEMMA DeadlineMoved ==
    ASSUME IInv, NEW j \in Jobs, NEW a \in Attempts, NEW d \in Expiries,
           deadline[j][a] > 0, d = 0 \/ (d = frame[j][a] /\ now < deadline[j][a]),
           deadline' = [deadline EXCEPT ![j][a] = d],
           UNCHANGED <<now, job, registry, fleet, offered, cleanup, server, frame, answer, outcome>>
    PROVE  IInv'
  <1> USE DEF IInv, JobInv
  <1>1. UNCHANGED <<lease, terminal, authority, decision>>
    BY DEF registry, server
  <1>2. /\ deadline' \in PerAttempt(Expiries) /\ deadline'[j][a] = d
        /\ \A k \in Jobs : \A b \in Attempts : k # j \/ b # a => deadline'[k][b] = deadline[k][b]
    BY DEF TypeOK, PerAttempt
  <1>3. ASSUME NEW k \in Jobs
        PROVE  /\ FutureUntouched(k)' /\ WorkerAgrees(k)' /\ FrameIsLease(k)'
               /\ ReplacedIsOver(k)' /\ FailedHasReason(k)' /\ DecisionHasOutcome(k)'
    <2>1. FutureUntouched(k)' /\ FrameIsLease(k)' /\ DecisionHasOutcome(k)' /\ FailedHasReason(k)'
      BY <1>1, <1>3 DEF FutureUntouched, FrameIsLease, DecisionHasOutcome, FailedHasReason
    <2>2. WorkerAgrees(k)'
      BY <1>1, <1>2, <1>3, Entries DEF WorkerAgrees
    <2>3. ReplacedIsOver(k)'
      BY <1>1, <1>2, <1>3, Entries DEF ReplacedIsOver, Over, WorkerAgrees
    <2> QED
      BY <2>1, <2>2, <2>3
  <1> QED
    BY <1>2, <1>3, WorkerStep DEF TypeOK

\* An execution is extended only before it has ended.
LEMMA ExtendKeeps ==
    ASSUME IInv, NEW j \in Jobs, NEW a \in Attempts, Extend(j, a)
    PROVE  IInv'
  <1>1. /\ deadline[j][a] > 0 /\ frame[j][a] \in Expiries
    BY Entries DEF IInv, Extend
  <1> QED
    BY <1>1, DeadlineMoved DEF Extend

\* An execution that died has no deadline any more.
LEMMA DieKeeps ==
    ASSUME IInv, NEW j \in Jobs, NEW a \in Attempts, Die(j, a)
    PROVE  IInv'
  <1>1. 0 \in Expiries
    BY SchedulerBounds DEF Expiries
  <1> QED
    BY <1>1, DeadlineMoved DEF Die

\* An execution that reports has been accepted, and it was cancelled only if the job was.
LEMMA ReportKeeps ==
    ASSUME IInv, NEW j \in Jobs, NEW a \in Attempts, NEW r \in Results, Report(j, a, r)
    PROVE  IInv'
  <1> USE DEF IInv, JobInv
  <1>1. /\ deadline[j][a] > 0 /\ outcome[j][a] = "none"
        /\ r = "cancelled" => job[j].state = "cancelling"
        /\ outcome' = [outcome EXCEPT ![j][a] = r]
        /\ deadline' = [deadline EXCEPT ![j][a] = 0]
        /\ UNCHANGED <<now, job, lease, terminal, authority, decision, frame, answer>>
    BY DEF Report, registry, server
  <1>2. r \in Outcomes /\ r # "none" /\ 0 \in Expiries
    BY SchedulerBounds DEF Results, Outcomes, Expiries
  <1>3. /\ outcome' \in PerAttempt(Outcomes) /\ deadline' \in PerAttempt(Expiries)
        /\ outcome'[j][a] = r /\ deadline'[j][a] = 0
        /\ \A k \in Jobs : \A b \in Attempts : k # j \/ b # a =>
              outcome'[k][b] = outcome[k][b] /\ deadline'[k][b] = deadline[k][b]
    BY <1>1, <1>2 DEF TypeOK, PerAttempt
  <1>4. ASSUME NEW k \in Jobs
        PROVE  /\ FutureUntouched(k)' /\ WorkerAgrees(k)' /\ FrameIsLease(k)'
               /\ ReplacedIsOver(k)' /\ FailedHasReason(k)' /\ DecisionHasOutcome(k)'
    <2>1. FutureUntouched(k)' /\ FrameIsLease(k)'
      BY <1>1, <1>4 DEF FutureUntouched, FrameIsLease
    <2>2. WorkerAgrees(k)'
      BY <1>1, <1>2, <1>3, <1>4, Entries DEF WorkerAgrees, CancelledIsLeaving
    <2>3. ReplacedIsOver(k)'
      BY <1>1, <1>3, <1>4, Entries DEF ReplacedIsOver, Over
    <2>4. FailedHasReason(k)'
      BY <1>1, <1>2, <1>3, <1>4 DEF FailedHasReason
    <2>5. DecisionHasOutcome(k)'
      <3>1. decision[k] # NoDecision => decision[k].attempt \in Attempts
        BY <1>4 DEF TypeOK, Decisions
      <3> QED
        BY <1>1, <1>2, <1>3, <1>4, <3>1 DEF DecisionHasOutcome
    <2> QED
      BY <2>1, <2>2, <2>3, <2>4, <2>5
  <1> QED
    BY <1>1, <1>3, <1>4, WorkerStep DEF Report, TypeOK

-----------------------------------------------------------------------------
(* Leases that are granted *)

\* A grant writes well-formed rows, and only those of its job.
LEMMA GrantTypes ==
    ASSUME TypeOK, NEW j \in Jobs, NEW a \in Attempts, NEW w \in Workers,
           NEW i \in Instances, Grant(j, a, w, i)
    PROVE  /\ lease' \in [Jobs -> Leases] /\ authority' \in [Jobs -> 0..MaxAttempt]
           /\ frame' \in PerAttempt(Expiries) /\ offered' \subseteq Jobs
           /\ lease'[j] # NoLease /\ lease'[j].attempt = a
           /\ lease'[j].expires = now + LeaseTime /\ authority'[j] = 0
           /\ frame'[j][a] = now + LeaseTime
           /\ \A b \in Attempts : b # a => frame'[j][b] = frame[j][b]
           /\ \A k \in Jobs : k # j => /\ lease'[k] = lease[k] /\ frame'[k] = frame[k]
                                        /\ authority'[k] = authority[k]
  <1>1. now + LeaseTime \in Expiries
    BY SchedulerBounds DEF TypeOK, Expiries
  <1> DEFINE new == [attempt |-> a, worker |-> w, instance |-> i, expires |-> now + LeaseTime]
  <1>2. /\ new \in Leases /\ new # NoLease /\ new.attempt = a
        /\ new.expires = now + LeaseTime
    BY <1>1 DEF Leases, NoLease, Attempts
  <1>3. lease' = [lease EXCEPT ![j] = new]
    BY DEF Grant
  <1> HIDE DEF new
  <1>4. /\ lease' \in [Jobs -> Leases] /\ lease'[j] = new
        /\ \A k \in Jobs : k # j => lease'[k] = lease[k]
    BY <1>2, <1>3 DEF TypeOK
  <1>5. /\ authority' \in [Jobs -> 0..MaxAttempt] /\ authority'[j] = 0
        /\ \A k \in Jobs : k # j => authority'[k] = authority[k]
    BY SchedulerBounds DEF Grant, TypeOK
  <1>6. /\ frame' \in PerAttempt(Expiries) /\ frame'[j][a] = now + LeaseTime
        /\ \A b \in Attempts : b # a => frame'[j][b] = frame[j][b]
        /\ \A k \in Jobs : k # j => frame'[k] = frame[k]
    BY <1>1 DEF Grant, TypeOK, PerAttempt
  <1>7. offered' \subseteq Jobs
    BY DEF Grant, TypeOK
  <1> QED
    BY <1>2, <1>4, <1>5, <1>6, <1>7

\* A lease for a new attempt, whose predecessors have all failed and are over, of a job
\* that is not cancelled and not of a revoked device.
LEMMA GrantKeeps ==
    ASSUME IInv, NEW j \in Jobs, NEW a \in Attempts, NEW w \in Workers, NEW i \in Instances,
           Grant(j, a, w, i), lease[j].attempt < a,
           job'[j].state = "leased", job'[j].attempt = a, ~job'[j].cancelled,
           job'[j].cancelled = job[j].cancelled, revoked => j \notin DeviceJobs,
           \A b \in Attempts : b < a => terminal'[j][b] = "failed" /\ Over(j, b),
           \A b \in Attempts : b >= a => terminal'[j][b] = terminal[j][b],
           \A k \in Jobs : k # j => job'[k] = job[k] /\ terminal'[k] = terminal[k],
           UNCHANGED <<now, revoked, server, deadline, answer, outcome>>
    PROVE  \A k \in Jobs : JobInv(k)'
  <1> USE DEF IInv, JobInv
  <1>1. /\ lease'[j] # NoLease /\ lease'[j].attempt = a
        /\ lease'[j].expires = now + LeaseTime /\ authority'[j] = 0
        /\ frame'[j][a] = now + LeaseTime
        /\ \A b \in Attempts : b # a => frame'[j][b] = frame[j][b]
        /\ \A k \in Jobs : k # j => /\ lease'[k] = lease[k] /\ frame'[k] = frame[k]
                                     /\ authority'[k] = authority[k]
    BY GrantTypes
  <1>2. /\ UNCHANGED <<renewal, decision>> /\ now \in Nat /\ LeaseTime \in Nat /\ a \in Nat
        /\ Attempts \subseteq Nat /\ a <= MaxAttempt
    BY SchedulerBounds DEF server, TypeOK, Attempts
  <1>3. \A k \in Jobs : k # j => JobInv(k)'
    BY <1>1, <1>2, Untouched
  <1>4. \A b \in Attempts : b >= a => terminal'[j][b] = "none"
    BY Entries DEF FutureUntouched
  <1>5. Open(j)' /\ Last(j)' = "none"
    BY <1>1, <1>2, <1>4 DEF Open, Last
  <1>6. Agrees(j)'
    <2>1. \A b \in 1..(a - 1) : terminal'[j][b] = "failed"
      BY <1>2, SchedulerBounds DEF Attempts
    <2> QED
      BY <1>1, <1>5, <2>1 DEF Agrees
  <1>7. FutureUntouched(j)'
    BY <1>1, <1>4, Entries DEF FutureUntouched
  <1>8. /\ AuthorityIsCurrent(j)' /\ CancelledIsLeaving(j)' /\ QueuedIsFirst(j)'
        /\ RevokedIsClosed(j)' /\ FrameIsLease(j)'
    BY <1>1 DEF AuthorityIsCurrent, CancelledIsLeaving, QueuedIsFirst, RevokedIsClosed,
       FrameIsLease
  <1>9. WorkerAgrees(j)'
    <2>1. answer[j][a] = "none"
      BY Entries DEF FutureUntouched
    <2> QED
      BY <1>1, <1>2, <2>1, Entries DEF WorkerAgrees
  <1>10. ReplacedIsOver(j)'
    BY <1>1, <1>2, Entries DEF ReplacedIsOver, Over
  <1>11. FailedHasReason(j)' /\ RenewalProlongs(j)' /\ DecisionHasOutcome(j)'
    BY <1>1, <1>2, <1>4 DEF FailedHasReason, RenewalProlongs, DecisionHasOutcome
  <1>12. JobInv(j)'
    BY <1>6, <1>7, <1>8, <1>9, <1>10, <1>11
  <1> QED
    BY <1>3, <1>12

\* A queued job is leased for its first attempt.
LEMMA ClaimReadyKeeps ==
    ASSUME IInv, NEW w \in Workers, NEW i \in Instances, NEW ready, ClaimReady(w, i, ready)
    PROVE  IInv'
  <1> USE DEF IInv, JobInv
  <1>1. PICK j \in Jobs : Ready(j) /\ SetState(j, "leased") /\ Grant(j, job[j].attempt, w, i)
    BY DEF ClaimReady
  <1>2. /\ UNCHANGED <<now, terminal, fleet, cleanup, server, deadline, answer, outcome>>
        /\ UNCHANGED <<current, revoked, renewal, decision>>
    BY DEF ClaimReady, fleet, server
  <1> DEFINE a == job[j].attempt
  <1>3. /\ a \in Attempts /\ job[j].state = "queued" /\ ~job[j].cancelled
        /\ revoked => j \notin DeviceJobs
    BY <1>1 DEF TypeOK, JobRows, Ready
  <1>4. /\ job' \in [Jobs -> JobRows] /\ job'[j].state = "leased" /\ job'[j].attempt = a
        /\ job'[j].cancelled = job[j].cancelled /\ \A k \in Jobs : k # j => job'[k] = job[k]
    BY <1>1 DEF SetState, TypeOK, JobRows, States
  <1>5. lease[j].attempt = 0 /\ a = 1
    BY <1>3, LeaseFacts DEF Agrees, QueuedIsFirst
  <1>6. Grant(j, a, w, i)
    BY <1>1
  <1> HIDE DEF a
  <1>7. TypeOK'
    BY <1>2, <1>3, <1>4, <1>6, GrantTypes DEF TypeOK
  <1>8. \A k \in Jobs : JobInv(k)'
    <2>1. \A b \in Attempts : b >= a
      BY <1>5 DEF Attempts
    <2>2. \A b \in Attempts : b < a => terminal'[j][b] = "failed" /\ Over(j, b)
      BY <1>5 DEF Attempts
    <2> QED
      BY <1>2, <1>3, <1>4, <1>5, <1>6, <2>2, GrantKeeps
  <1> QED
    BY <1>7, <1>8

\* replace_execution_job_attempt_in_transaction
LEMMA NextAttemptTypes ==
    ASSUME TypeOK, NEW j \in Jobs, job[j].attempt < MaxAttempt, NextAttempt(j)
    PROVE  /\ job' \in [Jobs -> JobRows] /\ job'[j].state = "leased"
           /\ job'[j].attempt = job[j].attempt + 1 /\ job[j].attempt + 1 \in Attempts
           /\ job'[j].cancelled = job[j].cancelled
           /\ \A k \in Jobs : k # j => job'[k] = job[k]
  <1>1. job[j].attempt + 1 \in Attempts
    BY SchedulerBounds DEF TypeOK, JobRows, Attempts
  <1> QED
    BY <1>1 DEF NextAttempt, TypeOK, JobRows, States

\* The end of a lease is recorded once, for its attempt.
LEMMA FinishTypes ==
    ASSUME TypeOK, NEW j \in Jobs, lease[j] # NoLease, NEW r \in Outcomes, Finish(j, r)
    PROVE  /\ terminal' \in PerAttempt(Outcomes) /\ terminal'[j][lease[j].attempt] = r
           /\ \A b \in Attempts : b # lease[j].attempt => terminal'[j][b] = terminal[j][b]
           /\ \A k \in Jobs : k # j => terminal'[k] = terminal[k]
  <1>1. lease[j].attempt \in Attempts
    BY LeaseFacts
  <1> QED
    BY <1>1 DEF Finish, TypeOK, PerAttempt

\* A former process is replaced only when its lease, and so the last frame it was sent,
\* has expired.
LEMMA ReplaceKeeps ==
    ASSUME IInv, NEW w \in Workers, NEW i \in Instances, NEW ready, Replace(w, i, ready)
    PROVE  IInv'
  <1> USE DEF IInv, JobInv
  <1>1. PICK j \in Jobs : /\ Recovers(w, i, ready, j) /\ now >= lease[j].expires /\ Open(j)
                          /\ job[j].attempt < MaxAttempt /\ Finish(j, "failed")
                          /\ NextAttempt(j) /\ Grant(j, job[j].attempt + 1, w, i)
    BY DEF Replace
  <1>2. /\ UNCHANGED <<now, fleet, cleanup, server, deadline, answer, outcome>>
        /\ UNCHANGED <<current, revoked, renewal, decision>>
    BY DEF Replace, fleet, server
  <1> DEFINE a == job[j].attempt + 1
  <1>3. /\ job' \in [Jobs -> JobRows] /\ job'[j].state = "leased" /\ job'[j].attempt = a
        /\ a \in Attempts /\ job'[j].cancelled = job[j].cancelled
        /\ \A k \in Jobs : k # j => job'[k] = job[k]
    BY <1>1, NextAttemptTypes
  <1>4. /\ lease[j] # NoLease /\ job[j].state \in {"leased", "running"}
        /\ lease[j].attempt = job[j].attempt /\ lease[j].attempt \in Attempts
    BY <1>1, LeaseFacts DEF Open, Agrees, Recovers, Recoverable
  <1>5. ~job[j].cancelled /\ (revoked => j \notin DeviceJobs)
    BY <1>1, <1>4 DEF CancelledIsLeaving, RevokedIsClosed
  <1>6. /\ terminal' \in PerAttempt(Outcomes) /\ terminal'[j][lease[j].attempt] = "failed"
        /\ \A b \in Attempts : b # lease[j].attempt => terminal'[j][b] = terminal[j][b]
        /\ \A k \in Jobs : k # j => terminal'[k] = terminal[k]
    BY <1>1, <1>4, FinishTypes DEF Outcomes
  <1>7. Grant(j, a, w, i) /\ lease[j].attempt < a /\ lease[j].attempt = a - 1
    BY <1>1, <1>4 DEF Attempts
  <1> HIDE DEF a
  <1>8. TypeOK'
    BY <1>2, <1>3, <1>6, <1>7, GrantTypes DEF TypeOK
  <1>9. \A k \in Jobs : JobInv(k)'
    <2>1. ASSUME NEW b \in Attempts, b < a PROVE terminal'[j][b] = "failed" /\ Over(j, b)
      <3>1. CASE b = lease[j].attempt
        BY <1>1, <1>4, <1>6, <3>1 DEF FrameIsLease, Over
      <3>2. CASE b # lease[j].attempt
        <4>1. b \in 1..(lease[j].attempt - 1) /\ b < lease[j].attempt
          BY <1>3, <1>7, <2>1, <3>2 DEF Attempts
        <4> QED
          BY <1>6, <2>1, <3>2, <4>1 DEF Agrees, ReplacedIsOver
      <3> QED
        BY <3>1, <3>2
    <2>2. \A b \in Attempts : b >= a => terminal'[j][b] = terminal[j][b]
      BY <1>3, <1>6, <1>7 DEF Attempts
    <2> QED
      BY <1>2, <1>3, <1>5, <1>6, <1>7, <2>1, <2>2, GrantKeeps
  <1> QED
    BY <1>8, <1>9

\* A failed job is retried only when its last dispatch was refused or its execution
\* reported, so that execution is over.
LEMMA RetryFailedKeeps ==
    ASSUME IInv, NEW w \in Workers, NEW j \in Jobs, RetryFailed(j, w)
    PROVE  IInv'
  <1> USE DEF IInv, JobInv
  <1>1. /\ Retryable(j) /\ j \notin DeviceJobs /\ job[j].attempt < MaxAttempt
        /\ lease[j].attempt = job[j].attempt /\ terminal[j][lease[j].attempt] = "failed"
        /\ NextAttempt(j) /\ Grant(j, job[j].attempt + 1, w, current[w])
        /\ cleanup' = [cleanup EXCEPT ![j] = "none"]
        /\ UNCHANGED <<now, terminal, fleet, server, deadline, answer, outcome>>
        /\ UNCHANGED <<current, revoked, renewal, decision>>
    BY DEF RetryFailed, fleet, server
  <1> DEFINE a == job[j].attempt + 1
             i == current[w]
  <1>2. /\ job' \in [Jobs -> JobRows] /\ job'[j].state = "leased" /\ job'[j].attempt = a
        /\ a \in Attempts /\ job'[j].cancelled = job[j].cancelled
        /\ \A k \in Jobs : k # j => job'[k] = job[k]
    BY <1>1, NextAttemptTypes
  <1>3. /\ lease[j].attempt \in Attempts /\ i \in Instances /\ ~job[j].cancelled
    BY <1>1 DEF TypeOK, JobRows, Retryable
  <1>4. Grant(j, a, w, i) /\ lease[j].attempt < a /\ lease[j].attempt = a - 1
    BY <1>1, <1>3 DEF Attempts
  <1> HIDE DEF a, i
  <1>5. cleanup' \in [Jobs -> {"none", "pending", "done"}]
    BY <1>1 DEF TypeOK
  <1>6. TypeOK'
    BY <1>1, <1>2, <1>3, <1>4, <1>5, GrantTypes DEF TypeOK
  <1>7. \A k \in Jobs : JobInv(k)'
    <2>1. ASSUME NEW b \in Attempts, b < a PROVE terminal'[j][b] = "failed" /\ Over(j, b)
      <3>1. CASE b = lease[j].attempt
        BY <1>1, <3>1, <2>1 DEF FailedHasReason, WorkerAgrees, Over
      <3>2. CASE b # lease[j].attempt
        <4>1. b \in 1..(lease[j].attempt - 1) /\ b < lease[j].attempt
          BY <1>2, <1>4, <2>1, <3>2 DEF Attempts
        <4> QED
          BY <1>1, <2>1, <4>1 DEF Agrees, ReplacedIsOver
      <3> QED
        BY <3>1, <3>2
    <2> QED
      BY <1>1, <1>2, <1>3, <1>4, <2>1, GrantKeeps
  <1> QED
    BY <1>6, <1>7

\* A dispatch that is sent again carries the expiry the registry has.
LEMMA ReofferKeeps ==
    ASSUME IInv, NEW w \in Workers, NEW i \in Instances, NEW ready, Reoffer(w, i, ready)
    PROVE  IInv'
  <1> USE DEF IInv, JobInv
  <1>1. PICK j \in Jobs : /\ Recovers(w, i, ready, j) /\ offered' = offered \cup {j}
                          /\ frame' = [frame EXCEPT ![j][lease[j].attempt] = lease[j].expires]
    BY DEF Reoffer
  <1>2. /\ UNCHANGED <<now, job, registry, fleet, cleanup, server, deadline, answer, outcome>>
        /\ UNCHANGED <<lease, terminal, authority, current, revoked, renewal, decision>>
    BY DEF Reoffer, registry, fleet, server
  <1>3. lease[j] # NoLease /\ lease[j].attempt \in Attempts
    BY <1>1, LeaseFacts DEF Recovers, Recoverable, Open, Agrees
  <1>4. frame' = frame
    BY <1>1, <1>3 DEF FrameIsLease, TypeOK, PerAttempt
  <1>5. TypeOK'
    BY <1>1, <1>2, <1>4 DEF TypeOK
  <1>6. \A k \in Jobs : JobInv(k)'
    BY <1>2, <1>4, Untouched
  <1> QED
    BY <1>5, <1>6

-----------------------------------------------------------------------------
(* Answers, cancellation and revocation *)

\* A step that moves the queue and ends the current lease, and leaves leases and workers
\* alone: what is left to show is what queue and registry say of each other.
LEMMA RecordStep ==
    ASSUME IInv, NEW j \in Jobs, UNCHANGED <<now, lease, worker, renewal>>,
           decision'[j] \in {decision[j], NoDecision},
           \A b \in Attempts : b # lease[j].attempt => terminal'[j][b] = terminal[j][b],
           job[j].cancelled => job'[j].cancelled,
           Agrees(j)', AuthorityIsCurrent(j)', CancelledIsLeaving(j)', QueuedIsFirst(j)',
           RevokedIsClosed(j)', FailedHasReason(j)'
    PROVE  JobInv(j)'
  <1> USE DEF IInv, JobInv, worker
  <1>1. FutureUntouched(j)'
    BY Entries DEF FutureUntouched
  <1>2. WorkerAgrees(j)'
    BY DEF WorkerAgrees
  <1>3. FrameIsLease(j)' /\ ReplacedIsOver(j)' /\ RenewalProlongs(j)'
    BY DEF FrameIsLease, ReplacedIsOver, Over, RenewalProlongs
  <1>4. DecisionHasOutcome(j)'
    BY DEF DecisionHasOutcome
  <1> QED
    BY <1>1, <1>2, <1>3, <1>4

\* What SetState writes.
LEMMA SetStateTypes ==
    ASSUME TypeOK, NEW j \in Jobs, NEW s \in States, SetState(j, s)
    PROVE  /\ job' \in [Jobs -> JobRows] /\ job'[j].state = s
           /\ job'[j].attempt = job[j].attempt /\ job'[j].cancelled = job[j].cancelled
           /\ \A k \in Jobs : k # j => job'[k] = job[k]
  BY DEF SetState, TypeOK, JobRows

\* An accepted dispatch starts the job, a refused one ends the lease and the job.
LEMMA RecordAnswerKeeps ==
    ASSUME IInv, NEW j \in Jobs, NEW a \in Attempts, RecordAnswer(j, a)
    PROVE  IInv'
  <1> USE DEF IInv, JobInv
  <1>1. /\ answer[j][a] # "none" /\ Open(j) /\ lease[j].attempt = a /\ authority[j] # a
        /\ job[j].state = "leased" /\ job[j].attempt = a
        /\ UNCHANGED <<now, lease, fleet, offered, cleanup, server, worker>>
        /\ UNCHANGED <<current, revoked, renewal, decision, frame, deadline, answer, outcome>>
    BY DEF RecordAnswer, AnswerHolds, fleet, server, worker
  <1>2. lease[j] # NoLease /\ terminal[j][a] = "none" /\ ~job[j].cancelled
    BY <1>1 DEF Open, CancelledIsLeaving
  <1>3. CASE answer[j][a] = "accepted"
    <2>1. SetState(j, "running") /\ authority' = [authority EXCEPT ![j] = a] /\ UNCHANGED terminal
      BY <1>3 DEF RecordAnswer
    <2>2. /\ job' \in [Jobs -> JobRows] /\ job'[j].state = "running"
          /\ job'[j].attempt = job[j].attempt /\ job'[j].cancelled = job[j].cancelled
          /\ \A k \in Jobs : k # j => job'[k] = job[k]
      BY <2>1, SetStateTypes DEF States
    <2>3. /\ authority' \in [Jobs -> 0..MaxAttempt] /\ authority'[j] = a
          /\ \A k \in Jobs : k # j => authority'[k] = authority[k]
      BY <2>1, SchedulerBounds DEF TypeOK, Attempts
    <2>4. TypeOK'
      BY <1>1, <2>1, <2>2, <2>3 DEF TypeOK
    <2>5. \A k \in Jobs : k # j => JobInv(k)'
      BY <1>1, <2>1, <2>2, <2>3, Untouched
    <2>6. Open(j)' /\ Last(j)' = "none"
      BY <1>1, <1>2, <2>1 DEF Open, Last
    <2>7. Agrees(j)'
      BY <1>1, <1>2, <2>1, <2>2, <2>3, <2>6 DEF Agrees
    <2>8. /\ AuthorityIsCurrent(j)' /\ CancelledIsLeaving(j)' /\ QueuedIsFirst(j)'
          /\ RevokedIsClosed(j)' /\ FailedHasReason(j)'
      BY <1>1, <1>2, <2>1, <2>2, <2>3, <2>6 DEF AuthorityIsCurrent, CancelledIsLeaving,
         QueuedIsFirst, RevokedIsClosed, FailedHasReason
    <2>9. JobInv(j)'
      BY <1>1, <2>1, <2>2, <2>7, <2>8, RecordStep
    <2> QED
      BY <2>4, <2>5, <2>9
  <1>4. CASE answer[j][a] # "accepted"
    <2>1. SetState(j, "failed") /\ Finish(j, "failed") /\ UNCHANGED authority
      BY <1>4 DEF RecordAnswer
    <2>2. /\ job' \in [Jobs -> JobRows] /\ job'[j].state = "failed"
          /\ job'[j].attempt = job[j].attempt /\ job'[j].cancelled = job[j].cancelled
          /\ \A k \in Jobs : k # j => job'[k] = job[k]
      BY <2>1, SetStateTypes DEF States
    <2>3. /\ terminal' \in PerAttempt(Outcomes) /\ terminal'[j][a] = "failed"
          /\ \A b \in Attempts : b # a => terminal'[j][b] = terminal[j][b]
          /\ \A k \in Jobs : k # j => terminal'[k] = terminal[k]
      BY <1>1, <1>2, <2>1, FinishTypes DEF Outcomes
    <2>4. TypeOK'
      BY <1>1, <2>1, <2>2, <2>3 DEF TypeOK
    <2>5. \A k \in Jobs : k # j => JobInv(k)'
      BY <1>1, <2>1, <2>2, <2>3, Untouched
    <2>6. ~Open(j)' /\ Last(j)' = "failed"
      BY <1>1, <1>2, <2>3 DEF Open, Last
    <2>7. answer[j][a] = "rejected"
      BY <1>1, <1>4, Entries DEF Answers
    <2>8. Agrees(j)'
      <3>1. \A b \in 1..(a - 1) : terminal'[j][b] = "failed"
        BY <1>1, <2>3, SchedulerBounds DEF Agrees, Attempts
      <3> QED
        BY <1>1, <1>2, <2>2, <2>6, <3>1 DEF Agrees
    <2>9. /\ AuthorityIsCurrent(j)' /\ CancelledIsLeaving(j)' /\ QueuedIsFirst(j)'
          /\ RevokedIsClosed(j)' /\ FailedHasReason(j)'
      BY <1>1, <1>2, <2>1, <2>2, <2>6, <2>7 DEF AuthorityIsCurrent, CancelledIsLeaving,
         QueuedIsFirst, RevokedIsClosed, FailedHasReason
    <2>10. JobInv(j)'
      BY <1>1, <2>1, <2>2, <2>3, <2>8, <2>9, RecordStep
    <2> QED
      BY <2>4, <2>5, <2>10
  <1> QED
    BY <1>3, <1>4

\* The current lease of a job ends as cancelled, and the job as failed.
LEMMA EndCancelled ==
    ASSUME IInv, NEW j \in Jobs, Open(j),
           UNCHANGED <<now, lease, authority, renewal, decision, worker>>,
           terminal'[j][lease[j].attempt] = "cancelled",
           \A b \in Attempts : b # lease[j].attempt => terminal'[j][b] = terminal[j][b],
           job'[j].state = "failed", job'[j].attempt = job[j].attempt,
           job[j].cancelled => job'[j].cancelled,
           job'[j].cancelled \/ (revoked' /\ j \in DeviceJobs)
    PROVE  JobInv(j)'
  <1> USE DEF IInv, JobInv
  <1>1. /\ lease[j] # NoLease /\ lease[j].attempt \in Attempts
        /\ lease[j].attempt = job[j].attempt
    BY LeaseFacts DEF Open, Agrees
  <1>2. ~Open(j)' /\ Last(j)' = "cancelled"
    BY <1>1 DEF Open, Last
  <1>3. \A b \in 1..(lease[j].attempt - 1) : terminal'[j][b] = "failed"
    BY <1>1, SchedulerBounds DEF Agrees, Attempts
  <1>4. Agrees(j)'
    BY <1>1, <1>2, <1>3 DEF Agrees
  <1>5. /\ AuthorityIsCurrent(j)' /\ CancelledIsLeaving(j)' /\ QueuedIsFirst(j)'
        /\ RevokedIsClosed(j)' /\ FailedHasReason(j)'
    BY <1>1, <1>2 DEF AuthorityIsCurrent, CancelledIsLeaving, QueuedIsFirst, RevokedIsClosed,
       FailedHasReason
  <1> QED
    BY <1>4, <1>5, RecordStep

\* A job that has no lease is cancelled.
LEMMA EndUnleased ==
    ASSUME IInv, NEW j \in Jobs, lease[j] = NoLease,
           UNCHANGED <<now, lease, authority, renewal, decision, worker>>,
           terminal'[j] = terminal[j],
           job'[j].state = "failed", job'[j].attempt = job[j].attempt, job'[j].cancelled
    PROVE  JobInv(j)'
  <1> USE DEF IInv, JobInv
  <1>1. ~Open(j)' /\ Last(j)' = "none" /\ lease[j].attempt = 0
    BY LeaseFacts DEF Open, Last
  <1>2. Agrees(j)'
    BY <1>1 DEF Agrees
  <1>3. /\ AuthorityIsCurrent(j)' /\ CancelledIsLeaving(j)' /\ QueuedIsFirst(j)'
        /\ RevokedIsClosed(j)' /\ FailedHasReason(j)'
    BY <1>1 DEF AuthorityIsCurrent, CancelledIsLeaving, QueuedIsFirst, RevokedIsClosed,
       FailedHasReason, Attempts
  <1> QED
    BY <1>2, <1>3, RecordStep

\* A job whose dispatch was accepted waits for its worker, any other ends with its lease.
LEMMA RequestCancellationKeeps ==
    ASSUME IInv, NEW j \in Jobs, RequestCancellation(j)
    PROVE  IInv'
  <1> USE DEF IInv, JobInv
  <1>1. /\ job[j].state \in Active
        /\ UNCHANGED <<now, lease, authority, fleet, offered, cleanup, server, worker>>
        /\ UNCHANGED <<current, revoked, renewal, decision, frame, deadline, answer, outcome>>
    BY DEF RequestCancellation, fleet, server, worker
  <1> DEFINE s == IF authority[j] # 0 THEN "cancelling" ELSE "failed"
  <1>2. job' = [job EXCEPT ![j].state = s, ![j].cancelled = TRUE]
    BY DEF RequestCancellation
  <1>3. /\ job' \in [Jobs -> JobRows] /\ job'[j].state = s /\ job'[j].attempt = job[j].attempt
        /\ job'[j].cancelled = TRUE /\ \A k \in Jobs : k # j => job'[k] = job[k]
    BY <1>2 DEF TypeOK, JobRows, States
  <1>4. CASE authority[j] # 0
    <2>1. UNCHANGED terminal /\ job'[j].state = "cancelling"
      BY <1>3, <1>4 DEF RequestCancellation
    <2>2. TypeOK'
      BY <1>1, <1>3, <2>1 DEF TypeOK
    <2>3. \A k \in Jobs : k # j => JobInv(k)'
      BY <1>1, <1>3, <2>1, Untouched
    <2>4. /\ Open(j) /\ lease[j] # NoLease /\ authority[j] = job[j].attempt
      BY <1>1, <1>4, LeaseFacts DEF Active, Agrees, Open, AuthorityIsCurrent
    <2>5. Open(j)' /\ Last(j)' = "none"
      BY <1>1, <2>1, <2>4 DEF Open, Last
    <2>6. Agrees(j)'
      BY <1>1, <1>3, <2>1, <2>4, <2>5 DEF Agrees
    <2>7. /\ AuthorityIsCurrent(j)' /\ CancelledIsLeaving(j)' /\ QueuedIsFirst(j)'
          /\ RevokedIsClosed(j)' /\ FailedHasReason(j)'
      BY <1>1, <1>3, <2>1, <2>4 DEF AuthorityIsCurrent, CancelledIsLeaving, QueuedIsFirst,
         RevokedIsClosed, FailedHasReason, Open
    <2>8. JobInv(j)'
      BY <1>1, <1>3, <2>1, <2>6, <2>7, RecordStep
    <2> QED
      BY <2>2, <2>3, <2>8
  <1>5. CASE authority[j] = 0 /\ lease[j] = NoLease
    <2>1. UNCHANGED terminal /\ job'[j].state = "failed"
      BY <1>3, <1>5 DEF RequestCancellation
    <2>2. TypeOK'
      BY <1>1, <1>3, <2>1 DEF TypeOK
    <2>3. \A k \in Jobs : k # j => JobInv(k)'
      BY <1>1, <1>3, <2>1, Untouched
    <2>4. JobInv(j)'
      BY <1>1, <1>3, <1>5, <2>1, EndUnleased
    <2> QED
      BY <2>2, <2>3, <2>4
  <1>6. CASE authority[j] = 0 /\ lease[j] # NoLease
    <2>1. Open(j) /\ Finish(j, "cancelled") /\ job'[j].state = "failed"
      BY <1>3, <1>6 DEF RequestCancellation
    <2>2. /\ terminal' \in PerAttempt(Outcomes) /\ terminal'[j][lease[j].attempt] = "cancelled"
          /\ \A b \in Attempts : b # lease[j].attempt => terminal'[j][b] = terminal[j][b]
          /\ \A k \in Jobs : k # j => terminal'[k] = terminal[k]
      BY <1>6, <2>1, FinishTypes DEF Outcomes
    <2>3. TypeOK'
      BY <1>1, <1>3, <2>2 DEF TypeOK
    <2>4. \A k \in Jobs : k # j => JobInv(k)'
      BY <1>1, <1>3, <2>2, Untouched
    <2>5. JobInv(j)'
      BY <1>1, <1>3, <2>1, <2>2, EndCancelled
    <2> QED
      BY <2>3, <2>4, <2>5
  <1> QED
    BY <1>4, <1>5, <1>6

\* The open leases of a revoked device end with the revocation, so do the jobs it was
\* about to get.
LEMMA RevokeKeeps == IInv /\ Revoke => IInv'
  <1> SUFFICES ASSUME IInv, Revoke PROVE IInv'
    OBVIOUS
  <1> USE DEF IInv, JobInv
  <1>1. /\ UNCHANGED <<now, lease, authority, current, offered, cleanup, server, worker>>
        /\ UNCHANGED <<renewal, decision, frame, deadline, answer, outcome>> /\ revoked' = TRUE
    BY DEF Revoke, server, worker
  <1> DEFINE held == {j \in DeviceJobs : Open(j)}
  <1>2. PICK bound \in SUBSET {j \in DeviceJobs : job[j].state = "queued"} :
            /\ job' = [j \in Jobs |->
                  CASE j \in held  -> [job[j] EXCEPT !.state = "failed"]
                    [] j \in bound -> [job[j] EXCEPT !.state = "failed", !.cancelled = TRUE]
                    [] OTHER       -> job[j]]
            /\ terminal' = [j \in Jobs |->
                  IF j \in held THEN [terminal[j] EXCEPT ![lease[j].attempt] = "cancelled"]
                  ELSE terminal[j]]
    BY DEF Revoke
  <1>3. ASSUME NEW j \in Jobs, j \in held
        PROVE  job'[j] \in JobRows /\ terminal'[j] \in [Attempts -> Outcomes] /\ JobInv(j)'
    <2>1. Open(j) /\ lease[j].attempt \in Attempts /\ j \in DeviceJobs
      BY <1>3, LeaseFacts DEF Open
    <2>2. /\ job'[j] = [job[j] EXCEPT !.state = "failed"]
          /\ terminal'[j] = [terminal[j] EXCEPT ![lease[j].attempt] = "cancelled"]
      <3>1. j \notin bound
        BY <1>3, <2>1 DEF Open, Agrees
      <3> QED
        BY <1>2, <1>3, <3>1
    <2>3. /\ job'[j] \in JobRows /\ job'[j].state = "failed"
          /\ job'[j].attempt = job[j].attempt /\ job'[j].cancelled = job[j].cancelled
      BY <1>3, <2>2 DEF TypeOK, JobRows, States
    <2>4. /\ terminal'[j] \in [Attempts -> Outcomes]
          /\ terminal'[j][lease[j].attempt] = "cancelled"
          /\ \A b \in Attempts : b # lease[j].attempt => terminal'[j][b] = terminal[j][b]
      BY <1>3, <2>1, <2>2 DEF TypeOK, PerAttempt, Outcomes
    <2>5. JobInv(j)'
      BY <1>1, <1>3, <2>1, <2>3, <2>4, EndCancelled
    <2> QED
      BY <2>3, <2>4, <2>5
  <1>4. ASSUME NEW j \in Jobs, j \notin held, j \in bound
        PROVE  job'[j] \in JobRows /\ terminal'[j] \in [Attempts -> Outcomes] /\ JobInv(j)'
    <2>1. lease[j] = NoLease
      BY <1>4 DEF Agrees
    <2>2. /\ job'[j] = [job[j] EXCEPT !.state = "failed", !.cancelled = TRUE]
          /\ terminal'[j] = terminal[j]
      BY <1>2, <1>4
    <2>3. /\ job'[j] \in JobRows /\ job'[j].state = "failed"
          /\ job'[j].attempt = job[j].attempt /\ job'[j].cancelled = TRUE
      BY <1>4, <2>2 DEF TypeOK, JobRows, States
    <2>4. terminal'[j] \in [Attempts -> Outcomes]
      BY <1>4, <2>2 DEF TypeOK, PerAttempt
    <2>5. JobInv(j)'
      BY <1>1, <1>4, <2>1, <2>2, <2>3, EndUnleased
    <2> QED
      BY <2>3, <2>4, <2>5
  <1>5. ASSUME NEW j \in Jobs, j \notin held, j \notin bound
        PROVE  job'[j] \in JobRows /\ terminal'[j] \in [Attempts -> Outcomes] /\ JobInv(j)'
    <2>1. job'[j] = job[j] /\ terminal'[j] = terminal[j]
      BY <1>2, <1>5
    <2>2. (Open(j)' <=> Open(j)) /\ Last(j)' = Last(j)
      BY <1>1, <2>1 DEF Open, Last
    <2>3. Agrees(j)'
      BY <1>1, <1>5, <2>1, <2>2 DEF Agrees
    <2>4. RevokedIsClosed(j)'
      BY <1>5, <2>2 DEF RevokedIsClosed
    <2>5. AuthorityIsCurrent(j)' /\ CancelledIsLeaving(j)' /\ QueuedIsFirst(j)' /\ FailedHasReason(j)'
      BY <1>1, <1>5, <2>1 DEF AuthorityIsCurrent, CancelledIsLeaving, QueuedIsFirst,
         FailedHasReason
    <2>6. JobInv(j)'
      BY <1>1, <1>5, <2>1, <2>3, <2>4, <2>5, RecordStep
    <2> QED
      BY <1>5, <2>1, <2>6 DEF TypeOK, PerAttempt
  <1>6. ASSUME NEW j \in Jobs
        PROVE  job'[j] \in JobRows /\ terminal'[j] \in [Attempts -> Outcomes] /\ JobInv(j)'
    BY <1>3, <1>4, <1>5, <1>6
  <1>7. job' \in [Jobs -> JobRows] /\ terminal' \in PerAttempt(Outcomes)
    BY <1>2, <1>6 DEF PerAttempt
  <1>8. TypeOK'
    BY <1>1, <1>7 DEF TypeOK
  <1> QED
    BY <1>6, <1>8

-----------------------------------------------------------------------------
(* Renewals and outcomes *)

\* A renewal is built for a lease that ends before the renewed one will.
LEMMA BuildRenewalKeeps ==
    ASSUME IInv, NEW j \in Jobs, BuildRenewal(j)
    PROVE  IInv'
  <1> USE DEF IInv, JobInv
  <1> DEFINE new == [attempt |-> lease[j].attempt, prior |-> lease[j].expires, sent |-> now]
  <1>1. /\ Open(j) /\ lease[j].expires < now + LeaseTime
        /\ renewal' = [renewal EXCEPT ![j] = new]
        /\ UNCHANGED <<now, job, registry, fleet, offered, cleanup, decision, worker>>
        /\ UNCHANGED <<lease, terminal, authority, current, revoked, frame, deadline, answer,
                       outcome>>
    BY DEF BuildRenewal, registry, fleet, worker
  <1>2. new \in Renewals /\ new.prior < new.sent + LeaseTime
    BY <1>1, LeaseFacts DEF Open, Renewals, TypeOK
  <1> HIDE DEF new
  <1>3. /\ renewal' \in [Jobs -> Renewals] /\ renewal'[j] = new
        /\ \A k \in Jobs : k # j => renewal'[k] = renewal[k]
    BY <1>1, <1>2 DEF TypeOK
  <1>4. TypeOK'
    BY <1>1, <1>3 DEF TypeOK
  <1>5. \A k \in Jobs : k # j => JobInv(k)'
    BY <1>1, <1>3, Untouched
  <1>6. JobInv(j)'
    <2>1. /\ Agrees(j)' /\ AuthorityIsCurrent(j)' /\ CancelledIsLeaving(j)' /\ QueuedIsFirst(j)'
          /\ RevokedIsClosed(j)'
      BY <1>1, RecordsUntouched
    <2>2. /\ FutureUntouched(j)' /\ WorkerAgrees(j)' /\ FrameIsLease(j)' /\ ReplacedIsOver(j)'
          /\ FailedHasReason(j)' /\ DecisionHasOutcome(j)'
      BY <1>1 DEF FutureUntouched, WorkerAgrees, FrameIsLease, ReplacedIsOver, Over,
         FailedHasReason, DecisionHasOutcome
    <2>3. RenewalProlongs(j)'
      BY <1>2, <1>3 DEF RenewalProlongs
    <2> QED
      BY <2>1, <2>2, <2>3
  <1> QED
    BY <1>4, <1>5, <1>6

\* A renewal moves the expiry of the lease and the frame of its worker together, and
\* never back.
LEMMA WriteRenewalKeeps ==
    ASSUME IInv, NEW j \in Jobs, WriteRenewal(j)
    PROVE  IInv'
  <1> USE DEF IInv, JobInv
  <1>1. /\ renewal[j] # NoRenewal /\ renewal' = [renewal EXCEPT ![j] = NoRenewal]
        /\ UNCHANGED <<now, job, terminal, authority, fleet, offered, cleanup, decision,
                       deadline, answer, outcome>>
        /\ UNCHANGED <<current, revoked>>
    BY DEF WriteRenewal, fleet
  <1>2. /\ renewal' \in [Jobs -> Renewals] /\ renewal'[j] = NoRenewal
        /\ \A k \in Jobs : k # j => renewal'[k] = renewal[k]
    BY <1>1 DEF TypeOK, Renewals
  <1>3. CASE ~RenewalHolds(j)
    <2>1. UNCHANGED <<lease, frame>>
      BY <1>3 DEF WriteRenewal
    <2>2. TypeOK'
      BY <1>1, <1>2, <2>1 DEF TypeOK
    <2>3. \A k \in Jobs : k # j => JobInv(k)'
      BY <1>1, <1>2, <2>1, Untouched
    <2>4. /\ Agrees(j)' /\ AuthorityIsCurrent(j)' /\ CancelledIsLeaving(j)' /\ QueuedIsFirst(j)'
          /\ RevokedIsClosed(j)'
      BY <1>1, <2>1, RecordsUntouched DEF registry
    <2>5. /\ FutureUntouched(j)' /\ WorkerAgrees(j)' /\ FrameIsLease(j)' /\ ReplacedIsOver(j)'
          /\ FailedHasReason(j)' /\ DecisionHasOutcome(j)' /\ RenewalProlongs(j)'
      BY <1>1, <1>2, <2>1 DEF FutureUntouched, WorkerAgrees, FrameIsLease, ReplacedIsOver, Over,
         FailedHasReason, DecisionHasOutcome, RenewalProlongs
    <2> QED
      BY <2>2, <2>3, <2>4, <2>5
  <1>4. CASE RenewalHolds(j)
    <2> DEFINE e == renewal[j].sent + LeaseTime
               a == lease[j].attempt
    <2>1. /\ Open(j) /\ lease[j].expires = renewal[j].prior
          /\ lease' = [lease EXCEPT ![j].expires = e]
          /\ frame' = [frame EXCEPT ![j][a] = e]
      BY <1>4 DEF WriteRenewal, RenewalHolds
    <2>2. /\ lease[j] # NoLease /\ a \in Attempts /\ a = job[j].attempt
      BY <2>1, LeaseFacts DEF Open, Agrees
    <2>3. renewal[j].sent \in 0..MaxTime /\ renewal[j].prior \in Expiries
      BY <1>1 DEF TypeOK, Renewals
    <2>4. e \in Expiries /\ lease[j].expires < e /\ e \in Nat
      BY <1>1, <2>1, <2>3, SchedulerBounds DEF RenewalProlongs, Expiries
    <2> HIDE DEF e
    <2>5. lease[j] \in [attempt : Attempts, worker : Workers, instance : Instances, expires : Expiries]
      BY <2>2 DEF TypeOK, Leases
    <2>6. lease'[j] = [lease[j] EXCEPT !.expires = e]
      BY <2>1 DEF TypeOK
    <2>7. /\ lease'[j] \in Leases /\ lease'[j].attempt = a /\ lease'[j].expires = e
      BY <2>4, <2>5, <2>6 DEF Leases
    <2>8. /\ lease' \in [Jobs -> Leases] /\ lease'[j] # NoLease
          /\ \A k \in Jobs : k # j => lease'[k] = lease[k]
      <3>1. lease'[j] # NoLease
        BY <2>2, <2>7 DEF NoLease, Attempts
      <3>2. \A k \in Jobs : k # j => lease'[k] = lease[k]
        BY <2>1 DEF TypeOK
      <3> QED
        BY <2>1, <2>7, <3>1, <3>2 DEF TypeOK
    <2>9. /\ frame' \in PerAttempt(Expiries) /\ frame'[j][a] = e
          /\ \A b \in Attempts : b # a => frame'[j][b] = frame[j][b]
          /\ \A k \in Jobs : k # j => frame'[k] = frame[k]
      BY <2>1, <2>2, <2>4 DEF TypeOK, PerAttempt
    <2> HIDE DEF a
    <2>10. TypeOK'
      BY <1>1, <1>2, <2>8, <2>9 DEF TypeOK
    <2>11. \A k \in Jobs : k # j => JobInv(k)'
      BY <1>1, <1>2, <2>8, <2>9, Untouched
    <2>12. Open(j)' /\ Last(j)' = Last(j)
      BY <1>1, <2>1, <2>2, <2>7, <2>8 DEF Open, Last, a
    <2>13. Agrees(j)'
      BY <1>1, <2>1, <2>2, <2>7, <2>8, <2>12 DEF Agrees, a
    <2>14. /\ AuthorityIsCurrent(j)' /\ CancelledIsLeaving(j)' /\ QueuedIsFirst(j)'
           /\ RevokedIsClosed(j)' /\ FailedHasReason(j)' /\ DecisionHasOutcome(j)'
      BY <1>1, <2>1, <2>7, <2>12 DEF AuthorityIsCurrent, CancelledIsLeaving, QueuedIsFirst,
         RevokedIsClosed, FailedHasReason, DecisionHasOutcome, a
    <2>15. FutureUntouched(j)' /\ FrameIsLease(j)' /\ RenewalProlongs(j)'
      BY <1>1, <1>2, <2>2, <2>7, <2>9, Entries DEF FutureUntouched, FrameIsLease, RenewalProlongs, a
    <2>16. WorkerAgrees(j)'
      <3>1. frame[j][a] = lease[j].expires
        BY <2>2 DEF FrameIsLease, a
      <3>2. deadline[j][a] <= e
        BY <2>2, <2>4, <3>1, Entries DEF WorkerAgrees
      <3> QED
        BY <1>1, <2>9, <3>2, Entries DEF WorkerAgrees
    <2>17. ReplacedIsOver(j)'
      BY <1>1, <2>2, <2>7, <2>9, Entries DEF ReplacedIsOver, Over, a
    <2> QED
      BY <2>10, <2>11, <2>13, <2>14, <2>15, <2>16, <2>17
  <1> QED
    BY <1>3, <1>4

\* A decision is made about an outcome that was reported.
LEMMA DecideKeeps ==
    ASSUME IInv, NEW j \in Jobs, NEW a \in Attempts, Decide(j, a)
    PROVE  IInv'
  <1> USE DEF IInv, JobInv
  <1> DEFINE new == [attempt |-> a, expires |-> lease[j].expires,
                     cancelling |-> job[j].state = "cancelling"]
  <1>1. /\ outcome[j][a] # "none" /\ lease[j].attempt = a
        /\ decision' = [decision EXCEPT ![j] = new]
        /\ UNCHANGED <<now, job, registry, fleet, offered, cleanup, renewal, worker>>
        /\ UNCHANGED <<lease, terminal, authority, current, revoked, frame, deadline, answer,
                       outcome>>
    BY DEF Decide, registry, fleet, worker
  <1>2. new \in Decisions /\ new.attempt = a
    <2>1. lease[j].expires \in Expiries
      BY <1>1, LeaseFacts DEF Attempts
    <2> QED
      BY <2>1 DEF Decisions
  <1> HIDE DEF new
  <1>3. /\ decision' \in [Jobs -> Decisions] /\ decision'[j] = new
        /\ \A k \in Jobs : k # j => decision'[k] = decision[k]
    BY <1>1, <1>2 DEF TypeOK
  <1>4. TypeOK'
    BY <1>1, <1>3 DEF TypeOK
  <1>5. \A k \in Jobs : k # j => JobInv(k)'
    BY <1>1, <1>3, Untouched
  <1>6. JobInv(j)'
    <2>1. /\ Agrees(j)' /\ AuthorityIsCurrent(j)' /\ CancelledIsLeaving(j)' /\ QueuedIsFirst(j)'
          /\ RevokedIsClosed(j)'
      BY <1>1, RecordsUntouched
    <2>2. /\ FutureUntouched(j)' /\ WorkerAgrees(j)' /\ FrameIsLease(j)' /\ ReplacedIsOver(j)'
          /\ FailedHasReason(j)' /\ RenewalProlongs(j)'
      BY <1>1 DEF FutureUntouched, WorkerAgrees, FrameIsLease, ReplacedIsOver, Over,
         FailedHasReason, RenewalProlongs
    <2>3. DecisionHasOutcome(j)'
      BY <1>1, <1>2, <1>3 DEF DecisionHasOutcome
    <2> QED
      BY <2>1, <2>2, <2>3
  <1> QED
    BY <1>4, <1>5, <1>6

\* An outcome is committed for the job the decision was made about: a job that was
\* cancelled in between does not complete.
LEMMA CommitOutcomeKeeps ==
    ASSUME IInv, NEW j \in Jobs, CommitOutcome(j)
    PROVE  IInv'
  <1> USE DEF IInv, JobInv
  <1>1. /\ decision[j] # NoDecision /\ decision' = [decision EXCEPT ![j] = NoDecision]
        /\ UNCHANGED <<now, lease, authority, fleet, offered, renewal, worker>>
        /\ UNCHANGED <<current, revoked, frame, deadline, answer, outcome>>
    BY DEF CommitOutcome, fleet, worker
  <1>2. /\ decision' \in [Jobs -> Decisions] /\ decision'[j] = NoDecision
        /\ \A k \in Jobs : k # j => decision'[k] = decision[k]
    BY <1>1 DEF TypeOK, Decisions
  <1>3. CASE ~DecisionHolds(j)
    <2>1. UNCHANGED <<terminal, job, cleanup>>
      BY <1>3 DEF CommitOutcome
    <2>2. TypeOK'
      BY <1>1, <1>2, <2>1 DEF TypeOK
    <2>3. \A k \in Jobs : k # j => JobInv(k)'
      BY <1>1, <1>2, <2>1, Untouched
    <2>4. /\ Agrees(j)' /\ AuthorityIsCurrent(j)' /\ CancelledIsLeaving(j)' /\ QueuedIsFirst(j)'
          /\ RevokedIsClosed(j)'
      BY <1>1, <2>1, RecordsUntouched DEF registry
    <2>5. FailedHasReason(j)'
      BY <1>1, <2>1 DEF FailedHasReason
    <2>6. JobInv(j)'
      BY <1>1, <1>2, <2>1, <2>4, <2>5, RecordStep
    <2> QED
      BY <2>2, <2>3, <2>6
  <1>4. CASE DecisionHolds(j)
    <2> DEFINE r == Result(j)
               a == lease[j].attempt
               s == IF r = "completed" THEN "completed" ELSE "failed"
    <2>1. /\ Open(j) /\ a = decision[j].attempt
          /\ job[j].state = IF decision[j].cancelling THEN "cancelling" ELSE "running"
          /\ Finish(j, r) /\ SetState(j, s)
          /\ cleanup' = [cleanup EXCEPT ![j] = "pending"]
      BY <1>4 DEF CommitOutcome, DecisionHolds
    <2>2. lease[j] # NoLease /\ a \in Attempts /\ a = job[j].attempt
      BY <2>1, LeaseFacts DEF Open, Agrees
    <2>3. outcome[j][a] # "none" /\ outcome[j][a] \in Outcomes
      BY <1>1, <2>1, <2>2, Entries DEF DecisionHasOutcome
    <2>4. /\ r \in Outcomes /\ r # "none"
          /\ r = "cancelled" <=> job[j].cancelled
      <3>1. CASE decision[j].cancelling
        BY <2>1, <3>1 DEF Result, Outcomes, CancelledIsLeaving
      <3>2. CASE ~decision[j].cancelling
        <4>1. r = outcome[j][a] /\ job[j].state = "running" /\ ~job[j].cancelled
          BY <2>1, <3>2 DEF Result, CancelledIsLeaving
        <4>2. outcome[j][a] # "cancelled"
          BY <2>2, <4>1 DEF WorkerAgrees
        <4> QED
          BY <2>3, <4>1, <4>2
      <3> QED
        BY <3>1, <3>2
    <2>5. s \in States
      BY DEF States
    <2> HIDE DEF r, s
    <2>6. /\ job' \in [Jobs -> JobRows] /\ job'[j].state = s
          /\ job'[j].attempt = job[j].attempt /\ job'[j].cancelled = job[j].cancelled
          /\ \A k \in Jobs : k # j => job'[k] = job[k]
      BY <2>1, <2>5, SetStateTypes
    <2>7. /\ terminal' \in PerAttempt(Outcomes) /\ terminal'[j][a] = r
          /\ \A b \in Attempts : b # a => terminal'[j][b] = terminal[j][b]
          /\ \A k \in Jobs : k # j => terminal'[k] = terminal[k]
      BY <2>1, <2>2, <2>4, FinishTypes
    <2>8. TypeOK'
      BY <1>1, <1>2, <2>1, <2>6, <2>7 DEF TypeOK
    <2>9. \A k \in Jobs : k # j => JobInv(k)'
      BY <1>1, <1>2, <2>6, <2>7, Untouched
    <2>10. ~Open(j)' /\ Last(j)' = r
      BY <1>1, <2>2, <2>4, <2>7 DEF Open, Last
    <2>11. Agrees(j)'
      <3>1. \A b \in 1..(a - 1) : terminal'[j][b] = "failed"
        BY <2>2, <2>7, SchedulerBounds DEF Agrees, Attempts
      <3>2. /\ s \in {"completed", "failed"} /\ s = "completed" <=> r = "completed"
            /\ r # "completed" => s = "failed"
        BY DEF s
      <3> QED
        BY <1>1, <2>2, <2>4, <2>6, <2>10, <3>1, <3>2 DEF Agrees
    <2>12. /\ AuthorityIsCurrent(j)' /\ CancelledIsLeaving(j)' /\ QueuedIsFirst(j)'
           /\ RevokedIsClosed(j)' /\ FailedHasReason(j)'
      BY <1>1, <2>2, <2>3, <2>4, <2>6, <2>10 DEF AuthorityIsCurrent, CancelledIsLeaving,
         QueuedIsFirst, RevokedIsClosed, FailedHasReason, s
    <2>13. JobInv(j)'
      BY <1>1, <1>2, <2>6, <2>7, <2>11, <2>12, RecordStep
    <2> QED
      BY <2>8, <2>9, <2>13
  <1> QED
    BY <1>3, <1>4

\* Cleaning up after an outcome leaves the job as it is.
LEMMA AcknowledgeKeeps ==
    ASSUME IInv, NEW j \in Jobs, Acknowledge(j)
    PROVE  IInv'
  <1> USE DEF IInv
  <1>1. /\ cleanup' = [cleanup EXCEPT ![j] = "done"]
        /\ UNCHANGED <<now, job, lease, terminal, authority, current, revoked, offered,
                       renewal, decision, frame, deadline, answer, outcome>>
    BY DEF Acknowledge, registry, fleet, server, worker
  <1>2. TypeOK'
    BY <1>1 DEF TypeOK
  <1>3. \A k \in Jobs : JobInv(k)'
    BY <1>1, Untouched
  <1> QED
    BY <1>2, <1>3

-----------------------------------------------------------------------------
(* The theorems *)

\* Every step of the specification keeps the invariant.
LEMMA NextKeeps == IInv /\ [Next]_vars => IInv'
  <1> SUFFICES ASSUME IInv, [Next]_vars PROVE IInv'
    OBVIOUS
  <1>1. CASE UNCHANGED vars
    <2>1. UNCHANGED <<now, job, lease, terminal, authority, current, revoked, offered, cleanup,
                      renewal, decision, frame, deadline, answer, outcome>>
      BY <1>1 DEF vars, registry, fleet, server, worker
    <2>2. \A j \in Jobs : JobInv(j)'
      BY <2>1, Untouched DEF IInv
    <2> QED
      BY <2>1, <2>2 DEF IInv, TypeOK
  <1>2. ASSUME NEW w \in Workers, Register(w) PROVE IInv'
    BY <1>2, RegisterKeeps
  <1>3. ASSUME NEW w \in Workers, NEW i \in 1..current[w], NEW ready \in ReadySets,
               Drive(w, i, ready)
        PROVE  IInv'
    <2>1. i \in Instances
      <3>1. current[w] \in Instances
        BY <1>3 DEF IInv, TypeOK
      <3> QED
        BY <1>3, <3>1, SchedulerBounds DEF Instances
    <2> QED
      BY <1>3, <2>1, ReofferKeeps, ReplaceKeeps, ClaimReadyKeeps DEF Drive
  <1>4. ASSUME NEW w \in Workers, NEW j \in Jobs, RetryFailed(j, w) PROVE IInv'
    BY <1>4, RetryFailedKeeps
  <1>5. ASSUME NEW j \in Jobs,
               \/ RequestCancellation(j) \/ BuildRenewal(j) \/ WriteRenewal(j)
               \/ CommitOutcome(j) \/ Acknowledge(j)
        PROVE  IInv'
    BY <1>5, RequestCancellationKeeps, BuildRenewalKeeps, WriteRenewalKeeps,
       CommitOutcomeKeeps, AcknowledgeKeeps
  <1>6. ASSUME NEW j \in Jobs, NEW a \in Attempts,
               \/ RecordAnswer(j, a) \/ Decide(j, a) \/ Accept(j, a) \/ Reject(j, a)
               \/ Extend(j, a) \/ Die(j, a)
        PROVE  IInv'
    BY <1>6, RecordAnswerKeeps, DecideKeeps, AcceptKeeps, RejectKeeps, ExtendKeeps, DieKeeps
  <1>7. ASSUME NEW j \in Jobs, NEW a \in Attempts, NEW r \in Results, Report(j, a, r)
        PROVE  IInv'
    BY <1>7, ReportKeeps
  <1>8. CASE Revoke \/ Restart \/ Tick
    BY <1>8, RevokeKeeps, RestartKeeps, TickKeeps
  <1> QED
    BY <1>1, <1>2, <1>3, <1>4, <1>5, <1>6, <1>7, <1>8 DEF Next

\* The inductive invariant holds in every state, whatever the number of jobs, workers,
\* processes and attempts and however long a lease is.
THEOREM Invariance == Spec => []IInv
  BY InitIInv, NextKeeps, PTL DEF Spec

\* Every variable of the scheduler, the registry and the workers stays in its range
\* (execution_queue.rs, execution_registry.rs): the numbers of attempts and the expiries
\* that are written never leave theirs.
THEOREM TypesHold == Spec => []TypeOK
  <1>1. IInv => TypeOK
    BY DEF IInv
  <1> QED
    BY <1>1, Invariance, PTL

\* Queue and registry tell the same story after every transaction, and every attempt that
\* was replaced has failed.
THEOREM QueueAndRegistryAgree == Spec => []RegistryAgrees
  <1>1. IInv => RegistryAgrees
    BY DEF IInv, JobInv, RegistryAgrees
  <1> QED
    BY <1>1, Invariance, PTL

\* The execution of an attempt that has been replaced has lost its authority for good: it
\* is past its deadline and past every frame that was sent to it (recover_active_job,
\* renew_execution_lease, confirm).
THEOREM AuthorityIsExclusive == Spec => []ExclusiveAuthority
  <1>1. IInv => ExclusiveAuthority
    <2> SUFFICES ASSUME IInv, NEW j \in Jobs, NEW a \in Attempts,
                        Running(j, a), a # lease[j].attempt
                 PROVE  deadline[j][a] <= now /\ frame[j][a] <= now
      BY DEF ExclusiveAuthority
    <2>1. /\ deadline[j][a] > 0 /\ deadline[j][a] <= frame[j][a]
          /\ now \in Nat /\ deadline[j][a] \in Nat /\ frame[j][a] \in Nat
          /\ a \in Nat /\ lease[j].attempt \in Nat
      BY Entries DEF Running, IInv, JobInv, WorkerAgrees
    <2>2. ~(a > lease[j].attempt)
      BY <2>1 DEF IInv, JobInv, FutureUntouched
    <2>3. Over(j, a)
      BY <2>1, <2>2 DEF IInv, JobInv, ReplacedIsOver
    <2> QED
      BY <2>1, <2>3 DEF Over
  <1> QED
    BY <1>1, Invariance, PTL

\* A job none of whose records change.
LEMMA SameRecords ==
    ASSUME TypeOK, NEW j \in Jobs, job'[j] = job[j], lease'[j] = lease[j], terminal'[j] = terminal[j]
    PROVE  StaysClosed(j) /\ Stands(j)
  BY LeaseFacts DEF StaysClosed, Stands

\* A job that is closed is neither leased nor running.
LEMMA ClosedIsNotActive ==
    ASSUME IInv, NEW j \in Jobs, Closed(j)
    PROVE  job[j].state \notin {"leased", "running"} /\ (Open(j) => job[j].state = "cancelling")
  BY DEF IInv, JobInv, Closed, Agrees, CancelledIsLeaving, RevokedIsClosed, TypeOK, JobRows, States

\* A job is given another lease only while it is open to that.
LEMMA GrantStands ==
    ASSUME IInv, NEW j \in Jobs, NEW a \in Attempts, NEW w \in Workers, NEW i \in Instances,
           Grant(j, a, w, i), lease[j].attempt < a, ~Closed(j),
           \A k \in Jobs : k # j => job'[k] = job[k] /\ terminal'[k] = terminal[k],
           \A b \in Attempts : terminal[j][b] # "none" => terminal'[j][b] = terminal[j][b]
    PROVE  \A k \in Jobs : (Closed(k) => StaysClosed(k)) /\ Stands(k)
  <1>1. /\ lease'[j].attempt = a /\ \A k \in Jobs : k # j => lease'[k] = lease[k]
    BY GrantTypes DEF IInv
  <1>2. \A k \in Jobs : k # j => StaysClosed(k) /\ Stands(k)
    BY <1>1, SameRecords DEF IInv
  <1>3. Stands(j)
    BY <1>1, Entries DEF Stands, IInv
  <1> QED
    BY <1>2, <1>3

\* The actions that grant a lease.
LEMMA DriveStands ==
    ASSUME IInv, NEW w \in Workers, NEW i \in Instances, NEW ready, Drive(w, i, ready)
    PROVE  \A k \in Jobs : (Closed(k) => StaysClosed(k)) /\ Stands(k)
  <1> USE DEF IInv, JobInv
  <1>1. CASE Reoffer(w, i, ready)
    BY <1>1, SameRecords DEF Reoffer, registry
  <1>2. CASE Replace(w, i, ready)
    <2>1. PICK j \in Jobs : /\ Recovers(w, i, ready, j) /\ Open(j)
                            /\ job[j].attempt < MaxAttempt /\ Finish(j, "failed")
                            /\ NextAttempt(j) /\ Grant(j, job[j].attempt + 1, w, i)
      BY <1>2 DEF Replace
    <2>2. ~Closed(j) /\ lease[j] # NoLease
      BY <2>1, ClosedIsNotActive DEF Recovers, Recoverable, Open
    <2>3. /\ job[j].attempt + 1 \in Attempts /\ lease[j].attempt < job[j].attempt + 1
          /\ \A k \in Jobs : k # j => job'[k] = job[k]
      <3>1. lease[j].attempt = job[j].attempt /\ job[j].attempt \in Nat
        BY <2>2, LeaseFacts DEF Agrees, Attempts
      <3> QED
        BY <2>1, <3>1, NextAttemptTypes
    <2>4. /\ \A b \in Attempts : b # lease[j].attempt => terminal'[j][b] = terminal[j][b]
          /\ \A k \in Jobs : k # j => terminal'[k] = terminal[k]
      BY <2>1, <2>2, FinishTypes DEF Outcomes
    <2>5. \A b \in Attempts : terminal[j][b] # "none" => terminal'[j][b] = terminal[j][b]
      BY <2>1, <2>4 DEF Open
    <2> QED
      BY <2>1, <2>2, <2>3, <2>4, <2>5, GrantStands
  <1>3. CASE ClaimReady(w, i, ready)
    <2>1. PICK j \in Jobs : Ready(j) /\ SetState(j, "leased") /\ Grant(j, job[j].attempt, w, i)
      BY <1>3 DEF ClaimReady
    <2>2. UNCHANGED terminal
      BY <1>3 DEF ClaimReady
    <2>3. ~Closed(j) /\ lease[j].attempt = 0 /\ job[j].attempt \in Attempts
      BY <2>1, LeaseFacts DEF Ready, Closed, Agrees, TypeOK, JobRows
    <2>4. \A k \in Jobs : k # j => job'[k] = job[k]
      BY <2>1, SetStateTypes DEF States
    <2> QED
      BY <2>1, <2>2, <2>3, <2>4, GrantStands DEF Attempts
  <1> QED
    BY <1>1, <1>2, <1>3 DEF Drive

\* A retry, which is refused for a cancelled job and for a device job.
LEMMA RetryFailedStands ==
    ASSUME IInv, NEW w \in Workers, NEW j \in Jobs, RetryFailed(j, w)
    PROVE  \A k \in Jobs : (Closed(k) => StaysClosed(k)) /\ Stands(k)
  <1> DEFINE i == current[w]
  <1>1. /\ Retryable(j) /\ j \notin DeviceJobs /\ job[j].attempt < MaxAttempt
        /\ lease[j].attempt = job[j].attempt /\ UNCHANGED terminal
        /\ NextAttempt(j) /\ Grant(j, job[j].attempt + 1, w, i)
    BY DEF RetryFailed
  <1>2. ~Closed(j) /\ i \in Instances /\ job[j].attempt \in Nat
    BY <1>1 DEF Retryable, Closed, IInv, TypeOK, JobRows, Attempts
  <1> HIDE DEF i
  <1>3. /\ job[j].attempt + 1 \in Attempts /\ lease[j].attempt < job[j].attempt + 1
        /\ \A k \in Jobs : k # j => job'[k] = job[k]
    BY <1>1, <1>2, NextAttemptTypes DEF IInv
  <1> QED
    BY <1>1, <1>2, <1>3, GrantStands

\* The end of an open lease is a new record.
LEMMA FinishStands ==
    ASSUME IInv, NEW j \in Jobs, Open(j), NEW r \in Outcomes, Finish(j, r), UNCHANGED lease
    PROVE  \A k \in Jobs : Stands(k) /\ (k # j => terminal'[k] = terminal[k])
  <1>1. /\ \A b \in Attempts : b # lease[j].attempt => terminal'[j][b] = terminal[j][b]
        /\ \A k \in Jobs : k # j => terminal'[k] = terminal[k]
    BY FinishTypes DEF Open, IInv
  <1>2. \A k \in Jobs : lease'[k].attempt >= lease[k].attempt
    BY LeaseFacts DEF IInv
  <1> QED
    BY <1>1, <1>2 DEF Stands, Open

\* The first answer to a dispatch.
LEMMA RecordAnswerStands ==
    ASSUME IInv, NEW j \in Jobs, NEW a \in Attempts, RecordAnswer(j, a)
    PROVE  \A k \in Jobs : (Closed(k) => StaysClosed(k)) /\ Stands(k)
  <1>1. Open(j) /\ job[j].state = "leased" /\ UNCHANGED lease
    BY DEF RecordAnswer, AnswerHolds
  <1>2. ~Closed(j)
    BY <1>1, ClosedIsNotActive
  <1>3. \A k \in Jobs : k # j => job'[k] = job[k]
    BY SetStateTypes DEF RecordAnswer, States, IInv
  <1>4. \A k \in Jobs : Stands(k) /\ (k # j => terminal'[k] = terminal[k])
    <2>1. CASE UNCHANGED terminal
      BY <1>1, <2>1, LeaseFacts DEF Stands, IInv
    <2>2. CASE Finish(j, "failed")
      BY <1>1, <2>2, FinishStands DEF Outcomes
    <2> QED
      BY <2>1, <2>2 DEF RecordAnswer
  <1> QED
    BY <1>1, <1>2, <1>3, <1>4, SameRecords DEF IInv

\* A cancellation is requested of an active job: one of a revoked device can only be
\* queued, and ends at once.
LEMMA RequestCancellationStands ==
    ASSUME IInv, NEW j \in Jobs, RequestCancellation(j)
    PROVE  \A k \in Jobs : (Closed(k) => StaysClosed(k)) /\ Stands(k)
  <1> DEFINE s == IF authority[j] # 0 THEN "cancelling" ELSE "failed"
  <1>1. /\ job[j].state \in Active /\ UNCHANGED lease
        /\ job' = [job EXCEPT ![j].state = s, ![j].cancelled = TRUE]
        /\ UNCHANGED terminal \/ (Open(j) /\ Finish(j, "cancelled"))
    BY DEF RequestCancellation
  <1>2. /\ job'[j].state = s /\ job'[j].cancelled = TRUE
        /\ \A k \in Jobs : k # j => job'[k] = job[k]
    BY <1>1 DEF IInv, TypeOK, JobRows
  <1>3. Closed(j) => s = "failed"
    <2> SUFFICES ASSUME Closed(j) PROVE authority[j] = 0
      OBVIOUS
    <2>1. job[j].state = "queued"
      BY <1>1, ClosedIsNotActive DEF Active
    <2> QED
      BY <2>1, LeaseFacts DEF IInv, JobInv, Agrees, AuthorityIsCurrent
  <1>4. \A k \in Jobs : Stands(k) /\ (k # j => terminal'[k] = terminal[k])
    <2>1. CASE UNCHANGED terminal
      BY <1>1, <2>1, LeaseFacts DEF Stands, IInv
    <2>2. CASE Open(j) /\ Finish(j, "cancelled")
      BY <1>1, <2>2, FinishStands DEF Outcomes
    <2> QED
      BY <1>1, <2>1, <2>2
  <1>5. Closed(j) => StaysClosed(j)
    BY <1>1, <1>2, <1>3 DEF StaysClosed
  <1> QED
    BY <1>1, <1>2, <1>4, <1>5, SameRecords DEF IInv

\* A revocation only fails jobs.
LEMMA RevokeStands ==
    ASSUME IInv, Revoke
    PROVE  \A k \in Jobs : (Closed(k) => StaysClosed(k)) /\ Stands(k)
  <1> DEFINE held == {j \in DeviceJobs : Open(j)}
  <1>1. PICK bound \in SUBSET {j \in DeviceJobs : job[j].state = "queued"} :
            /\ job' = [j \in Jobs |->
                  CASE j \in held  -> [job[j] EXCEPT !.state = "failed"]
                    [] j \in bound -> [job[j] EXCEPT !.state = "failed", !.cancelled = TRUE]
                    [] OTHER       -> job[j]]
            /\ terminal' = [j \in Jobs |->
                  IF j \in held THEN [terminal[j] EXCEPT ![lease[j].attempt] = "cancelled"]
                  ELSE terminal[j]]
    BY DEF Revoke
  <1>2. UNCHANGED lease
    BY DEF Revoke
  <1>3. ASSUME NEW k \in Jobs PROVE StaysClosed(k) /\ Stands(k)
    <2>1. job[k] \in JobRows /\ lease[k].attempt \in Nat /\ terminal[k] \in [Attempts -> Outcomes]
      BY <1>3, LeaseFacts DEF IInv, TypeOK, PerAttempt
    <2>2. CASE k \in held
      <3>1. k \notin bound
        BY <1>3, <2>2 DEF Open, Agrees, IInv, JobInv
      <3>2. /\ job'[k] = [job[k] EXCEPT !.state = "failed"]
            /\ terminal'[k] = [terminal[k] EXCEPT ![lease[k].attempt] = "cancelled"]
        BY <1>1, <1>3, <2>2, <3>1
      <3>3. job'[k].state = "failed" /\ job'[k].cancelled = job[k].cancelled
        BY <2>1, <3>2 DEF JobRows
      <3>4. \A a \in Attempts : terminal[k][a] # "none" => terminal'[k][a] = terminal[k][a]
        BY <2>1, <2>2, <3>2 DEF Open
      <3> QED
        BY <1>2, <2>1, <3>3, <3>4 DEF StaysClosed, Stands
    <2>3. CASE k \notin held /\ k \in bound
      <3>1. /\ job'[k] = [job[k] EXCEPT !.state = "failed", !.cancelled = TRUE]
            /\ terminal'[k] = terminal[k]
        BY <1>1, <1>3, <2>3
      <3>2. job'[k].state = "failed" /\ job'[k].cancelled = TRUE
        BY <2>1, <3>1 DEF JobRows
      <3> QED
        BY <1>2, <2>1, <3>1, <3>2 DEF StaysClosed, Stands
    <2>4. CASE k \notin held /\ k \notin bound
      <3>1. job'[k] = job[k] /\ terminal'[k] = terminal[k]
        BY <1>1, <1>3, <2>4
      <3> QED
        BY <1>2, <1>3, <3>1, SameRecords DEF IInv
    <2> QED
      BY <2>2, <2>3, <2>4
  <1> QED
    BY <1>3

\* A renewal keeps the attempt of the lease.
LEMMA WriteRenewalStands ==
    ASSUME IInv, NEW j \in Jobs, WriteRenewal(j)
    PROVE  \A k \in Jobs : StaysClosed(k) /\ Stands(k)
  <1>1. UNCHANGED <<job, terminal>>
    BY DEF WriteRenewal
  <1>2. CASE UNCHANGED lease
    BY <1>1, <1>2, SameRecords DEF IInv
  <1>3. CASE RenewalHolds(j) /\ lease' = [lease EXCEPT ![j].expires = renewal[j].sent + LeaseTime]
    <2>1. /\ lease'[j] = [lease[j] EXCEPT !.expires = renewal[j].sent + LeaseTime]
          /\ \A k \in Jobs : k # j => lease'[k] = lease[k]
      BY <1>3 DEF IInv, TypeOK
    <2>2. lease[j] \in [attempt : Attempts, worker : Workers, instance : Instances, expires : Expiries]
      BY <1>3 DEF RenewalHolds, Open, IInv, TypeOK, Leases
    <2>3. lease'[j].attempt = lease[j].attempt /\ lease[j].attempt \in Nat
      BY <2>1, <2>2 DEF Attempts
    <2>4. StaysClosed(j) /\ Stands(j)
      BY <1>1, <2>3 DEF StaysClosed, Stands
    <2> QED
      BY <1>1, <2>1, <2>4, SameRecords DEF IInv
  <1> QED
    BY <1>2, <1>3 DEF WriteRenewal

\* The outcome of a cancelled job counts as its cancellation, and one of a revoked device
\* is not committed at all.
LEMMA CommitOutcomeStands ==
    ASSUME IInv, NEW j \in Jobs, CommitOutcome(j)
    PROVE  \A k \in Jobs : (Closed(k) => StaysClosed(k)) /\ Stands(k)
  <1>1. UNCHANGED lease
    BY DEF CommitOutcome
  <1>2. CASE ~DecisionHolds(j)
    BY <1>1, <1>2, SameRecords DEF CommitOutcome, IInv
  <1>3. CASE DecisionHolds(j)
    <2> DEFINE r == Result(j)
               s == IF r = "completed" THEN "completed" ELSE "failed"
    <2>1. /\ Open(j) /\ lease[j].attempt = decision[j].attempt
          /\ job[j].state = IF decision[j].cancelling THEN "cancelling" ELSE "running"
          /\ Finish(j, r) /\ SetState(j, s)
      BY <1>3 DEF CommitOutcome, DecisionHolds
    <2>2. r \in Outcomes
      <3>1. outcome[j][lease[j].attempt] \in Outcomes
        BY <2>1, LeaseFacts, Entries DEF Open, IInv
      <3> QED
        BY <2>1, <3>1 DEF Result, Outcomes
    <2>3. Closed(j) => s = "failed"
      BY <2>1, ClosedIsNotActive DEF Result
    <2>4. s \in States
      BY DEF States
    <2> HIDE DEF r, s
    <2>5. /\ job'[j].state = s /\ job'[j].cancelled = job[j].cancelled
          /\ \A k \in Jobs : k # j => job'[k] = job[k]
      BY <2>1, <2>4, SetStateTypes DEF IInv
    <2>6. \A k \in Jobs : Stands(k) /\ (k # j => terminal'[k] = terminal[k])
      BY <1>1, <2>1, <2>2, FinishStands
    <2>7. Closed(j) => StaysClosed(j)
      BY <1>1, <2>3, <2>5 DEF StaysClosed
    <2> QED
      BY <1>1, <2>5, <2>6, <2>7, SameRecords DEF IInv
  <1> QED
    BY <1>2, <1>3

\* What any step does to the records.
LEMMA NextStands ==
    ASSUME IInv, [Next]_vars
    PROVE  \A k \in Jobs : (Closed(k) => StaysClosed(k)) /\ Stands(k)
  <1>1. CASE UNCHANGED <<job, lease, terminal>>
    BY <1>1, SameRecords DEF IInv
  <1>2. ASSUME NEW w \in Workers, NEW i \in 1..current[w], NEW ready \in ReadySets,
               Drive(w, i, ready)
        PROVE  \A k \in Jobs : (Closed(k) => StaysClosed(k)) /\ Stands(k)
    <2>1. i \in Instances
      <3>1. current[w] \in Instances
        BY <1>2 DEF IInv, TypeOK
      <3> QED
        BY <1>2, <3>1, SchedulerBounds DEF Instances
    <2> QED
      BY <1>2, <2>1, DriveStands
  <1>3. ASSUME NEW w \in Workers, NEW j \in Jobs, RetryFailed(j, w)
        PROVE  \A k \in Jobs : (Closed(k) => StaysClosed(k)) /\ Stands(k)
    BY <1>3, RetryFailedStands
  <1>4. ASSUME NEW j \in Jobs, RequestCancellation(j) \/ WriteRenewal(j) \/ CommitOutcome(j)
        PROVE  \A k \in Jobs : (Closed(k) => StaysClosed(k)) /\ Stands(k)
    BY <1>4, RequestCancellationStands, WriteRenewalStands, CommitOutcomeStands
  <1>5. ASSUME NEW j \in Jobs, NEW a \in Attempts, RecordAnswer(j, a)
        PROVE  \A k \in Jobs : (Closed(k) => StaysClosed(k)) /\ Stands(k)
    BY <1>5, RecordAnswerStands
  <1>6. CASE Revoke
    BY <1>6, RevokeStands
  <1>7. ASSUME NEW j \in Jobs, NEW a \in Attempts,
               Decide(j, a) \/ Accept(j, a) \/ Reject(j, a) \/ Extend(j, a) \/ Die(j, a)
        PROVE  UNCHANGED <<job, lease, terminal>>
    BY <1>7 DEF Decide, Accept, Reject, Extend, Die, registry
  <1>8. ASSUME NEW j \in Jobs, NEW a \in Attempts, NEW r \in Results, Report(j, a, r)
        PROVE  UNCHANGED <<job, lease, terminal>>
    BY <1>8 DEF Report, registry
  <1>9. ASSUME NEW j \in Jobs, BuildRenewal(j) \/ Acknowledge(j)
        PROVE  UNCHANGED <<job, lease, terminal>>
    BY <1>9 DEF BuildRenewal, Acknowledge, registry
  <1>10. ASSUME NEW w \in Workers, Register(w)
         PROVE  UNCHANGED <<job, lease, terminal>>
    BY <1>10 DEF Register, registry
  <1>11. Restart \/ Tick \/ UNCHANGED vars => UNCHANGED <<job, lease, terminal>>
    BY DEF Restart, Tick, vars, registry
  <1> QED
    BY <1>1, <1>2, <1>3, <1>4, <1>5, <1>6, <1>7, <1>8, <1>9, <1>10, <1>11 DEF Next

\* A cancelled job, and any job of a revoked device, gets no other attempt and does not
\* complete any more, and nothing of a revoked device stays open (request_cancellation,
\* settle_revoked_executions, commit_with_execution_terminal).
THEOREM CancellationIsFinal == Spec => CancelledForGood
  <1>1. IInv /\ [Next]_vars =>
          [\A j \in Jobs : job[j].cancelled \/ (revoked /\ j \in DeviceJobs) =>
              /\ job[j].cancelled => job'[j].cancelled
              /\ lease'[j].attempt = lease[j].attempt
              /\ job'[j].state \in {job[j].state, "failed"}
              /\ revoked /\ j \in DeviceJobs => ~Open(j)]_vars
    <2> SUFFICES ASSUME IInv, [Next]_vars, NEW j \in Jobs, Closed(j)
                 PROVE  StaysClosed(j) /\ (revoked /\ j \in DeviceJobs => ~Open(j))
      BY DEF Closed, StaysClosed
    <2>1. StaysClosed(j)
      BY NextStands
    <2>2. revoked /\ j \in DeviceJobs => ~Open(j)
      BY DEF IInv, JobInv, RevokedIsClosed
    <2> QED
      BY <2>1, <2>2
  <1> QED
    BY <1>1, Invariance, PTL DEF Spec, CancelledForGood

\* How an attempt ended is never rewritten, and the fencing token of a job never goes back
\* (finish_execution_lease_in_transaction, claim_execution_job_in_transaction).
THEOREM RecordsStand == Spec => TokensAndTerminalsStand
  <1>1. IInv /\ [Next]_vars => [\A j \in Jobs : Stands(j)]_vars
    BY NextStands
  <1> QED
    BY <1>1, Invariance, PTL DEF Spec, TokensAndTerminalsStand
=============================================================================
