----------------------------- MODULE UplinkProofs -----------------------------
(***************************************************************************)
(* Proofs about UplinkExchange for every value of its constants.           *)
(***************************************************************************)
EXTENDS UplinkInvariant, TLAPS

USE DEF Sequences0, Instances

\* The invariant holds when an enrolled device starts on an empty stream.
LEMMA InitIInv == Init => IInv
  <1> SUFFICES ASSUME Init PROVE IInv
    OBVIOUS
  <1> USE BoundAssumption, KeyAssumption
  <1>1. outbox \in Seq(Frames) /\ Len(outbox) \in Sequences0
    BY DEF Init
  <1>2. frozen \in [1..MaxSequence -> Sequences0]
    BY DEF Init
  <1>3. pending \in Requests /\ request \in Requests /\ late \subseteq Requests
    BY DEF Init, NoRequest, Requests
  <1>4. response \in Responses /\ reply \in Responses
    BY DEF Init, NoResponse, Responses
  <1>5. job \in Jobs
    BY DEF Init, NoJob, Jobs, Phases
  <1>a. acked \in Sequences0 /\ deliveryCursor \in Sequences0 /\ cursor \in Sequences0
    BY DEF Init
  <1>b. instance \in Instances /\ current \in Instances /\ admin \in Instances \cup {0}
    BY DEF Init
  <1>6. /\ announced \in BOOLEAN /\ settled \subseteq Keys
        /\ completed \subseteq 1..MaxSequence /\ applied \subseteq 1..MaxSequence
    BY Zenon DEF Init
  <1>7. TypeOK
    BY <1>1, <1>2, <1>3, <1>4, <1>5, <1>a, <1>b, <1>6, Zenon DEF TypeOK
  <1>8. ConfirmedIsDelivered /\ RequestsSound /\ AnswersSound
    BY DEF Init, ConfirmedIsDelivered, RequestsSound, AnswersSound
  <1>9. JournalMatches
    BY DEF Init, JournalMatches
  <1>10. JobPosition
    BY DEF Init, JobPosition, NoJob
  <1>11. TablesMatchCursor /\ AppliedExists /\ CursorCoversEffects /\ CommandAppliedOnce
    BY DEF Init, TablesMatchCursor, AppliedExists, CursorCoversEffects, CommandAppliedOnce
  <1> QED
    BY <1>7, <1>8, <1>9, <1>10, <1>11 DEF IInv

\* Sending freezes at most the one operation at the first unconfirmed frame.
LEMMA SendKeeps == IInv /\ Send => IInv'
  <1> SUFFICES ASSUME IInv, Send PROVE IInv'
    OBVIOUS
  <1> USE BoundAssumption, KeyAssumption DEF IInv, TypeOK, ConfirmedIsDelivered
  <1>1. TypeOK'
    BY DEF Send, Requests, NoRequest, FirstDeliverable, BoundLast,
           Larger, Smaller, Idle, serverDurable, JournalMatches
  <1>2. ConfirmedIsDelivered'
    BY DEF Send, serverDurable
  <1>a. FirstDeliverable = acked + 1 /\ acked + 1 \in 1..Len(outbox)
    BY DEF Send, FirstDeliverable, Larger, JournalMatches
  <1>b. BoundLast(acked + 1) \in (acked + 1)..Len(outbox)
    BY <1>a DEF BoundLast, Smaller, JournalMatches
  <1>c. /\ pending' = [first |-> acked + 1, last |-> BoundLast(acked + 1)]
        /\ request' = pending'
        /\ frozen' = [frozen EXCEPT ![acked + 1] = BoundLast(acked + 1)]
        /\ response' = NoResponse
        /\ UNCHANGED <<outbox, acked, cursor, late, deliveryCursor>>
    BY <1>a DEF Send, Idle, serverDurable
  <1>3. RequestsSound'
    BY <1>a, <1>b, <1>c DEF RequestsSound, Sound
  <1>6. JournalMatches'
    BY <1>a, <1>b, <1>c DEF JournalMatches
  <1>4. AnswersSound'
    BY DEF Send, serverDurable, AnswersSound, Idle
  <1>5. JobPosition' /\ TablesMatchCursor' /\ AppliedExists' /\ CursorCoversEffects' /\ CommandAppliedOnce'
    BY DEF Send, serverDurable, JobPosition, TablesMatchCursor, AppliedExists, CursorCoversEffects, CommandAppliedOnce
  <1> QED
    BY <1>1, <1>2, <1>3, <1>4, <1>5, <1>6

\* The half of the invariant that only the server's state and the outbox decide.
ServerHalf ==
    /\ JobPosition /\ TablesMatchCursor /\ AppliedExists
    /\ CursorCoversEffects /\ CommandAppliedOnce

\* Giving up on an exchange only makes the server's work on it unanswered: its
\* half of the invariant does not depend on who waits.
LEMMA AbandonJob ==
  ASSUME IInv, UNCHANGED <<outbox, serverDurable>>,
         job' = [job EXCEPT !.live = FALSE] \/ job' = job
  PROVE  ServerHalf' /\ job' \in Jobs
  <1>1. /\ job' \in Jobs
        /\ job'.first = job.first /\ job'.last = job.last /\ job'.next = job.next
        /\ job'.start = job.start /\ job'.ack = job.ack /\ job'.hint = job.hint
        /\ job'.phase = job.phase
    BY DEF IInv, TypeOK, Jobs
  <1>2. JobPosition'
    BY <1>1 DEF IInv, JobPosition, serverDurable
  <1> QED
    BY <1>1, <1>2 DEF IInv, ServerHalf, serverDurable, TablesMatchCursor, AppliedExists,
                CursorCoversEffects, CommandAppliedOnce

\* A longer outbox keeps the invariant: every row that existed keeps its place.
LEMMA AppendKeeps ==
  ASSUME IInv, NEW f \in Frames, Len(outbox) < MaxSequence,
         outbox' = Append(outbox, f),
         UNCHANGED <<acked, frozen, deliveryCursor, pending, response, network,
                     serverDurable, job>>,
         instance' \in Instances, announced' \in BOOLEAN, admin' \in Instances \cup {0}
  PROVE  IInv'
  <1> USE BoundAssumption, KeyAssumption
  <1>1. /\ Len(outbox') = Len(outbox) + 1 /\ Len(outbox) \in Nat
        /\ \A i \in 1..Len(outbox) : outbox'[i] = outbox[i]
        /\ outbox' \in Seq(Frames)
    BY DEF IInv, TypeOK
  <1>2. TypeOK'
    BY <1>1 DEF IInv, TypeOK, network, serverDurable
  <1>3. ConfirmedIsDelivered' /\ RequestsSound'
    BY <1>1 DEF IInv, TypeOK, network, serverDurable, ConfirmedIsDelivered, RequestsSound,
                Sound, Requests
  <1>4. JournalMatches'
    BY <1>1 DEF IInv, TypeOK, network, serverDurable, JournalMatches
  <1>5. AnswersSound'
    BY <1>1 DEF IInv, network, serverDurable, AnswersSound
  <1>a. /\ \A s \in 1..cursor : s \in 1..Len(outbox)
        /\ \A s \in applied : s \in 1..Len(outbox)
        /\ cursor \in Nat
        /\ UNCHANGED <<cursor, applied, settled, completed, job>>
    BY DEF IInv, TypeOK, ConfirmedIsDelivered, AppliedExists, serverDurable
  <1>b. /\ \A s \in 1..cursor : outbox'[s] = outbox[s]
        /\ \A s \in applied : outbox'[s] = outbox[s]
    BY <1>1, <1>a
  <1>c. /\ job.first \in Nat /\ job.last \in Nat /\ job.next \in Nat
        /\ job.start \in Nat /\ job.ack \in Nat
    BY DEF IInv, TypeOK, Jobs
  <1>d. job.phase \in {"effect", "complete"} => outbox'[job.next] = outbox[job.next]
    BY <1>1, <1>c DEF IInv, JobPosition
  <1>6. JobPosition'
    BY <1>1, <1>a, <1>c, <1>d DEF IInv, JobPosition
  <1>7. TablesMatchCursor' /\ AppliedExists'
    BY <1>1, <1>a, <1>b DEF IInv, TablesMatchCursor, AppliedExists
  <1>8. CursorCoversEffects'
    BY <1>a, <1>b DEF IInv, CursorCoversEffects
  <1>9. CommandAppliedOnce'
    BY <1>a, <1>b DEF IInv, CommandAppliedOnce
  <1> QED
    BY <1>2, <1>3, <1>4, <1>5, <1>6, <1>7, <1>8, <1>9 DEF IInv

\* Every kind of frame the daemon or an administration command enqueues.
LEMMA EnqueueKeeps ==
  ASSUME IInv,
         \/ Announce
         \/ Enqueue("report", NoKey)
         \/ \E k \in Keys : Enqueue("command", k)
         \/ \E k \in Keys : AdminEnqueue(k)
  PROVE  IInv'
  <1>1. CASE Announce
    BY <1>1, AppendKeeps DEF Announce, AppendFrame, IInv, TypeOK, Frames, Kinds
  <1>2. CASE Enqueue("report", NoKey)
    BY <1>2, AppendKeeps DEF Enqueue, AppendFrame, IInv, TypeOK, Frames, Kinds, deviceVolatile
  <1>3. CASE \E k \in Keys : Enqueue("command", k)
    BY <1>3, AppendKeeps DEF Enqueue, AppendFrame, IInv, TypeOK, Frames, Kinds, deviceVolatile
  <1>4. CASE \E k \in Keys : AdminEnqueue(k)
    BY <1>4, AppendKeeps DEF AdminEnqueue, AppendFrame, IInv, TypeOK, Frames, Kinds
  <1> QED
    BY <1>1, <1>2, <1>3, <1>4

\* Reading the identity row changes nothing the invariant speaks of.
LEMMA AdminOpenKeeps == IInv /\ AdminOpen => IInv'
  <1> SUFFICES ASSUME IInv, AdminOpen PROVE IInv'
    OBVIOUS
  <1> USE DEF IInv, AdminOpen, deviceDurable, network, serverDurable
  <1>1. TypeOK'
    BY DEF TypeOK
  <1>2. ConfirmedIsDelivered' /\ RequestsSound' /\ JournalMatches' /\ AnswersSound'
    BY DEF ConfirmedIsDelivered, RequestsSound, Sound, JournalMatches, AnswersSound
  <1>3. ServerHalf'
    BY AbandonJob
  <1> QED
    BY <1>1, <1>2, <1>3 DEF ServerHalf

\* Whatever becomes of the pending request, lost, late or running unanswered,
\* the journal and the requests on their way stay sound.
LEMMA AbandonKeeps ==
  ASSUME IInv, Abandon, pending' = NoRequest,
         response' \in {response, NoResponse}, deliveryCursor' \in {deliveryCursor, 0},
         instance' \in Instances, announced' \in BOOLEAN,
         UNCHANGED <<deviceDurable, admin, serverDurable>>
  PROVE  IInv'
  <1> USE BoundAssumption
  <1>1. ServerHalf' /\ job' \in Jobs
    BY AbandonJob DEF Abandon, deviceDurable
  <1>2. late' \subseteq late \cup {request} /\ request' = NoRequest /\ reply' = NoResponse
        /\ (request = NoRequest => late' = late)
    BY DEF Abandon
  <1>3. NoRequest \in Requests /\ NoResponse \in Responses
    BY DEF NoRequest, Requests, NoResponse, Responses
  <1>4. TypeOK'
    BY <1>1, <1>2, <1>3 DEF IInv, TypeOK, deviceDurable, serverDurable
  <1>5. ConfirmedIsDelivered' /\ RequestsSound' /\ AnswersSound'
    BY <1>2 DEF IInv, ConfirmedIsDelivered, RequestsSound, Sound, AnswersSound,
                deviceDurable, serverDurable
  <1>6. JournalMatches'
    BY DEF IInv, TypeOK, JournalMatches, deviceDurable
  <1> QED
    BY <1>1, <1>4, <1>5, <1>6 DEF IInv, ServerHalf

\* A failed exchange and a relaunch.
LEMMA GiveUpKeeps == IInv /\ (ExchangeFails \/ Relaunch) => IInv'
  <1>1. IInv /\ ExchangeFails => IInv'
    BY AbandonKeeps DEF ExchangeFails, IInv, TypeOK
  <1>2. ASSUME IInv, Relaunch PROVE IInv'
    <2>1. instance' \in Instances
      BY <1>2, BoundAssumption DEF Relaunch, IInv, TypeOK
    <2>2. announced' \in BOOLEAN
      BY <1>2 DEF Relaunch
    <2> QED
      BY <1>2, <2>1, <2>2, AbandonKeeps DEF Relaunch
  <1> QED
    BY <1>1, <1>2

\* Receiving a response closes the one open operation of the journal.
LEMMA ReceiveKeeps == IInv /\ Receive => IInv'
  <1> SUFFICES ASSUME IInv, Receive PROVE IInv'
    OBVIOUS
  <1> USE BoundAssumption
  <1>1. ServerHalf'
    BY AbandonJob DEF Receive
  <1>2. /\ pending.first = acked + 1 /\ pending.first \in 1..MaxSequence
        /\ frozen' = [frozen EXCEPT ![acked + 1] = 0]
    <2>1. pending.first = acked + 1 /\ Sound(pending)
      BY DEF Receive, IInv, RequestsSound
    <2>2. pending.first \in Nat /\ pending.last \in Nat /\ Len(outbox) \in 0..MaxSequence
          /\ cursor \in Nat
      BY DEF IInv, TypeOK, Requests
    <2>3. pending.first \in 1..MaxSequence
      BY <2>1, <2>2 DEF Sound
    <2> QED
      BY <2>1, <2>3 DEF Receive
  <1>3. /\ pending' = NoRequest /\ NoRequest \in Requests
        /\ reply' = NoResponse /\ NoResponse \in Responses
    BY DEF Receive, NoRequest, NoResponse, Requests, Responses
  <1>4. TypeOK'
    BY <1>2, <1>3 DEF Receive, IInv, TypeOK, serverDurable
  <1>5. ConfirmedIsDelivered' /\ RequestsSound' /\ AnswersSound'
    BY <1>3 DEF Receive, IInv, ConfirmedIsDelivered, RequestsSound, Sound, AnswersSound,
                serverDurable
  <1>6. \A s \in 1..MaxSequence : frozen'[s] = 0
    BY <1>2 DEF IInv, TypeOK, JournalMatches
  <1>7. JournalMatches'
    BY <1>3, <1>6 DEF Receive, IInv, JournalMatches
  <1> QED
    BY <1>1, <1>4, <1>5, <1>7 DEF IInv, ServerHalf

\* What a response can do to the device's cursors, given the invariant.
LEMMA ApplyResponseStep ==
  ASSUME IInv, ApplyResponse
  PROVE  /\ acked' \in acked..cursor
         /\ deliveryCursor' \in {deliveryCursor, acked'}
         /\ \A s \in 1..MaxSequence : frozen[s] = 0
         /\ pending = NoRequest
  <1>1. response.hint = 0 /\ response.ack <= cursor /\ response.ack \in Nat
    BY DEF IInv, TypeOK, ApplyResponse, AnswersSound, Responses
  <1>2. (acked' = acked /\ deliveryCursor' = deliveryCursor)
        \/ (response.ack >= acked /\ acked' = response.ack /\ deliveryCursor' = response.ack)
    BY <1>1 DEF ApplyResponse, ApplyAccepted, IInv, TypeOK
  <1> QED
    BY <1>1, <1>2 DEF IInv, TypeOK, JournalMatches, ApplyResponse, ConfirmedIsDelivered

\* Applying a response moves the device's cursors no further than the server's.
LEMMA ApplyResponseKeeps == IInv /\ ApplyResponse => IInv'
  <1> SUFFICES ASSUME IInv, ApplyResponse PROVE IInv'
    OBVIOUS
  <1> USE BoundAssumption, ApplyResponseStep
  <1>1. ServerHalf'
    BY AbandonJob DEF ApplyResponse
  <1>2. response' = NoResponse /\ NoResponse \in Responses
    BY DEF ApplyResponse, NoResponse, Responses
  <1>3. TypeOK'
    BY <1>2 DEF ApplyResponse, IInv, TypeOK, serverDurable, network, ConfirmedIsDelivered
  <1>4. ConfirmedIsDelivered' /\ RequestsSound' /\ AnswersSound'
    BY <1>2 DEF ApplyResponse, IInv, TypeOK, ConfirmedIsDelivered, RequestsSound, Sound,
                AnswersSound, serverDurable, network
  <1>5. JournalMatches'
    BY <1>2 DEF ApplyResponse, IInv, TypeOK, JournalMatches
  <1> QED
    BY <1>1, <1>3, <1>4, <1>5 DEF IInv, ServerHalf

\* Nothing of the device changes: its half of the invariant stands as long as the
\* server's cursor does not retreat.
LEMMA DeviceHalf ==
  ASSUME IInv, UNCHANGED <<deviceDurable, deviceVolatile>>,
         request' \in {request, NoRequest}, late' \subseteq late, reply' = reply,
         cursor' \in cursor..Len(outbox)
  PROVE  ConfirmedIsDelivered' /\ RequestsSound' /\ JournalMatches' /\ AnswersSound'
  <1>1. ConfirmedIsDelivered' /\ AnswersSound'
    BY DEF IInv, TypeOK, ConfirmedIsDelivered, AnswersSound, Responses,
           deviceDurable, deviceVolatile
  <1>2. \A r \in Requests : Sound(r) => Sound(r)'
    BY DEF IInv, TypeOK, Requests, Sound, deviceDurable
  <1>3. RequestsSound'
    BY <1>2 DEF IInv, TypeOK, RequestsSound, Sound, deviceDurable, deviceVolatile
  <1>4. JournalMatches'
    BY DEF IInv, JournalMatches, deviceDurable, deviceVolatile
  <1> QED
    BY <1>1, <1>3, <1>4

\* The tables and the effects are untouched.
LEMMA TablesHalf ==
  ASSUME IInv, UNCHANGED <<outbox, cursor, completed, settled, applied>>
  PROVE  TablesMatchCursor' /\ AppliedExists' /\ CursorCoversEffects' /\ CommandAppliedOnce'
  BY DEF IInv, TablesMatchCursor, AppliedExists, CursorCoversEffects, CommandAppliedOnce

\* An exchange that starts on a sound request stands where the cursor stands.
LEMMA StartJobKeeps ==
  ASSUME IInv, NEW r \in Requests, Sound(r), NEW live \in BOOLEAN, StartJob(r, live),
         UNCHANGED <<outbox, cursor, current>>
  PROVE  job' \in Jobs /\ JobPosition'
  <1> USE BoundAssumption
  <1>1. job' \in Jobs
    <2>1. r.first \in 0..MaxSequence /\ r.last \in 0..MaxSequence /\ r.first \in 0..(MaxSequence + 1)
      BY DEF Requests
    <2>2. current \in Instances /\ cursor \in 0..MaxSequence /\ 0 \in 0..(MaxSequence + 1)
      BY DEF IInv, TypeOK
    <2> QED
      BY <2>1, <2>2 DEF StartJob, Jobs, Phases
  <1>2. /\ job'.first = r.first /\ job'.last = r.last /\ job'.next = r.first
        /\ job'.start = cursor /\ job'.ack = cursor /\ job'.hint = 0 /\ job'.phase = "frame"
    BY DEF StartJob
  <1>3. r.first \in Nat /\ r.last \in Nat /\ cursor \in Nat
    BY DEF IInv, TypeOK, Requests
  <1>4. JobPosition'
    BY <1>2, <1>3 DEF Sound, JobPosition, Larger
  <1> QED
    BY <1>1, <1>4

\* The server takes the pending request or a late one.
LEMMA ServeKeeps == IInv /\ (ServePending \/ ServeLate) => IInv'
  <1> SUFFICES ASSUME IInv, ServePending \/ ServeLate PROVE IInv'
    OBVIOUS
  <1> USE BoundAssumption
  <1>1. PICK r \in Requests, live \in BOOLEAN : Sound(r) /\ StartJob(r, live)
    BY DEF ServePending, ServeLate, IInv, TypeOK, RequestsSound
  <1>2. /\ UNCHANGED <<deviceDurable, deviceVolatile, serverDurable>>
        /\ request' \in {request, NoRequest} /\ late' \subseteq late /\ reply' = reply
    BY DEF ServePending, ServeLate
  <1>3. cursor' \in cursor..Len(outbox)
    BY <1>2 DEF IInv, TypeOK, ConfirmedIsDelivered, serverDurable
  <1>4. job' \in Jobs /\ JobPosition'
    BY <1>1, <1>2, StartJobKeeps DEF deviceDurable, serverDurable
  <1>5. TablesMatchCursor' /\ AppliedExists' /\ CursorCoversEffects' /\ CommandAppliedOnce'
    BY <1>2, TablesHalf DEF deviceDurable, serverDurable
  <1>6. ConfirmedIsDelivered' /\ RequestsSound' /\ JournalMatches' /\ AnswersSound'
    BY <1>2, <1>3, DeviceHalf
  <1>7. request' \in Requests /\ late' \subseteq Requests /\ reply' \in Responses
    BY <1>2 DEF IInv, TypeOK, NoRequest, Requests
  <1>8. TypeOK'
    BY <1>2, <1>4, <1>7 DEF IInv, TypeOK, deviceDurable, deviceVolatile, serverDurable
  <1> QED
    BY <1>4, <1>5, <1>6, <1>8 DEF IInv

\* The types of the numeric fields of the exchange that holds the lock.
LEMMA JobTypes ==
  ASSUME IInv
  PROVE  /\ job.first \in Nat /\ job.last \in 0..MaxSequence /\ job.next \in 0..(MaxSequence + 1)
         /\ job.start \in Nat /\ job.ack \in 0..MaxSequence /\ cursor \in Nat
         /\ Len(outbox) \in 0..MaxSequence
  BY BoundAssumption DEF IInv, TypeOK, Jobs

\* The frame an unfinished exchange looks at exists in the outbox.
LEMMA FrameTypes ==
  ASSUME IInv, job.phase # "none", job.next <= job.last
  PROVE  /\ job.next \in 1..Len(outbox)
         /\ outbox[job.next] \in Frames
  <1>1. job.next \in 1..Len(outbox)
    BY JobTypes DEF IInv, JobPosition
  <1> QED
    BY <1>1 DEF IInv, TypeOK

\* The verdict on a frame: accepted, a duplicate or refused, never a gap.
LEMMA SettleFrameKeeps == IInv /\ SettleFrame => IInv'
  <1> SUFFICES ASSUME IInv, SettleFrame PROVE IInv'
    OBVIOUS
  <1> USE BoundAssumption
  <1> DEFINE f == outbox[job.next]
             owner == IF TakesOver(f) THEN f.instance ELSE job.settler
             verdict == Ingest(owner, job.ack, f, job.next)
             step == IF NeedsEffect(f, job.next) THEN "effect" ELSE "complete"
  <1>1. /\ job.phase = "frame" /\ job.next <= job.last
        /\ UNCHANGED <<deviceDurable, deviceVolatile, network, cursor, completed,
                       settled, applied>>
        /\ current' \in {current, f.instance}
    BY DEF SettleFrame
  <1>2. f \in Frames /\ job.next \in 1..Len(outbox)
    BY <1>1, FrameTypes
  <1>3. owner \in Instances /\ f.instance \in Instances
    BY <1>2 DEF Frames, IInv, TypeOK, Jobs
  <1>4. job.ack = cursor /\ job.next <= cursor + 1
    BY <1>1, JobTypes DEF IInv, JobPosition, Larger
  <1>5. /\ verdict \in {"refused", "accept", "duplicate"}
        /\ verdict = "accept" => job.next = cursor + 1
        /\ verdict = "duplicate" => job.next <= cursor
    BY <1>2, <1>4, JobTypes DEF Ingest, Observe
  <1>6. /\ job'.first = job.first /\ job'.last = job.last /\ job'.next = job.next
        /\ job'.start = job.start /\ job'.hint = job.hint
        /\ job'.live = job.live /\ job'.effective = job.effective
        /\ job'.settler = owner
        /\ job'.ack = IF verdict = "accept" THEN job.next ELSE job.ack
        /\ job'.phase = IF verdict \in {"accept", "duplicate"} THEN step ELSE "respond"
        /\ job' = [job EXCEPT !.settler = job'.settler, !.ack = job'.ack, !.phase = job'.phase,
                              !.hint = job'.hint]
    BY <1>5 DEF SettleFrame, IInv, TypeOK, Jobs
  <1>7. job' \in Jobs
    <2>1. job'.ack \in Sequences0 /\ job'.settler \in Instances /\ job'.phase \in Phases
      BY <1>2, <1>3, <1>6, JobTypes DEF Phases
    <2>2. job'.hint \in 0..(MaxSequence + 1)
      BY <1>6 DEF IInv, TypeOK, Jobs
    <2> QED
      BY <1>6, <2>1, <2>2 DEF IInv, TypeOK, Jobs
  <1>8. job.next <= job.start => verdict # "accept"
    BY <1>1, <1>5, JobTypes DEF IInv, JobPosition
  <1>9. verdict = "duplicate" => step = "complete"
    BY <1>1, <1>5, JobTypes DEF IInv, JobPosition, Larger, NeedsEffect
  <1>10. verdict = "accept" /\ step = "complete" => f.key \in settled
    BY <1>5, <1>8, JobTypes DEF IInv, TablesMatchCursor, AlreadyDone, NeedsEffect
  <1>11. step = "effect" => f.key \notin settled
    BY DEF AlreadyDone, NeedsEffect
  <1>12. JobPosition'
    <2> HIDE DEF verdict, step, owner
    <2>1. step \in {"complete", "effect"}
      BY DEF step
    <2>2. /\ job'.hint = 0
          /\ job'.first \in 1..(job'.start + 1)
          /\ job'.next \in job'.first..(job'.last + 1)
          /\ job'.last <= Len(outbox')
          /\ job'.start <= cursor'
          /\ cursor' = Larger(job'.start, job'.next - 1)
      BY <1>1, <1>6 DEF IInv, JobPosition, deviceDurable
    <2>3. CASE verdict = "refused"
      BY <1>1, <1>4, <1>6, <2>2, <2>3 DEF JobPosition
    <2>4. CASE verdict = "accept"
      <3>1. job'.phase = step /\ job'.ack = job.next /\ job'.next = cursor + 1 /\ cursor' = cursor
        BY <1>1, <1>5, <1>6, <2>4
      <3>2. outbox'[job'.next].key = f.key /\ settled' = settled
        BY <1>1, <1>6 DEF deviceDurable
      <3>3. job'.ack = Larger(cursor', job'.next) /\ job'.next <= job'.last
        BY <1>1, <1>6, <3>1, JobTypes DEF Larger
      <3>4. CASE step = "effect"
        BY <1>11, <2>2, <3>1, <3>2, <3>3, <3>4 DEF JobPosition
      <3>5. CASE step = "complete"
        BY <1>10, <2>2, <2>4, <3>1, <3>2, <3>3, <3>5 DEF JobPosition
      <3> QED
        BY <2>1, <3>4, <3>5
    <2>5. CASE verdict = "duplicate"
      BY <1>1, <1>4, <1>5, <1>6, <1>9, <2>2, <2>5, JobTypes
         DEF JobPosition, Larger
    <2> QED
      BY <1>5, <2>3, <2>4, <2>5
  <1>13. TablesMatchCursor' /\ AppliedExists' /\ CursorCoversEffects' /\ CommandAppliedOnce'
    BY <1>1, TablesHalf DEF deviceDurable
  <1>14. ConfirmedIsDelivered' /\ RequestsSound' /\ JournalMatches' /\ AnswersSound'
    <2>1. cursor' \in cursor..Len(outbox)
      BY <1>1, JobTypes DEF IInv, ConfirmedIsDelivered
    <2> QED
      BY <1>1, <2>1, DeviceHalf DEF network
  <1>15. TypeOK'
    BY <1>1, <1>3, <1>7 DEF IInv, TypeOK, deviceDurable, deviceVolatile, network
  <1> QED
    BY <1>12, <1>13, <1>14, <1>15 DEF IInv

\* The effect of a frame is that of the first frame past the cursor, and of a
\* command nobody has settled yet.
LEMMA ApplyEffectKeeps == IInv /\ ApplyEffect => IInv'
  <1> SUFFICES ASSUME IInv, ApplyEffect PROVE IInv'
    OBVIOUS
  <1> USE BoundAssumption
  <1>1. /\ job.phase = "effect" /\ applied' = applied \cup {job.next}
        /\ UNCHANGED <<deviceDurable, deviceVolatile, network, cursor, completed, settled>>
        /\ current' \in {current, outbox[job.next].instance}
    BY DEF ApplyEffect
  <1>2. /\ job.next = cursor + 1 /\ outbox[job.next].key \notin settled
        /\ job.ack = Larger(cursor, job.next) /\ job.next <= job.last
    BY <1>1 DEF IInv, JobPosition
  <1>3. job.next \in 1..Len(outbox) /\ outbox[job.next] \in Frames
    BY <1>1, <1>2, FrameTypes
  <1>4. /\ job' \in Jobs
        /\ job'.first = job.first /\ job'.last = job.last /\ job'.next = job.next
        /\ job'.start = job.start /\ job'.ack = job.ack /\ job'.hint = job.hint
        /\ job'.phase = "complete"
    BY DEF ApplyEffect, IInv, TypeOK, Jobs, Phases
  <1>5. JobPosition'
    BY <1>1, <1>2, <1>4 DEF IInv, JobPosition, deviceDurable
  <1>6. TablesMatchCursor' /\ AppliedExists'
    BY <1>1, <1>3 DEF IInv, TablesMatchCursor, AppliedExists, deviceDurable
  <1>7. CursorCoversEffects'
    <2>1. outbox' = outbox /\ cursor' = cursor
      BY <1>1 DEF deviceDurable
    <2>2. applied' \subseteq 1..(cursor + 1)
      <3>1. job.next \in 1..(cursor + 1)
        BY <1>2, JobTypes
      <3>2. applied \subseteq 1..(cursor + 1)
        BY DEF IInv, CursorCoversEffects
      <3> QED
        BY <1>1, <3>1, <3>2, Zenon
    <2>3. \A s \in applied : s \in applied'
      BY <1>1
    <2> QED
      BY <2>1, <2>2, <2>3 DEF IInv, CursorCoversEffects
  <1>8. CommandAppliedOnce'
    <2>1. \A t \in applied : t # job.next /\ outbox[t].key # NoKey => outbox[t].key \in settled
      BY <1>2, JobTypes DEF IInv, CursorCoversEffects, TablesMatchCursor
    <2>2. outbox' = outbox
      BY <1>1 DEF deviceDurable
    <2> QED
      BY <1>1, <1>2, <2>1, <2>2 DEF IInv, CommandAppliedOnce
  <1>9. ConfirmedIsDelivered' /\ RequestsSound' /\ JournalMatches' /\ AnswersSound'
    <2>1. cursor' \in cursor..Len(outbox)
      BY <1>1, JobTypes DEF IInv, ConfirmedIsDelivered
    <2> QED
      BY <1>1, <2>1, DeviceHalf DEF network
  <1>10. TypeOK'
    <2>a. job.next \in 1..MaxSequence
      BY <1>3, JobTypes
    <2>1. applied' \subseteq 1..MaxSequence
      BY <1>1, <2>a DEF IInv, TypeOK
    <2>2. current' \in Instances
      BY <1>1, <1>3 DEF IInv, TypeOK, Frames
    <2> QED
      BY <1>1, <1>4, <2>1, <2>2 DEF IInv, TypeOK, deviceDurable, deviceVolatile, network
  <1> QED
    BY <1>5, <1>6, <1>7, <1>8, <1>9, <1>10 DEF IInv

\* The transaction that completes a frame moves the cursor by at most one.
LEMMA CompleteFrameStep ==
  ASSUME IInv, CompleteFrame
  PROVE  /\ job.next \in 1..Len(outbox) /\ outbox[job.next] \in Frames
         /\ cursor' = Larger(cursor, job.next)
         /\ \/ job.next <= cursor /\ cursor' = cursor
            \/ job.next = cursor + 1 /\ cursor' = cursor + 1
  <1>1. job.next \in 1..Len(outbox) /\ outbox[job.next] \in Frames
    BY FrameTypes DEF CompleteFrame, IInv, JobPosition
  <1>2. cursor = Larger(job.start, job.next - 1) /\ cursor' = Larger(cursor, job.next)
    BY DEF CompleteFrame, IInv, JobPosition
  <1> QED
    BY <1>1, <1>2, JobTypes DEF Larger

\* Completing a frame keeps tables, cursor and effects in step.
LEMMA CompleteFrameKeeps == IInv /\ CompleteFrame => IInv'
  <1> SUFFICES ASSUME IInv, CompleteFrame PROVE IInv'
    OBVIOUS
  <1> USE BoundAssumption
  <1> DEFINE k == outbox[job.next].key
  <1>1. /\ job.phase = "complete" /\ completed' = completed \cup {job.next}
        /\ settled' = settled \cup ({k} \ {NoKey})
        /\ UNCHANGED <<deviceDurable, deviceVolatile, network, current, applied>>
    BY DEF CompleteFrame
  <1>2. /\ job.next \in 1..Len(outbox) /\ outbox[job.next] \in Frames
        /\ cursor' = Larger(cursor, job.next)
        /\ \/ job.next <= cursor /\ cursor' = cursor
           \/ job.next = cursor + 1 /\ cursor' = cursor + 1
    BY CompleteFrameStep
  <1>3. /\ job'.first = job.first /\ job'.last = job.last /\ job'.next = job.next + 1
        /\ job'.start = job.start /\ job'.ack = job.ack /\ job'.hint = job.hint
        /\ job'.phase = "frame"
        /\ job.next <= job.last /\ job.ack = cursor'
    BY <1>1, <1>2 DEF CompleteFrame, IInv, TypeOK, Jobs, JobPosition
  <1>4. job' \in Jobs
    <2>1. job.next + 1 \in 0..(MaxSequence + 1)
      BY <1>2, JobTypes
    <2> QED
      BY <2>1 DEF CompleteFrame, IInv, TypeOK, Jobs, Phases
  <1>5. JobPosition'
    <2>1. /\ job.hint = 0 /\ job.first \in 1..(job.start + 1) /\ job.next >= job.first
          /\ job.last <= Len(outbox) /\ job.start <= cursor
          /\ cursor = Larger(job.start, job.next - 1)
      BY <1>1, JobTypes DEF IInv, JobPosition
    <2>2. cursor' = Larger(job.start, job.next) /\ job.start <= cursor'
      BY <1>2, <2>1, JobTypes DEF Larger
    <2>a. job.next \in Nat /\ job.last \in Nat /\ job.first \in Nat
      BY JobTypes
    <2>3. job.next + 1 \in job.first..(job.last + 1) /\ (job.next + 1) - 1 = job.next
      BY <1>3, <2>1, <2>a
    <2>4. outbox' = outbox
      BY <1>1 DEF deviceDurable
    <2> QED
      BY <1>3, <2>1, <2>2, <2>3, <2>4 DEF JobPosition
  <1>6. k \in Keys \cup {NoKey} /\ NoKey \notin settled /\ outbox' = outbox
    BY <1>1, <1>2, KeyAssumption DEF Frames, IInv, TypeOK, deviceDurable
  <1>7. TablesMatchCursor' /\ AppliedExists'
    <2>1. completed' = 1..cursor'
      BY <1>1, <1>2, JobTypes DEF IInv, TablesMatchCursor
    <2>2. \A s \in 1..cursor' : outbox[s].key # NoKey => outbox[s].key \in settled'
      BY <1>1, <1>2, JobTypes DEF IInv, TablesMatchCursor
    <2>3. ASSUME NEW c \in settled' PROVE \E s \in 1..cursor' : outbox[s].key = c
      <3>1. job.next \in 1..cursor' /\ \A s \in 1..cursor : s \in 1..cursor'
        BY <1>2, JobTypes
      <3> QED
        BY <1>1, <2>3, <3>1 DEF IInv, TablesMatchCursor
    <2> QED
      BY <1>1, <1>6, <2>1, <2>2, <2>3 DEF TablesMatchCursor, AppliedExists, IInv
  <1>8. CursorCoversEffects'
    <2>1. applied \subseteq 1..(cursor' + 1)
      BY <1>2, JobTypes DEF IInv, CursorCoversEffects
    <2>2. ASSUME NEW s \in 1..cursor', s \notin applied
          PROVE  \E t \in applied : t < s /\ outbox[t].key = outbox[s].key /\ outbox[s].key # NoKey
      <3>1. CASE s \in 1..cursor
        BY <2>2, <3>1 DEF IInv, CursorCoversEffects
      <3>2. CASE s \notin 1..cursor
        <4>1. s = job.next /\ s = cursor + 1
          BY <1>2, <3>2, JobTypes
        <4>2. k \in settled
          BY <1>1, <2>2, <4>1, JobTypes DEF IInv, JobPosition
        <4>3. PICK u \in 1..cursor : outbox[u].key = k
          BY <4>2 DEF IInv, TablesMatchCursor
        <4>4. PICK t \in applied : t <= u /\ outbox[t].key = k
          BY <4>3, JobTypes DEF IInv, TypeOK, CursorCoversEffects
        <4>5. t < s
          BY <4>1, <4>4, JobTypes DEF IInv, TypeOK
        <4> QED
          BY <1>6, <4>1, <4>2, <4>4, <4>5
      <3> QED
        BY <3>1, <3>2
    <2> QED
      BY <1>1, <1>6, <2>1, <2>2 DEF CursorCoversEffects
  <1>9. CommandAppliedOnce'
    BY <1>1, <1>6 DEF IInv, CommandAppliedOnce
  <1>10. cursor' \in cursor..Len(outbox)
    BY <1>2, JobTypes DEF IInv, ConfirmedIsDelivered
  <1>11. ConfirmedIsDelivered' /\ RequestsSound' /\ JournalMatches' /\ AnswersSound'
    BY <1>1, <1>10, DeviceHalf DEF network
  <1>12. TypeOK'
    <2>a. job.next \in 1..MaxSequence /\ cursor' \in 0..MaxSequence
      BY <1>2, <1>10, JobTypes
    <2>1. completed' \subseteq 1..MaxSequence
      BY <1>1, <2>a DEF IInv, TypeOK
    <2>2. settled' \subseteq Keys
      BY <1>1, <1>6 DEF IInv, TypeOK
    <2> QED
      BY <1>1, <1>4, <2>a, <2>1, <2>2 DEF IInv, TypeOK, deviceDurable, deviceVolatile, network
  <1> QED
    BY <1>5, <1>7, <1>8, <1>9, <1>11, <1>12 DEF IInv

\* With no exchange at work there is no position to keep.
LEMMA NoJobSound ==
  ASSUME IInv, job' = NoJob
  PROVE  job' \in Jobs /\ JobPosition'
  <1>1. job' \in Jobs
    BY BoundAssumption DEF NoJob, Jobs, Phases
  <1> QED
    BY <1>1 DEF NoJob, JobPosition

\* advance_exchange_cursors finds the cursor where the last frame left it.
LEMMA RespondStep ==
  ASSUME IInv, Respond
  PROVE  cursor' = cursor /\ job.ack = cursor /\ job.hint = 0
  <1>1. job.ack = cursor /\ job.hint = 0
    BY DEF Respond, IInv, JobPosition
  <1> QED
    BY <1>1, JobTypes DEF Respond, Larger

\* The response acknowledges no more than the durable cursor.
LEMMA RespondKeeps == IInv /\ Respond => IInv'
  <1> SUFFICES ASSUME IInv, Respond PROVE IInv'
    OBVIOUS
  <1> USE BoundAssumption
  <1>1. /\ cursor' = cursor /\ job' = NoJob
        /\ UNCHANGED <<deviceDurable, deviceVolatile, request, late, current,
                       completed, settled, applied>>
        /\ \/ reply' = reply
           \/ reply' = [ack |-> cursor, hint |-> 0]
    BY RespondStep DEF Respond
  <1>2. job' \in Jobs /\ JobPosition'
    BY <1>1, NoJobSound
  <1>3. TablesMatchCursor' /\ AppliedExists' /\ CursorCoversEffects' /\ CommandAppliedOnce'
    BY <1>1, TablesHalf DEF deviceDurable
  <1>4. ConfirmedIsDelivered' /\ RequestsSound' /\ JournalMatches'
    BY <1>1 DEF IInv, ConfirmedIsDelivered, RequestsSound, Sound, JournalMatches,
                deviceDurable, deviceVolatile
  <1>5. AnswersSound'
    BY <1>1, JobTypes DEF IInv, AnswersSound, deviceVolatile
  <1>6. reply' \in Responses
    BY <1>1 DEF IInv, TypeOK, Responses
  <1>7. TypeOK'
    BY <1>1, <1>2, <1>6 DEF IInv, TypeOK, deviceDurable, deviceVolatile
  <1> QED
    BY <1>2, <1>3, <1>4, <1>5, <1>7 DEF IInv

\* A server failure or a lost late request.
LEMMA LossKeeps == IInv /\ (JobFails \/ LoseLate) => IInv'
  <1> SUFFICES ASSUME IInv, JobFails \/ LoseLate PROVE IInv'
    OBVIOUS
  <1> USE BoundAssumption
  <1>1. /\ UNCHANGED <<deviceDurable, deviceVolatile, serverDurable, request, reply>>
        /\ late' \subseteq late /\ job' \in {job, NoJob}
    BY DEF JobFails, LoseLate, network
  <1>2. job' \in Jobs /\ JobPosition'
    <2>1. CASE job' = NoJob
      BY <2>1, NoJobSound
    <2>2. CASE job' = job
      BY <1>1, <2>2, AbandonJob DEF ServerHalf, deviceDurable
    <2> QED
      BY <1>1, <2>1, <2>2
  <1>3. TablesMatchCursor' /\ AppliedExists' /\ CursorCoversEffects' /\ CommandAppliedOnce'
    BY <1>1, TablesHalf DEF deviceDurable, serverDurable
  <1>4. cursor' \in cursor..Len(outbox)
    BY <1>1, JobTypes DEF IInv, ConfirmedIsDelivered, serverDurable
  <1>5. ConfirmedIsDelivered' /\ RequestsSound' /\ JournalMatches' /\ AnswersSound'
    BY <1>1, <1>4, DeviceHalf
  <1>6. TypeOK'
    BY <1>1, <1>2 DEF IInv, TypeOK, deviceDurable, deviceVolatile, serverDurable
  <1> QED
    BY <1>2, <1>3, <1>5, <1>6 DEF IInv

\* Steps that leave every variable alone.
LEMMA StutterKeeps == IInv /\ UNCHANGED vars => IInv'
  <1> SUFFICES ASSUME IInv, UNCHANGED vars PROVE IInv'
    OBVIOUS
  <1> USE DEF vars, deviceDurable, deviceVolatile, network, serverDurable
  <1>1. TypeOK'
    BY DEF IInv, TypeOK
  <1>2. ConfirmedIsDelivered' /\ RequestsSound' /\ JournalMatches' /\ AnswersSound'
    BY DEF IInv, ConfirmedIsDelivered, RequestsSound, Sound, JournalMatches, AnswersSound
  <1>3. ServerHalf'
    BY AbandonJob
  <1> QED
    BY <1>1, <1>2, <1>3 DEF IInv, ServerHalf

\* Every step of the device, the network and the server keeps the invariant.
THEOREM StepKeepsIInv == IInv /\ [Next]_vars => IInv'
  BY EnqueueKeeps, SendKeeps, GiveUpKeeps, ReceiveKeeps, ApplyResponseKeeps, AdminOpenKeeps,
     ServeKeeps, SettleFrameKeeps, ApplyEffectKeeps, CompleteFrameKeeps, RespondKeeps,
     LossKeeps, StutterKeeps
     DEF Next, Device, Server

\* The inductive invariant holds in every reachable state.
THEOREM Invariance == Spec => []IInv
  BY InitIInv, StepKeepsIInv, PTL DEF Spec

\* Every variable keeps its type in every reachable state.
THEOREM TypeCorrect == Spec => []TypeOK
  <1>1. IInv => TypeOK
    BY DEF IInv
  <1> QED
    BY <1>1, Invariance, PTL

\* The device never forgets a frame the server has not durably taken.
THEOREM NothingForgotten == Spec => []ConfirmedIsDelivered
  <1>1. IInv => ConfirmedIsDelivered
    BY DEF IInv
  <1> QED
    BY <1>1, Invariance, PTL

\* The server's cursor passes a frame only with its effect, and no effect runs
\* more than one frame ahead of the cursor.
THEOREM EffectsCovered == Spec => []CursorCoversEffects
  <1>1. IInv => CursorCoversEffects
    BY DEF IInv
  <1> QED
    BY <1>1, Invariance, PTL

\* No command takes effect under two sequences.
THEOREM CommandsOnce == Spec => []CommandAppliedOnce
  <1>1. IInv => CommandAppliedOnce
    BY DEF IInv
  <1> QED
    BY <1>1, Invariance, PTL

\* No request of this device ever produces a gap at the server.
THEOREM NoGaps == Spec => []NeverGaps
  <1>1. IInv => NeverGaps
    BY DEF IInv, NeverGaps, JobPosition, AnswersSound
  <1> QED
    BY <1>1, Invariance, PTL

\* The network journal holds at most one open operation, the one pending.
THEOREM OneOperation == Spec => []OneOpenOperation
  <1>1. ASSUME IInv PROVE OneOpenOperation
    <2>1. pending # NoRequest =>
              pending = [first |-> acked + 1, last |-> frozen[acked + 1]]
      BY <1>1 DEF IInv, TypeOK, Requests, RequestsSound, JournalMatches
    <2> QED
      BY <1>1, <2>1 DEF IInv, JournalMatches, OneOpenOperation
  <1> QED
    BY <1>1, Invariance, PTL

\* Whatever is lost, late, repeated or cut short, the outbox, the server's cursor
\* and the device's acknowledgement move as an ordered, exactly-once stream does.
THEOREM Refinement == Spec => ImplementsOrderedStream
  <1> USE DEF Stream!Init, Stream!Next, Stream!Send, Stream!Deliver, Stream!Confirm
  <1>1. Init => Stream!Init
    BY DEF Init
  <1>2. ASSUME IInv, [Next]_vars
        PROVE  [Stream!Next]_<<outbox, cursor, acked>>
    <2> USE <1>2
    <2>1. CASE \/ Announce
               \/ Enqueue("report", NoKey)
               \/ \E k \in Keys : Enqueue("command", k)
               \/ \E k \in Keys : AdminEnqueue(k)
      <3>1. UNCHANGED <<cursor, acked>>
        BY <2>1 DEF Announce, Enqueue, AdminEnqueue, serverDurable
      <3>2. \E f \in Frames : outbox' = Append(outbox, f)
        BY <2>1 DEF Announce, Enqueue, AdminEnqueue, AppendFrame, Frames, Kinds, IInv, TypeOK
      <3> QED
        BY <3>1, <3>2
    <2>2. CASE ApplyResponse
      BY <2>2, ApplyResponseStep DEF ApplyResponse, serverDurable
    <2>3. CASE CompleteFrame
      BY <2>3, CompleteFrameStep, JobTypes DEF CompleteFrame, deviceDurable
    <2>4. CASE Respond
      BY <2>4, RespondStep DEF Respond, deviceDurable
    <2>5. CASE Send \/ ExchangeFails \/ Receive \/ Relaunch \/ AdminOpen
      BY <2>5 DEF Send, ExchangeFails, Receive, Relaunch, AdminOpen, deviceDurable, serverDurable
    <2>6. CASE ServePending \/ ServeLate \/ SettleFrame \/ ApplyEffect \/ JobFails \/ LoseLate
      BY <2>6 DEF ServePending, ServeLate, SettleFrame, ApplyEffect, JobFails, LoseLate,
                  deviceDurable, serverDurable
    <2>7. CASE UNCHANGED vars
      BY <2>7 DEF vars, deviceDurable, serverDurable
    <2> QED
      BY <2>1, <2>2, <2>3, <2>4, <2>5, <2>6, <2>7 DEF Next, Device, Server
  <1> QED
    BY <1>1, <1>2, Invariance, PTL DEF Spec, ImplementsOrderedStream, Stream!Spec
=============================================================================
