---------------------------- MODULE DownlinkProofs ----------------------------
(***************************************************************************)
(* Proofs about DownlinkExchange for every value of its constants.         *)
(***************************************************************************)
EXTENDS DownlinkInvariant, FiniteSetTheorems, TLAPS

USE DEF Sequences0, Instances, NoAck, Acks

\* The numbers the arguments are about.
LEMMA Numbers ==
    ASSUME TypeOK
    PROVE  /\ inbox \in Nat /\ serverAck \in Nat /\ Len(sent) \in Nat /\ MaxSequence \in Nat
           /\ inbox <= MaxSequence /\ Len(sent) <= MaxSequence
           /\ rows \subseteq Nat /\ reply \subseteq Nat /\ inbound \subseteq Nat
           /\ bound \in Nat /\ request \in Nat /\ late \subseteq Nat
           /\ job.ack \in Acks /\ job.live \in BOOLEAN /\ job.phase \in Phases
  BY DownlinkBounds DEF TypeOK, Jobs

\* next_sequence_in_transaction always finds the end of the stream, although the rows
\* that were reported are gone.
LEMMA StreamEnd ==
    ASSUME TypeOK, RowsAreTheEnd
    PROVE  Larger(serverAck, HighWater) = Len(sent) /\ NextSequence = Len(sent) + 1
  <1> DEFINE n == Len(sent)
  <1>1. n \in Nat /\ serverAck \in Nat /\ serverAck <= n
    BY Numbers DEF RowsAreTheEnd
  <1>2. CASE rows = {}
    <2>1. serverAck = n
      BY <1>1, <1>2 DEF RowsAreTheEnd
    <2> QED
      BY <1>1, <1>2, <2>1 DEF HighWater, Larger, NextSequence
  <1>3. CASE rows # {}
    <2>1. n \in rows /\ \A s \in rows : s \in Nat /\ s <= n
      <3>1. PICK s \in rows : TRUE
        BY <1>3
      <3>2. \A t \in rows : t \in Nat /\ t <= n
        BY <1>1, Numbers DEF RowsAreTheEnd
      <3>3. n \in s..n
        BY <1>1, <3>1, <3>2
      <3> QED
        BY <3>2, <3>3 DEF RowsAreTheEnd
    <2>2. Max(rows) \in rows /\ \A s \in rows : Max(rows) >= s
      BY <2>1 DEF Max
    <2>3. Max(rows) = n
      BY <1>1, <2>1, <2>2
    <2> QED
      BY <1>1, <1>3, <2>3 DEF HighWater, Larger, NextSequence
  <1> QED
    BY <1>2, <1>3

\* Nothing has been appended, and nothing is under way.
LEMMA InitIInv == Init => IInv
  <1> SUFFICES ASSUME Init PROVE IInv
    OBVIOUS
  <1> USE DownlinkBounds
  <1>1. sent = <<>> /\ Len(sent) = 0 /\ sent \in Seq(Frames)
    BY DEF Init
  <1>2. NoDraft \in Drafts /\ NoJob \in Jobs /\ NoConfig \in Configs
    BY DEF NoDraft, Drafts, NoJob, Jobs, Phases, NoConfig, Configs
  <1>3. /\ serverAck \in Sequences0 /\ current \in Instances /\ request \in Acks
        /\ inbox \in Sequences0 /\ bound \in Acks /\ instance \in Instances
        /\ Len(sent) \in Sequences0
    BY <1>1 DEF Init
  <1>4. /\ draft \in [Handlers -> Drafts] /\ job \in Jobs /\ config \in Configs
        /\ answered \in BOOLEAN /\ pending \in BOOLEAN /\ visited \in BOOLEAN
        /\ step \in {"scan", "consume"}
    BY <1>2 DEF Init
  <1>5. /\ rows \subseteq 1..MaxSequence /\ reply \subseteq 1..MaxSequence /\ late \subseteq Acks
        /\ inbound \subseteq 1..MaxSequence /\ applied \subseteq 1..MaxSequence
        /\ rejected \subseteq 1..MaxSequence
    BY DEF Init
  <1>6. TypeOK
    BY <1>1, <1>3, <1>4, <1>5 DEF TypeOK
  <1>7. RowsAreTheEnd
    BY <1>1 DEF Init, RowsAreTheEnd
  <1>8. DraftsFit /\ AcksSound
    BY DEF Init, DraftsFit, AcksSound
  <1>9. JobSound /\ OnePlace /\ ResponsesSound
    BY DEF Init, JobSound, OnePlace, ResponsesSound, NoJob, Continues
  <1>10. IngestSound /\ EffectsInOrder
    BY DEF Init, IngestSound, EffectsInOrder, NoConfig
  <1> QED
    BY <1>6, <1>7, <1>8, <1>9, <1>10 DEF IInv

\* The invariant where a step leaves alone what each part is about.
LEMMA DeviceUntouched ==
    ASSUME IInv, UNCHANGED <<sent, device, history, network>>
    PROVE  AcksSound' /\ ResponsesSound' /\ IngestSound' /\ EffectsInOrder'
  BY DEF IInv, device, history, network, AcksSound, ResponsesSound, Continues, IngestSound,
     EffectsInOrder

\* Drafting reads the end of the stream and writes nothing.
LEMMA DraftKeeps ==
    ASSUME IInv, NEW h \in Handlers, Draft(h)
    PROVE  IInv'
  <1> USE DEF IInv
  <1> DEFINE new == [sequence |-> NextSequence, instance |-> current]
  <1>1. /\ NextSequence <= MaxSequence /\ draft' = [draft EXCEPT ![h] = new]
        /\ UNCHANGED <<sent, rows, serverAck, current, job, network, device, history>>
    BY DEF Draft
  <1>2. NextSequence \in 1..MaxSequence
    BY <1>1, StreamEnd, Numbers
  <1>3. new \in Drafts /\ new.sequence \in 1..MaxSequence
    BY <1>2, DownlinkBounds DEF Drafts, TypeOK
  <1> HIDE DEF new
  <1>4. /\ draft' \in [Handlers -> Drafts] /\ draft'[h] = new
        /\ \A g \in Handlers : g # h => draft'[g] = draft[g]
    BY <1>1, <1>3 DEF TypeOK
  <1>5. TypeOK'
    BY <1>1, <1>4 DEF TypeOK, network, device, history
  <1>6. DraftsFit'
    BY <1>3, <1>4 DEF DraftsFit
  <1>7. RowsAreTheEnd' /\ JobSound' /\ OnePlace'
    BY <1>1 DEF RowsAreTheEnd, JobSound, OnePlace, device, network
  <1> QED
    BY <1>1, <1>5, <1>6, <1>7, DeviceUntouched

\* A frame is appended at the end of the stream or not at all.
LEMMA AppendDraftKeeps ==
    ASSUME IInv, NEW h \in Handlers, NEW kind \in Kinds, AppendDraft(h, kind)
    PROVE  IInv'
  <1> USE DEF IInv
  <1> DEFINE s == draft[h].sequence
             f == [instance |-> draft[h].instance, kind |-> kind]
  <1>1. /\ draft[h] # NoDraft /\ draft' = [draft EXCEPT ![h] = NoDraft]
        /\ UNCHANGED <<serverAck, current, job, network, device, history>>
        /\ \/ s # NextSequence /\ UNCHANGED <<rows, sent>>
           \/ /\ s = NextSequence /\ rows' = rows \cup {s}
              /\ sent' = IF s <= Len(sent) THEN [sent EXCEPT ![s] = f] ELSE Append(sent, f)
    BY DEF AppendDraft
  <1>2. /\ draft' \in [Handlers -> Drafts] /\ draft'[h] = NoDraft
        /\ \A g \in Handlers : g # h => draft'[g] = draft[g]
    BY <1>1, DownlinkBounds DEF TypeOK, Drafts, NoDraft
  <1>3. DraftsFit'
    BY <1>2 DEF DraftsFit
  <1>4. f \in Frames /\ s \in 1..MaxSequence
    BY <1>1 DEF Frames, TypeOK, Drafts, DraftsFit
  <1>5. CASE s # NextSequence /\ UNCHANGED <<rows, sent>>
    <2>1. TypeOK'
      BY <1>1, <1>2, <1>5 DEF TypeOK, network, device, history
    <2>2. RowsAreTheEnd' /\ JobSound' /\ OnePlace'
      BY <1>1, <1>5 DEF RowsAreTheEnd, JobSound, OnePlace, device, network
    <2> QED
      BY <1>1, <1>3, <1>5, <2>1, <2>2, DeviceUntouched
  <1>6. CASE s = NextSequence /\ rows' = rows \cup {s}
    <2> HIDE DEF s, f
    <2>1. s = Len(sent) + 1
      BY <1>6, StreamEnd
    <2>2. sent' = Append(sent, f)
      BY <1>1, <1>6, <2>1, Numbers DEF s, f
    <2>3. /\ sent' \in Seq(Frames) /\ Len(sent') = Len(sent) + 1 /\ Len(sent') \in Sequences0
          /\ \A i \in 1..Len(sent) : sent'[i] = sent[i]
      BY <1>4, <2>1, <2>2, Numbers DEF TypeOK
    <2>4. rows' \subseteq 1..MaxSequence
      BY <1>4, <1>6 DEF TypeOK
    <2>5. TypeOK'
      BY <1>1, <1>2, <2>3, <2>4 DEF TypeOK, network, device, history
    <2>6. RowsAreTheEnd'
      <3>1. /\ serverAck' <= inbox' /\ inbox' <= Len(sent') /\ rows' \subseteq 1..Len(sent')
        <4>1. serverAck' <= inbox' /\ inbox' <= Len(sent')
          BY <1>1, <2>3, Numbers DEF RowsAreTheEnd, device
        <4>2. 1..Len(sent) \subseteq 1..Len(sent') /\ s \in 1..Len(sent')
          BY <2>1, <2>3, Numbers
        <4> QED
          BY <1>6, <4>1, <4>2 DEF RowsAreTheEnd
      <3>2. ASSUME NEW r \in rows', NEW t \in r..Len(sent') PROVE t \in rows'
        <4>1. CASE t = s
          BY <1>6, <4>1
        <4>2. CASE t # s
          <5>1. r # s /\ r \in rows /\ t \in r..Len(sent)
            BY <1>6, <2>1, <2>3, <3>1, <3>2, <4>2, Numbers
          <5> QED
            BY <1>6, <5>1 DEF RowsAreTheEnd
        <4> QED
          BY <4>1, <4>2
      <3>3. ASSUME NEW t \in (serverAck' + 1)..Len(sent') PROVE t \in rows'
        <4>1. t = s \/ t \in (serverAck + 1)..Len(sent)
          BY <1>1, <2>1, <2>3, <3>3, Numbers
        <4> QED
          BY <1>6, <4>1 DEF RowsAreTheEnd
      <3> QED
        BY <3>1, <3>2, <3>3 DEF RowsAreTheEnd
    <2>7. AcksSound' /\ JobSound' /\ OnePlace'
      BY <1>1 DEF AcksSound, JobSound, OnePlace, device, network
    <2>8. ResponsesSound'
      BY <1>1, <2>3, Numbers DEF ResponsesSound, Continues, device, network
    <2>9. IngestSound' /\ EffectsInOrder'
      BY <1>1, <2>3, Numbers DEF IngestSound, EffectsInOrder, device, history
    <2> QED
      BY <1>3, <2>5, <2>6, <2>7, <2>8, <2>9
  <1> QED
    BY <1>1, <1>5, <1>6

\* The registry learns which launch is running.
LEMMA HelloTakenKeeps == IInv /\ HelloTaken => IInv'
  <1> SUFFICES ASSUME IInv, HelloTaken PROVE IInv'
    OBVIOUS
  <1> USE DEF IInv
  <1>1. /\ current' = instance
        /\ UNCHANGED <<sent, rows, serverAck, draft, job, network, device, history>>
    BY DEF HelloTaken
  <1>2. TypeOK'
    BY <1>1 DEF TypeOK, network, device, history
  <1>3. RowsAreTheEnd' /\ DraftsFit' /\ JobSound' /\ OnePlace'
    BY <1>1 DEF RowsAreTheEnd, DraftsFit, JobSound, OnePlace, device, network
  <1> QED
    BY <1>1, <1>2, <1>3, DeviceUntouched

-----------------------------------------------------------------------------
(* The exchange on the server *)

\* A step that leaves the stream, the handlers and the device's commands alone.
LEMMA StreamUntouched ==
    ASSUME IInv, UNCHANGED <<sent, rows, serverAck, inbox, draft>>
    PROVE  RowsAreTheEnd' /\ DraftsFit'
  BY DEF IInv, RowsAreTheEnd, DraftsFit

\* A step that leaves the commands in the device's hands alone.
LEMMA CommandsUntouched ==
    ASSUME IInv, UNCHANGED <<sent, inbox, inbound, step, config, history>>
    PROVE  IngestSound' /\ EffectsInOrder'
  BY DEF IInv, IngestSound, EffectsInOrder, history

\* No acknowledgement of this device is refused.
LEMMA AckAccepted ==
    ASSUME IInv, NEW ack \in Nat, ack <= inbox
    PROVE  ~Refuses(ack)
  BY StreamEnd, Numbers DEF IInv, Refuses, RowsAreTheEnd

\* The request that is pending, or one of the late ones, takes the lock.
LEMMA ServeKeeps == IInv /\ (ServePending \/ ServeLate) => IInv'
  <1> SUFFICES ASSUME IInv, ServePending \/ ServeLate PROVE IInv'
    OBVIOUS
  <1> USE DEF IInv
  <1>1. PICK ack \in Acks, live \in BOOLEAN :
            /\ TakeRequest(ack, live) /\ ack <= inbox
            /\ live => pending /\ ack = inbox /\ ~answered /\ request' = NoAck
            /\ request' \in {request, NoAck} /\ late' \subseteq late
            /\ UNCHANGED <<sent, rows, serverAck, current, draft, reply, answered, device, history>>
    <2>1. CASE ServePending
      <3>1. /\ TakeRequest(request, TRUE) /\ request # NoAck /\ request' = NoAck /\ late' = late
            /\ UNCHANGED <<sent, rows, serverAck, current, draft, reply, answered, device, history>>
        BY <2>1 DEF ServePending
      <3>2. request \in Acks /\ pending /\ request = inbox /\ inbox <= inbox /\ ~answered
        BY <3>1, Numbers DEF AcksSound, OnePlace, TypeOK
      <3> QED
        BY <3>1, <3>2, Zenon
    <2>2. CASE ServeLate
      <3>1. PICK ack \in late : TakeRequest(ack, FALSE) /\ late' = late \ {ack}
        BY <2>2 DEF ServeLate
      <3>2. ack \in Acks /\ ack <= inbox
        BY <3>1 DEF TypeOK, AcksSound
      <3> QED
        BY <2>2, <3>1, <3>2 DEF ServeLate
    <2> QED
      BY <2>1, <2>2
  <1>2. ~Refuses(ack)
    BY <1>1, AckAccepted, DownlinkBounds
  <1>3. /\ job' \in Jobs /\ job'.phase = "advance" /\ job'.ack = ack /\ job'.live = live
    BY <1>1, <1>2 DEF TakeRequest, Jobs, Phases
  <1>4. TypeOK'
    BY <1>1, <1>3 DEF TypeOK, device, history
  <1>5. AcksSound' /\ JobSound' /\ OnePlace'
    BY <1>1, <1>3 DEF AcksSound, JobSound, OnePlace, device
  <1>6. ResponsesSound'
    BY <1>1 DEF ResponsesSound, Continues, device
  <1> QED
    BY <1>1, <1>4, <1>5, <1>6, StreamUntouched, CommandsUntouched DEF device

\* The cursor moves to what the device has reported.
LEMMA AdvanceCursorKeeps == IInv /\ AdvanceCursor => IInv' /\ serverAck' \in serverAck..inbox
  <1> SUFFICES ASSUME IInv, AdvanceCursor PROVE IInv' /\ serverAck' \in serverAck..inbox
    OBVIOUS
  <1> USE DEF IInv
  <1>1. /\ job.phase = "advance" /\ serverAck' = Larger(serverAck, job.ack)
        /\ job' = [job EXCEPT !.phase = "deliver"]
        /\ UNCHANGED <<sent, rows, current, draft, network, device, history>>
    BY DEF AdvanceCursor
  <1>2. job.ack \in Nat /\ job.ack <= inbox
    BY <1>1, Numbers DEF JobSound
  <1>3. /\ serverAck' \in serverAck..inbox /\ serverAck' \in Sequences0 /\ job.ack <= serverAck'
    BY <1>1, <1>2, Numbers DEF Larger, RowsAreTheEnd
  <1>4. /\ job' \in Jobs /\ job'.phase = "deliver" /\ job'.ack = job.ack /\ job'.live = job.live
    BY <1>1 DEF TypeOK, Jobs, Phases
  <1>5. TypeOK'
    BY <1>1, <1>3, <1>4 DEF TypeOK, network, device, history
  <1>6. RowsAreTheEnd'
    BY <1>1, <1>3, Numbers DEF RowsAreTheEnd, device
  <1>7. DraftsFit' /\ JobSound' /\ OnePlace'
    BY <1>1, <1>3, <1>4 DEF DraftsFit, JobSound, OnePlace, device, network
  <1> QED
    BY <1>1, <1>3, <1>5, <1>6, <1>7, DeviceUntouched

\* The response to the pending request starts right after the device's cursor and has
\* no gap: the request told the server where the device stands.
LEMMA DeliverableContinues ==
    ASSUME IInv, job.phase = "deliver", job.live
    PROVE  Continues(Deliverable)
  <1> USE DEF IInv
  <1>1. serverAck = inbox
    BY Numbers DEF JobSound, RowsAreTheEnd
  <1> DEFINE Upto(s) == {t \in rows : serverAck < t /\ t <= s}
  <1>2. \A s \in Nat : IsFiniteSet(Upto(s)) /\ Cardinality(Upto(s)) \in Nat
    <2>1. IsFiniteSet(1..MaxSequence)
      BY FS_Interval, DownlinkBounds
    <2>2. \A s \in Nat : Upto(s) \subseteq 1..MaxSequence
      BY DEF TypeOK
    <2> QED
      BY <2>1, <2>2, FS_Subset, FS_CardinalityType
  <1>3. ASSUME NEW s \in Deliverable, NEW t \in (inbox + 1)..s PROVE t \in Deliverable
    <2>1. s \in rows /\ s \in Nat /\ s <= Len(sent) /\ Cardinality(Upto(s)) <= MaxFrames
      BY <1>3, Numbers DEF Deliverable, RowsAreTheEnd
    <2>2. t \in Nat /\ t <= s /\ t > serverAck /\ t \in rows
      BY <1>1, <1>3, <2>1, Numbers DEF RowsAreTheEnd
    <2> DEFINE T == Upto(t)
               S == Upto(s)
    <2>3. T \subseteq S
      <3>1. \A u \in rows : u \in Nat /\ (u <= t => u <= s)
        BY <2>1, <2>2, Numbers
      <3> QED
        BY <3>1
    <2>4. IsFiniteSet(S) /\ Cardinality(S) \in Nat /\ Cardinality(T) \in Nat
      BY <1>2, <2>1, <2>2
    <2>5. Cardinality(S) <= MaxFrames
      BY <2>1
    <2> HIDE DEF T, S
    <2>6. Cardinality(T) <= Cardinality(S)
      BY <2>3, <2>4, FS_Subset
    <2>7. Cardinality(T) <= MaxFrames
      BY <2>4, <2>5, <2>6, DownlinkBounds
    <2> QED
      BY <2>2, <2>7 DEF Deliverable, T
  <1>4. ASSUME NEW s \in Deliverable PROVE s \in (inbox + 1)..Len(sent)
    BY <1>1, <1>4, Numbers DEF Deliverable, RowsAreTheEnd
  <1> QED
    BY <1>3, <1>4 DEF Continues

\* What the device has reported is deleted, what it has not is kept.
LEMMA DeliverAndRetainKeeps == IInv /\ DeliverAndRetain => IInv'
  <1> SUFFICES ASSUME IInv, DeliverAndRetain PROVE IInv'
    OBVIOUS
  <1> USE DEF IInv
  <1>1. /\ job.phase = "deliver" /\ reply' = IF job.live THEN Deliverable ELSE reply
        /\ answered' = (answered \/ job.live) /\ rows' = Retained /\ job' = NoJob
        /\ UNCHANGED <<sent, serverAck, current, draft, request, late, device, history>>
    BY DEF DeliverAndRetain
  <1>2. NoJob \in Jobs /\ NoJob.phase = "none" /\ NoJob.live = FALSE
    BY DEF NoJob, Jobs, Phases
  <1>3. rows' \subseteq rows /\ reply' \subseteq 1..MaxSequence
    BY <1>1 DEF Retained, Deliverable, TypeOK
  <1>4. answered' \in BOOLEAN /\ (answered' => pending) /\ (job.live => answered')
        /\ (answered => answered')
    BY <1>1, Numbers DEF JobSound, ResponsesSound
  <1>5. TypeOK'
    BY <1>1, <1>2, <1>3, <1>4 DEF TypeOK, device, history
  <1>6. RowsAreTheEnd'
    <2>1. /\ serverAck' <= inbox' /\ inbox' <= Len(sent') /\ rows' \subseteq 1..Len(sent')
      BY <1>1, <1>3 DEF RowsAreTheEnd, device
    <2>2. ASSUME NEW s \in rows', NEW t \in s..Len(sent') PROVE t \in rows'
      <3>1. s \in rows /\ s \in Nat /\ s > serverAck /\ t > serverAck /\ t \in s..Len(sent)
        BY <1>1, <2>2, Numbers DEF Retained
      <3> QED
        BY <1>1, <3>1 DEF RowsAreTheEnd, Retained
    <2>3. ASSUME NEW s \in (serverAck' + 1)..Len(sent') PROVE s \in rows'
      BY <1>1, <2>3, Numbers DEF RowsAreTheEnd, Retained
    <2> QED
      BY <2>1, <2>2, <2>3 DEF RowsAreTheEnd
  <1>7. DraftsFit' /\ AcksSound' /\ JobSound' /\ OnePlace'
    BY <1>1, <1>2 DEF DraftsFit, AcksSound, JobSound, OnePlace, device
  <1>8. ResponsesSound'
    <2>1. Continues(reply)' /\ Continues(inbound)'
      BY <1>1, DeliverableContinues DEF ResponsesSound, Continues, device
    <2>2. reply' # {} => answered'
      BY <1>1, <1>4 DEF ResponsesSound
    <2> QED
      BY <1>1, <1>4, <2>1, <2>2 DEF ResponsesSound, device
  <1> QED
    BY <1>1, <1>5, <1>6, <1>7, <1>8, CommandsUntouched DEF device

\* A failure of the server leaves what has been committed.
LEMMA JobFailsKeeps == IInv /\ JobFails => IInv'
  <1> SUFFICES ASSUME IInv, JobFails PROVE IInv'
    OBVIOUS
  <1> USE DEF IInv
  <1>1. /\ job' = NoJob
        /\ UNCHANGED <<sent, rows, serverAck, current, draft, network, device, history>>
    BY DEF JobFails
  <1>2. NoJob \in Jobs /\ NoJob.phase = "none" /\ NoJob.live = FALSE
    BY DEF NoJob, Jobs, Phases
  <1>3. TypeOK'
    BY <1>1, <1>2 DEF TypeOK, network, device, history
  <1>4. JobSound' /\ OnePlace'
    BY <1>1, <1>2 DEF JobSound, OnePlace, network
  <1> QED
    BY <1>1, <1>3, <1>4, StreamUntouched, DeviceUntouched DEF device

-----------------------------------------------------------------------------
(* The exchange on the device *)

\* The device reports where it stands, and nothing moves that until it has an answer.
LEMMA SendKeeps == IInv /\ Send => IInv'
  <1> SUFFICES ASSUME IInv, Send PROVE IInv'
    OBVIOUS
  <1> USE DEF IInv
  <1> DEFINE ack == IF bound = NoAck THEN inbox ELSE bound
  <1>1. /\ ~pending /\ inbound = {} /\ bound' = ack /\ request' = ack /\ pending' = TRUE
        /\ UNCHANGED <<server, reply, answered, late, inbox, instance, inbound, visited,
                       step, config, history>>
        /\ UNCHANGED <<sent, rows, serverAck, current, draft, job>>
    BY DEF Send, Idle, server
  <1>2. ack = inbox /\ ack \in Acks /\ inbox # NoAck
    BY Numbers DEF AcksSound
  <1> HIDE DEF ack
  <1>3. TypeOK'
    BY <1>1, <1>2 DEF TypeOK, history
  <1>4. AcksSound' /\ JobSound' /\ OnePlace'
    BY <1>1, <1>2 DEF AcksSound, JobSound, OnePlace, ResponsesSound
  <1>5. ResponsesSound'
    BY <1>1 DEF ResponsesSound, Continues
  <1> QED
    BY <1>1, <1>3, <1>4, <1>5, StreamUntouched, CommandsUntouched

\* What giving up an exchange leaves behind.
LEMMA AbandonFacts ==
    ASSUME IInv, Abandon, inbox' = inbox, bound' = bound, serverAck' = serverAck,
           inbound' \in {inbound, {}}, sent' = sent
    PROVE  /\ job' \in Jobs /\ request' \in Acks /\ reply' \subseteq 1..MaxSequence
           /\ late' \subseteq Acks /\ pending' \in BOOLEAN /\ answered' \in BOOLEAN
           /\ AcksSound' /\ JobSound' /\ OnePlace' /\ ResponsesSound'
  <1> USE DEF IInv
  <1>1. /\ pending' = FALSE /\ request' = NoAck /\ reply' = {} /\ answered' = FALSE
        /\ job' = IF job = NoJob THEN job ELSE [job EXCEPT !.live = FALSE]
        /\ late' = late \/ (request # NoAck /\ late' = late \cup {request})
    BY DEF Abandon
  <1>2. /\ job' \in Jobs /\ job'.phase = job.phase /\ job'.ack = job.ack
        /\ job'.live = FALSE
    <2>1. CASE job = NoJob
      BY <1>1, <2>1 DEF TypeOK, NoJob
    <2>2. CASE job # NoJob
      BY <1>1, <2>2 DEF TypeOK, Jobs
    <2> QED
      BY <2>1, <2>2
  <1>3. late' \subseteq Acks /\ \A a \in late' : a <= inbox
    BY <1>1, Numbers DEF TypeOK, AcksSound
  <1>4. AcksSound'
    BY <1>1, <1>3 DEF AcksSound
  <1>5. JobSound' /\ OnePlace'
    BY <1>1, <1>2 DEF JobSound, OnePlace
  <1>6. ResponsesSound'
    BY <1>1 DEF ResponsesSound, Continues
  <1> QED
    BY <1>1, <1>2, <1>3, <1>4, <1>5, <1>6, DownlinkBounds

\* An exchange that is given up leaves its operation open.
LEMMA ExchangeFailsKeeps == IInv /\ ExchangeFails => IInv'
  <1> SUFFICES ASSUME IInv, ExchangeFails PROVE IInv'
    OBVIOUS
  <1> USE DEF IInv
  <1>1. /\ Abandon
        /\ UNCHANGED <<sent, rows, serverAck, current, draft, inbox, bound, instance,
                       inbound, visited, step, config, history>>
    BY DEF ExchangeFails
  <1>2. /\ job' \in Jobs /\ request' \in Acks /\ reply' \subseteq 1..MaxSequence
        /\ late' \subseteq Acks /\ pending' \in BOOLEAN /\ answered' \in BOOLEAN
        /\ AcksSound' /\ JobSound' /\ OnePlace' /\ ResponsesSound'
    BY <1>1, AbandonFacts
  <1>3. TypeOK'
    BY <1>1, <1>2 DEF TypeOK, history
  <1> QED
    BY <1>1, <1>2, <1>3, StreamUntouched, CommandsUntouched

\* A launch begins with the cursor and the open operation of the one before, and without
\* its commands and its configuration thread.
LEMMA RelaunchKeeps == IInv /\ Relaunch => IInv'
  <1> SUFFICES ASSUME IInv, Relaunch PROVE IInv'
    OBVIOUS
  <1> USE DEF IInv
  <1>1. /\ instance < MaxInstance /\ instance' = instance + 1 /\ Abandon
        /\ inbound' = {} /\ visited' = FALSE /\ step' = "scan" /\ config' = NoConfig
        /\ UNCHANGED <<sent, rows, serverAck, current, draft, inbox, bound, history>>
    BY DEF Relaunch, Leave
  <1>2. /\ job' \in Jobs /\ request' \in Acks /\ reply' \subseteq 1..MaxSequence
        /\ late' \subseteq Acks /\ pending' \in BOOLEAN /\ answered' \in BOOLEAN
        /\ AcksSound' /\ JobSound' /\ OnePlace' /\ ResponsesSound'
    BY <1>1, AbandonFacts
  <1>3. /\ instance' \in Instances /\ NoConfig \in Configs /\ NoConfig.state = "none"
        /\ inbound' \subseteq 1..MaxSequence /\ visited' \in BOOLEAN
    <2>1. instance' \in Instances
      BY <1>1, DownlinkBounds DEF TypeOK
    <2>2. NoConfig \in Configs /\ NoConfig.state = "none"
      BY DownlinkBounds DEF Configs, NoConfig
    <2> QED
      BY <1>1, <2>1, <2>2
  <1>4. TypeOK'
    BY <1>1, <1>2, <1>3 DEF TypeOK, history
  <1>5. IngestSound' /\ EffectsInOrder'
    BY <1>1, <1>3 DEF IngestSound, EffectsInOrder, history
  <1> QED
    BY <1>1, <1>2, <1>4, <1>5, StreamUntouched

\* A late request may be lost.
LEMMA LoseLateKeeps == IInv /\ LoseLate => IInv'
  <1> SUFFICES ASSUME IInv, LoseLate PROVE IInv'
    OBVIOUS
  <1> USE DEF IInv
  <1>1. late' \subseteq late /\ UNCHANGED <<server, request, reply, answered, device, history>>
    BY DEF LoseLate
  <1>2. TypeOK'
    BY <1>1 DEF TypeOK, server, device, history
  <1>3. AcksSound' /\ JobSound' /\ OnePlace' /\ ResponsesSound'
    BY <1>1 DEF AcksSound, JobSound, OnePlace, ResponsesSound, Continues, server, device
  <1> QED
    <2>1. UNCHANGED <<sent, rows, serverAck, draft, inbox, inbound, step, config, history>>
      BY <1>1 DEF server, device
    <2> QED
      BY <1>2, <1>3, <2>1, StreamUntouched, CommandsUntouched

\* An answer closes the operation and brings frames that follow the cursor.
LEMMA ReceiveKeeps == IInv /\ Receive => IInv'
  <1> SUFFICES ASSUME IInv, Receive PROVE IInv'
    OBVIOUS
  <1> USE DEF IInv
  <1>1. /\ pending /\ answered /\ inbound' = reply /\ visited' = FALSE /\ pending' = FALSE
        /\ reply' = {} /\ answered' = FALSE /\ bound' = NoAck
        /\ UNCHANGED <<server, request, late, inbox, instance, step, config, history>>
        /\ UNCHANGED <<sent, rows, serverAck, current, draft, job>>
    BY DEF Receive, server
  <1>2. TypeOK'
    BY <1>1, DownlinkBounds DEF TypeOK, history
  <1>3. ResponsesSound'
    BY <1>1 DEF ResponsesSound, Continues
  <1>4. step = "scan"
    BY <1>1 DEF AcksSound, IngestSound, TypeOK
  <1>5. IngestSound' /\ EffectsInOrder'
    BY <1>1, <1>4 DEF IngestSound, EffectsInOrder, history
  <1>6. AcksSound' /\ JobSound' /\ OnePlace'
    BY <1>1 DEF AcksSound, JobSound, OnePlace
  <1> QED
    BY <1>1, <1>2, <1>3, <1>5, <1>6, StreamUntouched

-----------------------------------------------------------------------------
(* The device ingests a response *)

\* The frame that is visited is the next one of the stream, and the exchange that
\* brought it is closed.
LEMMA FirstFrame ==
    ASSUME IInv, NEW s \in inbound, Visits(s)
    PROVE  /\ s = inbox + 1 /\ s \in 1..MaxSequence /\ s <= Len(sent) /\ sent[s] \in Frames
           /\ bound = NoAck /\ ~pending /\ request = NoAck /\ reply = {} /\ ~answered
           /\ ~job.live
  <1> USE DEF IInv
  <1>1. s \in Nat /\ s \in (inbox + 1)..Len(sent) /\ inbox + 1 \in inbound
    BY Numbers DEF ResponsesSound, Continues
  <1>2. s = inbox + 1
    BY <1>1, Numbers DEF Visits
  <1>3. sent[s] \in Frames /\ s \in 1..MaxSequence
    BY <1>1, <1>2, Numbers DEF TypeOK
  <1>4. bound = NoAck /\ ~pending /\ request = NoAck /\ ~job.live
    BY DEF AcksSound, JobSound
  <1>5. reply = {} /\ ~answered
    BY <1>4 DEF ResponsesSound
  <1> QED
    BY <1>1, <1>2, <1>3, <1>4, <1>5

\* A step of the device between two exchanges that does not move the cursor.
LEMMA IngestStep ==
    ASSUME IInv, UNCHANGED <<server, network, inbox, bound, instance, pending>>,
           inbound' \in {inbound, {}}, visited' \in BOOLEAN, step' \in {"scan", "consume"},
           config' \in Configs, applied' \subseteq 1..MaxSequence,
           rejected' \subseteq 1..MaxSequence, IngestSound', EffectsInOrder'
    PROVE  IInv'
  <1> USE DEF IInv
  <1>1. UNCHANGED <<sent, rows, serverAck, current, draft, job, request, reply, answered, late>>
    BY DEF server, network
  <1>2. inbound' \subseteq 1..MaxSequence
    BY DEF TypeOK
  <1>3. TypeOK'
    BY <1>1, <1>2 DEF TypeOK
  <1>4. AcksSound' /\ JobSound' /\ OnePlace'
    BY <1>1 DEF AcksSound, JobSound, OnePlace
  <1>5. ResponsesSound'
    BY <1>1 DEF ResponsesSound, Continues
  <1> QED
    BY <1>1, <1>3, <1>4, <1>5, StreamUntouched

\* Leaving the loop drops the rest of the response, which will be sent again.
LEMMA LeaveKeeps ==
    ASSUME IInv, Leave, UNCHANGED <<server, network, inbox, bound, instance, pending, config, history>>
    PROVE  IInv'
  <1> USE DEF IInv
  <1>1. /\ inbound' = {} /\ visited' = FALSE /\ step' = "scan" /\ sent' = sent
        /\ UNCHANGED <<applied, rejected>>
    BY DEF Leave, server, history
  <1>2. IngestSound' /\ EffectsInOrder'
    BY <1>1 DEF IngestSound, EffectsInOrder
  <1> QED
    BY <1>1, <1>2, IngestStep DEF TypeOK

\* The skip of old frames and the gap are never taken: what is passed over is the next
\* command, addressed to another instance.
LEMMA PassOverKeeps == IInv /\ PassOver => IInv'
  <1> SUFFICES ASSUME IInv, PassOver PROVE IInv'
    OBVIOUS
  <1>1. PICK s \in inbound : Visits(s) /\ (s <= inbox \/ Leave)
    BY DEF PassOver
  <1>2. ~(s <= inbox)
    BY <1>1, FirstFrame, Numbers DEF IInv
  <1> QED
    BY <1>1, <1>2, LeaveKeeps DEF PassOver

\* A visit that ends early.
LEMMA StopKeeps == IInv /\ (StopEarly \/ ApplyFails) => IInv'
  BY LeaveKeeps DEF StopEarly, ApplyFails

\* The effect, or the refusal, of the next command: no configuration command, so the
\* configuration thread is idle.
LEMMA EffectKeeps == IInv /\ (RejectCandidate \/ ApplyFrame) => IInv'
  <1> SUFFICES ASSUME IInv, RejectCandidate \/ ApplyFrame PROVE IInv'
    OBVIOUS
  <1> USE DEF IInv
  <1>1. PICK s \in inbound :
            /\ Visits(s) /\ sent[s].kind # "config"
            /\ applied' \in {applied, applied \cup {s}} /\ rejected' \in {rejected, rejected \cup {s}}
            /\ s \in applied' \cup rejected'
    <2>1. CASE RejectCandidate
      BY <2>1 DEF RejectCandidate
    <2>2. CASE ApplyFrame
      BY <2>2 DEF ApplyFrame
    <2> QED
      BY <2>1, <2>2
  <1>2. /\ step' = "consume"
        /\ UNCHANGED <<server, network, inbox, bound, instance, pending, inbound, visited, config>>
        /\ sent' = sent
    BY DEF RejectCandidate, ApplyFrame, server
  <1>3. s = inbox + 1 /\ s \in 1..MaxSequence
    BY <1>1, FirstFrame
  <1>4. config = NoConfig
    BY <1>1, <1>3 DEF IngestSound
  <1>5. applied' \subseteq 1..MaxSequence /\ rejected' \subseteq 1..MaxSequence
    BY <1>1, <1>3 DEF TypeOK
  <1>6. IngestSound'
    <2>1. inbound' # {} /\ config' = NoConfig /\ inbox' + 1 \in applied' \cup rejected'
      BY <1>1, <1>2, <1>3, <1>4
    <2>2. NoConfig.state # "done"
      BY DEF NoConfig
    <2> QED
      BY <2>1, <2>2 DEF IngestSound
  <1>7. EffectsInOrder'
    <2>1. \A t \in 1..inbox' : t \in applied' \/ t \in rejected'
      BY <1>1, <1>2 DEF EffectsInOrder
    <2>2. applied' \cup rejected' \subseteq 1..(inbox' + 1)
      BY <1>1, <1>2, <1>3, Numbers DEF EffectsInOrder
    <2> QED
      BY <1>2, <1>4, <2>1, <2>2 DEF EffectsInOrder
  <1> QED
    BY <1>2, <1>5, <1>6, <1>7, IngestStep DEF TypeOK

\* The configuration thread is started for the next command, or forgotten when it failed.
LEMMA StartConfigKeeps == IInv /\ StartConfig => IInv'
  <1> SUFFICES ASSUME IInv, StartConfig PROVE IInv'
    OBVIOUS
  <1> USE DEF IInv
  <1>1. PICK s \in inbound :
            /\ Visits(s) /\ sent[s].kind = "config"
            /\ config' = CASE config = NoConfig -> [sequence |-> s, state |-> "running"]
                           [] config = [sequence |-> s, state |-> "failed"] -> NoConfig
                           [] OTHER -> config
    BY DEF StartConfig
  <1>2. /\ inbound' = {} /\ visited' = FALSE /\ step' = "scan" /\ sent' = sent
        /\ UNCHANGED <<server, network, inbox, bound, instance, pending, history, applied, rejected>>
    BY DEF StartConfig, Leave, server, history
  <1>3. s = inbox + 1 /\ s \in 1..MaxSequence /\ s <= Len(sent)
    BY <1>1, FirstFrame
  <1> DEFINE run == [sequence |-> s, state |-> "running"]
  <1>4. NoConfig # [sequence |-> s, state |-> "failed"]
    BY DEF NoConfig
  <1>5. config' \in {run, NoConfig, config}
    BY <1>1, <1>4
  <1>6. /\ run \in Configs /\ NoConfig \in Configs /\ run.state = "running" /\ run.sequence = s
        /\ NoConfig.state = "none"
    BY <1>3, DownlinkBounds DEF Configs, NoConfig
  <1> HIDE DEF run
  <1>7. IngestSound'
    <2>1. inbox < Len(sent)
      BY <1>3, Numbers
    <2>2. CASE config' = run
      BY <1>1, <1>2, <1>3, <1>6, <2>1, <2>2 DEF IngestSound
    <2>3. CASE config' = NoConfig
      BY <1>2, <1>6, <2>3 DEF IngestSound
    <2>4. CASE config' = config
      BY <1>2, <2>4 DEF IngestSound
    <2> QED
      BY <1>5, <2>2, <2>3, <2>4
  <1>8. EffectsInOrder'
    BY <1>2, <1>3, <1>5, <1>6 DEF EffectsInOrder
  <1> QED
    BY <1>2, <1>5, <1>6, <1>7, <1>8, IngestStep DEF TypeOK

\* The thread commits its effect or fails.
LEMMA ConfigEndsKeeps == IInv /\ (ConfigDone \/ ConfigFails) => IInv'
  <1> SUFFICES ASSUME IInv, ConfigDone \/ ConfigFails PROVE IInv'
    OBVIOUS
  <1> USE DEF IInv
  <1>1. PICK to \in {"done", "failed"} :
            /\ config.state = "running" /\ config' = [config EXCEPT !.state = to]
            /\ applied' = IF to = "done" THEN applied \cup {config.sequence} ELSE applied
            /\ UNCHANGED <<server, network, inbox, bound, instance, pending, inbound, visited,
                           step, rejected, sent>>
    BY DEF ConfigDone, ConfigFails, history, server
  <1>2. /\ config' \in Configs /\ config'.state = to /\ config'.sequence = config.sequence
    BY <1>1 DEF TypeOK, Configs
  <1>3. /\ config # NoConfig /\ config.sequence = inbox + 1 /\ inbox < Len(sent)
        /\ sent[inbox + 1].kind = "config" /\ step = "scan"
    BY <1>1 DEF IngestSound, NoConfig, TypeOK
  <1>4. inbox + 1 \in 1..MaxSequence
    BY <1>3, Numbers
  <1>5. applied' \subseteq 1..MaxSequence /\ (to = "done" => inbox + 1 \in applied')
    BY <1>1, <1>3, <1>4 DEF TypeOK
  <1>6. IngestSound'
    BY <1>1, <1>2, <1>3, <1>5 DEF IngestSound
  <1>7. EffectsInOrder'
    <2>1. \A t \in 1..inbox' : t \in applied' \/ t \in rejected'
      BY <1>1 DEF EffectsInOrder
    <2>2. applied' \cup rejected' \subseteq 1..(inbox' + 1)
      BY <1>1, <1>3, Numbers DEF EffectsInOrder
    <2> QED
      BY <1>1, <1>2, <1>3, <2>1, <2>2 DEF EffectsInOrder
  <1> QED
    BY <1>1, <1>2, <1>5, <1>6, <1>7, IngestStep DEF TypeOK

\* The receipt of a configuration command that has run is collected.
LEMMA CollectConfigKeeps == IInv /\ CollectConfig => IInv'
  <1> SUFFICES ASSUME IInv, CollectConfig PROVE IInv'
    OBVIOUS
  <1> USE DEF IInv
  <1>1. PICK s \in inbound : Visits(s) /\ config = [sequence |-> s, state |-> "done"]
    BY DEF CollectConfig
  <1>2. /\ config' = NoConfig /\ step' = "consume" /\ UNCHANGED <<applied, rejected>>
        /\ UNCHANGED <<server, network, inbox, bound, instance, pending, inbound, visited>>
    BY DEF CollectConfig, history
  <1>3. inbox + 1 \in applied
    BY <1>1 DEF IngestSound
  <1>4. NoConfig \in Configs /\ NoConfig.state = "none"
    BY DownlinkBounds DEF Configs, NoConfig
  <1>5. IngestSound' /\ EffectsInOrder'
    BY <1>1, <1>2, <1>3, <1>4 DEF IngestSound, EffectsInOrder
  <1> QED
    BY <1>2, <1>4, <1>5, IngestStep DEF TypeOK

\* The cursor moves past the command whose effect has run.
LEMMA ConsumeKeeps == IInv /\ Consume => IInv' /\ inbox' = inbox + 1 /\ inbox < Len(sent)
  <1> SUFFICES ASSUME IInv, Consume PROVE IInv' /\ inbox' = inbox + 1 /\ inbox < Len(sent)
    OBVIOUS
  <1> USE DEF IInv
  <1>1. PICK s \in inbound : Visits(s) /\ inbox' = s /\ inbound' = inbound \ {s}
    BY DEF Consume
  <1>2. /\ step = "consume" /\ visited' = TRUE /\ step' = "scan"
        /\ UNCHANGED <<server, network, bound, instance, pending, config, history>>
        /\ UNCHANGED <<sent, rows, serverAck, current, draft, job, request, reply, answered,
                       late, applied, rejected>>
    BY DEF Consume, server, network, history
  <1>3. /\ s = inbox + 1 /\ s \in 1..MaxSequence /\ s <= Len(sent) /\ bound = NoAck
        /\ ~pending /\ request = NoAck /\ reply = {} /\ ~answered /\ ~job.live
    BY <1>1, FirstFrame
  <1>4. inbox' = inbox + 1 /\ inbox < Len(sent) /\ inbox \in Nat /\ inbox' \in Sequences0
    BY <1>1, <1>3, Numbers
  <1>5. TypeOK'
    BY <1>1, <1>2, <1>4 DEF TypeOK
  <1>6. RowsAreTheEnd' /\ DraftsFit'
    BY <1>2, <1>4, Numbers DEF RowsAreTheEnd, DraftsFit
  <1>7. AcksSound'
    BY <1>2, <1>3, <1>4, Numbers DEF AcksSound
  <1>8. JobSound' /\ OnePlace'
    BY <1>2, <1>3, <1>4, Numbers, DownlinkBounds DEF JobSound, OnePlace
  <1>9. ResponsesSound'
    <2>1. Continues(inbound)'
      <3> SUFFICES ASSUME NEW r \in inbound' PROVE r \in (inbox' + 1)..Len(sent')
                     /\ \A t \in (inbox' + 1)..r : t \in inbound'
        BY DEF Continues
      <3>1. r \in inbound /\ r # inbox + 1 /\ r \in (inbox + 1)..Len(sent)
            /\ \A t \in (inbox + 1)..r : t \in inbound
        BY <1>1, <1>3 DEF ResponsesSound, Continues
      <3> QED
        BY <1>1, <1>2, <1>3, <1>4, <3>1, Numbers
    <2>2. Continues(reply)'
      BY <1>2, <1>3 DEF Continues
    <2> QED
      BY <1>2, <1>3, <2>1, <2>2 DEF ResponsesSound
  <1>10. config = NoConfig /\ inbox + 1 \in applied \cup rejected /\ NoConfig.state = "none"
    BY <1>2 DEF IngestSound, NoConfig
  <1>11. IngestSound'
    BY <1>2, <1>10 DEF IngestSound
  <1>12. EffectsInOrder'
    BY <1>2, <1>4, <1>10 DEF EffectsInOrder
  <1> QED
    BY <1>4, <1>5, <1>6, <1>7, <1>8, <1>9, <1>11, <1>12

-----------------------------------------------------------------------------
(* The theorems *)

\* Every step of the handlers, the exchange, the device and the network keeps the
\* invariant.
LEMMA StepKeepsIInv == IInv /\ [Next]_vars => IInv'
  <1> SUFFICES ASSUME IInv, [Next]_vars PROVE IInv'
    OBVIOUS
  <1>1. CASE UNCHANGED vars
    <2>1. UNCHANGED <<sent, rows, serverAck, current, draft, job, network, device, history>>
      BY <1>1 DEF vars, server
    <2>2. UNCHANGED <<inbox, request>>
      BY <2>1 DEF device, network
    <2>3. TypeOK'
      BY <2>1 DEF IInv, TypeOK, network, device, history
    <2>4. JobSound' /\ OnePlace'
      BY <2>1 DEF IInv, JobSound, OnePlace, device, network
    <2> QED
      BY <2>1, <2>2, <2>3, <2>4, StreamUntouched, DeviceUntouched DEF IInv
  <1>2. ASSUME NEW h \in Handlers, Draft(h) \/ \E kind \in Kinds : AppendDraft(h, kind)
        PROVE  IInv'
    BY <1>2, DraftKeeps, AppendDraftKeeps
  <1>3. CASE HelloTaken \/ ServePending \/ ServeLate \/ AdvanceCursor \/ DeliverAndRetain \/ JobFails
    BY <1>3, HelloTakenKeeps, ServeKeeps, AdvanceCursorKeeps, DeliverAndRetainKeeps, JobFailsKeeps
  <1>4. CASE Send \/ ExchangeFails \/ LoseLate \/ Receive \/ Relaunch
    BY <1>4, SendKeeps, ExchangeFailsKeeps, LoseLateKeeps, ReceiveKeeps, RelaunchKeeps
  <1>5. CASE Ingest
    BY <1>5, PassOverKeeps, StopKeeps, EffectKeeps, StartConfigKeeps, CollectConfigKeeps,
       ConsumeKeeps DEF Ingest
  <1>6. CASE ConfigDone \/ ConfigFails
    BY <1>6, ConfigEndsKeeps
  <1> QED
    BY <1>1, <1>2, <1>3, <1>4, <1>5, <1>6 DEF Next

\* The inductive invariant holds in every reachable state.
THEOREM Invariance == Spec => []IInv
  BY InitIInv, StepKeepsIInv, PTL DEF Spec

\* Every variable keeps its type in every reachable state.
THEOREM TypeCorrect == Spec => []TypeOK
  <1>1. IInv => TypeOK
    BY DEF IInv
  <1> QED
    BY <1>1, Invariance, PTL

\* retain_through never deletes a command the device has not consumed.
THEOREM NothingDeletedEarly == Spec => []UnconsumedRetained
  <1>1. IInv => UnconsumedRetained
    <2> SUFFICES ASSUME IInv PROVE UnconsumedRetained
      OBVIOUS
    <2>1. ASSUME NEW s \in (inbox + 1)..Len(sent) PROVE s \in rows
      <3>1. s \in (serverAck + 1)..Len(sent)
        BY <2>1, Numbers DEF IInv, RowsAreTheEnd
      <3> QED
        BY <3>1 DEF IInv, RowsAreTheEnd
    <2> QED
      BY <2>1 DEF IInv, RowsAreTheEnd, UnconsumedRetained
  <1> QED
    BY <1>1, Invariance, PTL

\* The server refuses no acknowledgement of this device, however late or often it comes.
THEOREM RequestsAccepted == Spec => []NeverRefused
  <1>1. IInv => NeverRefused
    <2> SUFFICES ASSUME IInv PROVE NeverRefused
      OBVIOUS
    <2>1. request # NoAck => ~Refuses(request)
      BY AckAccepted, Numbers DEF IInv, AcksSound
    <2>2. \A ack \in late : ~Refuses(ack)
      BY AckAccepted, Numbers DEF IInv, AcksSound
    <2> QED
      BY <2>1, <2>2 DEF NeverRefused
  <1> QED
    BY <1>1, Invariance, PTL

\* The device never finds an old frame or a gap in a response.
THEOREM ResponsesContinue == Spec => []ResponseContinues
  <1>1. IInv => ResponseContinues
    <2> SUFFICES ASSUME IInv PROVE ResponseContinues
      OBVIOUS
    <2>1. ASSUME NEW S \in {inbound, reply}, S # {}
          PROVE  inbox + 1 \in S /\ \A s \in S : s > inbox
      <3>1. Continues(S)
        BY <2>1 DEF IInv, ResponsesSound
      <3>2. PICK s \in S : TRUE
        BY <2>1
      <3>3. inbox + 1 \in (inbox + 1)..s
        BY <3>1, Numbers DEF Continues, IInv
      <3> QED
        BY <3>1, <3>3, Numbers DEF Continues, IInv
    <2> QED
      BY <2>1 DEF ResponseContinues
  <1> QED
    BY <1>1, Invariance, PTL

\* Commands take effect in order: a crash can repeat the effect of the next one, never
\* skip or overtake one, and the configuration thread works for the next one only.
THEOREM EffectsOrdered == Spec => []EffectsInOrder
  <1>1. IInv => EffectsInOrder
    BY DEF IInv
  <1> QED
    BY <1>1, Invariance, PTL

\* Whatever is lost, late, repeated or cut short, the command stream, the device's cursor
\* and what it reported move as an ordered, exactly-once stream does.
THEOREM Refinement == Spec => ImplementsOrderedStream
  <1> USE DEF Stream!Init, Stream!Next, Stream!Send, Stream!Deliver, Stream!Confirm
  <1>1. Init => Stream!Init
    BY DEF Init
  <1>2. ASSUME IInv, [Next]_vars
        PROVE  [Stream!Next]_<<sent, inbox, serverAck>>
    <2> USE <1>2
    <2>1. ASSUME NEW h \in Handlers, NEW kind \in Kinds, AppendDraft(h, kind)
          PROVE  [Stream!Next]_<<sent, inbox, serverAck>>
      <3> DEFINE f == [instance |-> draft[h].instance, kind |-> kind]
      <3>1. UNCHANGED <<inbox, serverAck>>
        BY <2>1 DEF AppendDraft, device
      <3>2. f \in Frames
        BY <2>1 DEF IInv, TypeOK, Drafts, Frames
      <3>3. sent' \in {sent, Append(sent, f)}
        <4>1. NextSequence > Len(sent)
          BY StreamEnd, Numbers DEF IInv
        <4> QED
          BY <2>1, <4>1, StreamEnd, Numbers DEF AppendDraft, IInv
      <3> QED
        BY <3>1, <3>2, <3>3
    <2>2. CASE Consume
      BY <2>2, ConsumeKeeps DEF Consume, server
    <2>3. CASE AdvanceCursor
      BY <2>3, AdvanceCursorKeeps DEF AdvanceCursor, device
    <2>4. ASSUME NEW h \in Handlers, Draft(h) PROVE UNCHANGED <<sent, inbox, serverAck>>
      BY <2>4 DEF Draft, device
    <2>5. CASE HelloTaken \/ ServePending \/ ServeLate \/ DeliverAndRetain \/ JobFails
      BY <2>5 DEF HelloTaken, ServePending, ServeLate, DeliverAndRetain, JobFails, device
    <2>6. CASE Send \/ ExchangeFails \/ LoseLate \/ Receive \/ Relaunch
      BY <2>6 DEF Send, ExchangeFails, LoseLate, Receive, Relaunch, device, server
    <2>7. CASE \/ PassOver \/ RejectCandidate \/ ApplyFrame \/ ApplyFails \/ StartConfig
               \/ CollectConfig \/ StopEarly \/ ConfigDone \/ ConfigFails
      BY <2>7 DEF PassOver, RejectCandidate, ApplyFrame, ApplyFails, StartConfig, CollectConfig,
         StopEarly, ConfigDone, ConfigFails, server
    <2>8. CASE UNCHANGED vars
      BY <2>8 DEF vars, server, device
    <2> QED
      BY <2>1, <2>2, <2>3, <2>4, <2>5, <2>6, <2>7, <2>8 DEF Next, Ingest
  <1> QED
    BY <1>1, <1>2, Invariance, PTL DEF Spec, ImplementsOrderedStream, Stream!Spec
=============================================================================
