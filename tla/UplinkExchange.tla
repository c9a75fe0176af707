---------------------------- MODULE UplinkExchange ----------------------------
(***************************************************************************)
(* The device-to-server half of the control exchange: a device daemon      *)
(* keeps a durable, densely numbered outbox and posts batches of it; the   *)
(* server settles each batch frame by frame against durable cursors.       *)
(*                                                                         *)
(* A request may be lost, answered after the device gave up on it, or be   *)
(* processed long after it was abandoned.  The device may be relaunched    *)
(* (a new instance of the same node) at any point, and the server may fail *)
(* between any two of its transactions.                                    *)
(*                                                                         *)
(* A frame's sequence number is its index in "outbox": the durable rows    *)
(* are never deleted (compaction only marks them published), so a request  *)
(* is the pair of the first and the last sequence it carries.              *)
(***************************************************************************)
EXTENDS Naturals, Sequences, FiniteSets

CONSTANTS
    Keys,          \* idempotency keys a command frame may carry
    NoKey,         \* "this frame is a report, not a command"
    MaxSequence,   \* bound: frames ever enqueued
    MaxInstance,   \* bound: launches of the device
    MaxFrames,     \* max_frames_per_exchange
    MaxLate,       \* bound: abandoned requests still on their way
    AdminCli       \* may `wwc device` / `wwc repo` commands enqueue frames?

ASSUME KeyAssumption == NoKey \notin Keys

ASSUME BoundAssumption ==
    /\ MaxSequence \in Nat /\ MaxInstance \in Nat \ {0}
    /\ MaxFrames \in Nat \ {0} /\ MaxLate \in Nat
    /\ AdminCli \in BOOLEAN

Instances == 1..MaxInstance
Sequences0 == 0..MaxSequence
Kinds == {"hello", "report", "command"}
Frames == [instance : Instances, kind : Kinds, key : Keys \cup {NoKey}]
Requests == [first : Sequences0, last : Sequences0]
NoRequest == [first |-> 0, last |-> 0]
Responses == [ack : Sequences0, hint : 0..(MaxSequence + 2)]
NoResponse == [ack |-> 0, hint |-> MaxSequence + 2]

VARIABLES
    \* device, durable: client_outbox rows and the network journal
    outbox,         \* sequence of frames; index = envelope sequence
    acked,          \* highest published row
    frozen,         \* first sequence -> last sequence bound to it, 0 if none
    \* an administration command running beside the daemon
    admin,          \* the instance it read from the identity row, 0 if none
    \* device, volatile
    instance,       \* identity of the running launch
    announced,      \* hello_announced
    deliveryCursor, \* delivery_cursor
    pending,        \* the request the daemon is blocked on
    response,       \* a response received and journalled, not applied yet
    \* network
    request,        \* the pending request, not yet taken by the server
    reply,          \* the response to the pending request
    late,           \* abandoned requests the server may still process
    \* server, durable: registry, cursors, exchange frames and commands
    current,        \* client_nodes.current_instance_id
    cursor,         \* client_to_server_ack_sequence
    completed,      \* client_exchange_frames with completed = 1
    settled,        \* client_exchange_commands with completed = 1
    \* server, volatile: the exchange holding exchange_lock
    job,
    \* history
    applied         \* sequences whose effect has been committed

deviceDurable == <<outbox, acked, frozen>>
deviceVolatile == <<instance, announced, deliveryCursor, pending, response, admin>>
network == <<request, reply, late>>
serverDurable == <<current, cursor, completed, settled, applied>>
vars == <<deviceDurable, deviceVolatile, network, serverDurable, job>>

Phases == {"none", "frame", "effect", "complete", "respond"}
Jobs == [first : Sequences0, last : Sequences0,
         next : 0..(MaxSequence + 1), live : BOOLEAN,
         effective : Instances, settler : Instances,
         start : Sequences0, ack : Sequences0,
         hint : 0..(MaxSequence + 1), phase : Phases]
NoJob == [first |-> 0, last |-> 0, next |-> 0, live |-> FALSE,
          effective |-> 1, settler |-> 1, start |-> 0, ack |-> 0,
          hint |-> 0, phase |-> "none"]

Larger(a, b) == IF a >= b THEN a ELSE b
Smaller(a, b) == IF a <= b THEN a ELSE b

TypeOK ==
    /\ outbox \in Seq(Frames) /\ Len(outbox) \in Sequences0
    /\ acked \in Sequences0
    /\ frozen \in [1..MaxSequence -> Sequences0]
    /\ instance \in Instances /\ announced \in BOOLEAN
    /\ deliveryCursor \in Sequences0 /\ admin \in Instances \cup {0}
    /\ pending \in Requests /\ request \in Requests
    /\ response \in Responses /\ reply \in Responses
    /\ late \subseteq Requests
    /\ current \in Instances /\ cursor \in Sequences0
    /\ completed \subseteq 1..MaxSequence /\ applied \subseteq 1..MaxSequence
    /\ settled \subseteq Keys
    /\ job \in Jobs

(***************************************************************************)
(* The enrolled device starts with an empty stream: enrolment registered   *)
(* the first instance, and the sequences it consumed are left out.         *)
(***************************************************************************)
Init ==
    /\ outbox = <<>> /\ acked = 0
    /\ frozen = [s \in 1..MaxSequence |-> 0]
    /\ instance = 1 /\ announced = FALSE /\ deliveryCursor = 0
    /\ admin = 0
    /\ pending = NoRequest /\ response = NoResponse
    /\ request = NoRequest /\ reply = NoResponse /\ late = {}
    /\ current = 1 /\ cursor = 0
    /\ completed = {} /\ settled = {} /\ applied = {}
    /\ job = NoJob
-----------------------------------------------------------------------------
(* Device *)

Idle == pending = NoRequest /\ response = NoResponse

\* OutboxSession.enqueue: the next dense sequence, stamped with the sender.  The
\* bound keeps the last place for the Hello a launch still has to enqueue.
AppendFrame(sender, kind, key) ==
    /\ Len(outbox) < MaxSequence
    /\ kind = "hello" \/ announced \/ Len(outbox) + 1 < MaxSequence
    /\ outbox' = Append(outbox, [instance |-> sender, kind |-> kind, key |-> key])

\* The first tick of a launch enqueues Hello before anything else.
Announce ==
    /\ Idle /\ ~announced
    /\ AppendFrame(instance, "hello", NoKey)
    /\ announced' = TRUE
    /\ UNCHANGED <<acked, frozen, instance, deliveryCursor, pending, response,
                   admin, network, serverDurable, job>>

\* Heartbeats, reports and command replies.  A downlink effect that is replayed
\* after a crash enqueues the same command again, under the same key.
Enqueue(kind, key) ==
    /\ Idle /\ announced
    /\ AppendFrame(instance, kind, key)
    /\ UNCHANGED <<acked, frozen, deviceVolatile, network, serverDurable, job>>

\* `wwc device code refresh` and `wwc repo add` open the store in a process of
\* their own: they read the instance from the identity row ...
AdminOpen ==
    /\ AdminCli /\ admin = 0
    /\ admin' = instance
    /\ UNCHANGED <<deviceDurable, instance, announced, deliveryCursor, pending,
                   response, network, serverDurable, job>>

\* ... and append a command frame stamped with it, whatever the daemon does.
AdminEnqueue(key) ==
    /\ admin # 0
    /\ AppendFrame(admin, "command", key)
    /\ admin' = 0
    /\ UNCHANGED <<acked, frozen, instance, announced, deliveryCursor, pending,
                   response, network, serverDurable, job>>

\* Mutant: the cursor is taken for the first deliverable row.
FirstDeliverableOffByOne == Larger(deliveryCursor, acked) + 2

\* First row that deliverable() returns: unpublished and after the cursor.
FirstDeliverable == Larger(deliveryCursor, acked) + 1

\* bind_envelope freezes the end of the batch on the first attempt of the
\* operation named by its first sequence; every retry replays that batch.
BoundLast(first) ==
    IF frozen[first] # 0
    THEN frozen[first]
    ELSE Smaller(first + MaxFrames - 1, Len(outbox))

Send ==
    /\ Idle /\ announced
    /\ FirstDeliverable <= Len(outbox)
    /\ LET r == [first |-> FirstDeliverable, last |-> BoundLast(FirstDeliverable)]
       IN  /\ frozen' = [frozen EXCEPT ![r.first] = r.last]
           /\ pending' = r
           /\ request' = r
    /\ UNCHANGED <<outbox, acked, instance, announced, deliveryCursor, response,
                   admin, reply, late, serverDurable, job>>

\* What becomes of the pending request when the device stops waiting for it: a
\* request the server has taken runs on unanswered, one on its way is lost or late.
Abandon ==
    /\ request' = NoRequest /\ reply' = NoResponse
    /\ job' = [job EXCEPT !.live = FALSE]
    /\ \/ late' = late
       \/ /\ request # NoRequest
          /\ Cardinality(late \cup {request}) <= MaxLate
          /\ late' = late \cup {request}

\* The transport fails or times out: the journal keeps the frozen envelope.
ExchangeFails ==
    /\ pending # NoRequest
    /\ pending' = NoRequest
    /\ Abandon
    /\ UNCHANGED <<deviceDurable, instance, announced, deliveryCursor, response,
                   admin, serverDurable>>

\* Mutant: a successful exchange leaves its envelope bound.
ReceiveKeepingEnvelope ==
    /\ pending # NoRequest /\ reply # NoResponse
    /\ response' = reply
    /\ pending' = NoRequest /\ reply' = NoResponse
    /\ UNCHANGED <<deviceDurable, instance, announced, deliveryCursor, admin,
                   request, late, serverDurable, job>>

\* finish() forgets the operation before the response is applied.
Receive ==
    /\ pending # NoRequest /\ reply # NoResponse
    /\ response' = reply
    /\ frozen' = [frozen EXCEPT ![pending.first] = 0]
    /\ pending' = NoRequest /\ reply' = NoResponse
    /\ UNCHANGED <<outbox, acked, instance, announced, deliveryCursor, admin,
                   request, late, serverDurable, job>>

\* Mutant: an acknowledgement of the whole stream counts as ahead of it.
ApplyAcceptedStrictly ==
    IF response.ack >= Len(outbox) \/ response.ack < acked
    THEN UNCHANGED <<acked, deliveryCursor>>
    ELSE acked' = response.ack /\ deliveryCursor' = response.ack

\* apply_accepted: acknowledge, compact_confirmed and delivery_cursor; an
\* acknowledgement ahead of the stream or behind the durable one is a
\* retriable failure that changes nothing.
ApplyAccepted ==
    IF response.ack > Len(outbox) \/ response.ack < acked
    THEN UNCHANGED <<acked, deliveryCursor>>
    ELSE acked' = response.ack /\ deliveryCursor' = response.ack

\* apply_gap: the server asked for a replay; only the delivery cursor moves.
ApplyGap ==
    /\ deliveryCursor' = IF response.hint > Len(outbox) + 1
                         THEN deliveryCursor ELSE response.hint - 1
    /\ UNCHANGED acked

ApplyResponse ==
    /\ response # NoResponse
    /\ response' = NoResponse
    /\ IF response.hint = 0 THEN ApplyAccepted ELSE ApplyGap
    /\ UNCHANGED <<outbox, frozen, instance, announced, pending, admin, network,
                   serverDurable, job>>

\* Crash or restart: durable rows survive, the new launch has a new instance
\* identity, an unannounced stream and a delivery cursor of zero.
Relaunch ==
    /\ instance < MaxInstance /\ Len(outbox) < MaxSequence
    /\ instance' = instance + 1 /\ announced' = FALSE /\ deliveryCursor' = 0
    /\ pending' = NoRequest /\ response' = NoResponse
    /\ Abandon
    /\ UNCHANGED <<deviceDurable, admin, serverDurable>>
-----------------------------------------------------------------------------
(* Server *)

\* client_exchange up to its frame loop: the effective instance and the cursor
\* are read once, when the exchange takes the lock.
StartJob(r, live) ==
    job' = [first |-> r.first, last |-> r.last, next |-> r.first, live |-> live,
            effective |-> current, settler |-> current,
            start |-> cursor, ack |-> cursor, hint |-> 0, phase |-> "frame"]

ServePending ==
    /\ job.phase = "none" /\ request # NoRequest
    /\ StartJob(request, TRUE)
    /\ request' = NoRequest
    /\ UNCHANGED <<deviceDurable, deviceVolatile, reply, late, serverDurable>>

ServeLate ==
    /\ job.phase = "none"
    /\ \E r \in late : StartJob(r, FALSE) /\ late' = late \ {r}
    /\ UNCHANGED <<deviceDurable, deviceVolatile, request, reply, serverDurable>>

\* AckCursor.observe
Observe(ack, s) ==
    IF s = 0 THEN "zero"
    ELSE IF s = ack + 1 THEN "accept"
    ELSE IF s > ack + 1 THEN "gap" ELSE "duplicate"

\* BatchSettler.ingest
Ingest(settler, ack, f, s) ==
    IF settler # f.instance THEN "refused" ELSE Observe(ack, s)

\* A Hello of another instance than the effective one takes the stream over.
TakesOver(f) == f.kind = "hello" /\ f.instance # job.effective

\* Mutant: the reservation looks at the frame row only, not at its command.
AlreadyDoneByFrame(f, s) == s \in completed

\* reserve_exchange_frame: is the frame, or its command, already settled?
AlreadyDone(f, s) == s \in completed \/ f.key \in settled

\* Mutant: off by one against the cursor the exchange started from.
NeedsEffectLate(f, s) == ~AlreadyDone(f, s) /\ s > job.start + 1

NeedsEffect(f, s) == ~AlreadyDone(f, s) /\ s > job.start

SettleFrame ==
    /\ job.phase = "frame" /\ job.next <= job.last
    /\ LET f == outbox[job.next]
           owner == IF TakesOver(f) THEN f.instance ELSE job.settler
           verdict == Ingest(owner, job.ack, f, job.next)
           step == IF NeedsEffect(f, job.next) THEN "effect" ELSE "complete"
       IN  /\ current' = IF TakesOver(f) THEN f.instance ELSE current
           /\ job' = [job EXCEPT
                !.settler = owner,
                !.ack = IF verdict = "accept" THEN job.next ELSE @,
                !.hint = IF verdict = "gap" THEN job.ack + 1 ELSE @,
                !.phase = IF verdict \in {"accept", "duplicate"} THEN step ELSE "respond"]
    /\ UNCHANGED <<deviceDurable, deviceVolatile, network, cursor, completed,
                   settled, applied>>

\* apply_effect_with_status; the effect of Hello registers its instance again.
\* A rejected command is decided here too: its refusal is its effect.
ApplyEffect ==
    /\ job.phase = "effect"
    /\ applied' = applied \cup {job.next}
    /\ current' = IF outbox[job.next].kind = "hello"
                  THEN outbox[job.next].instance ELSE current
    /\ job' = [job EXCEPT !.phase = "complete"]
    /\ UNCHANGED <<deviceDurable, deviceVolatile, network, cursor, completed, settled>>

\* Mutant: the first frame of a batch moves the cursor past the whole batch.
CompleteBatch ==
    /\ job.phase = "complete"
    /\ completed' = completed \cup {job.next}
    /\ settled' = settled \cup ({outbox[job.next].key} \ {NoKey})
    /\ cursor' = Larger(cursor, job.last)
    /\ job' = [job EXCEPT !.phase = "frame", !.next = @ + 1]
    /\ UNCHANGED <<deviceDurable, deviceVolatile, network, current, applied>>

\* Mutant: a report is recorded in the command table like a command.
CompleteAnyKey ==
    /\ job.phase = "complete"
    /\ completed' = completed \cup {job.next}
    /\ settled' = settled \cup {outbox[job.next].key}
    /\ cursor' = Larger(cursor, job.next)
    /\ job' = [job EXCEPT !.phase = "frame", !.next = @ + 1]
    /\ UNCHANGED <<deviceDurable, deviceVolatile, network, current, applied>>

\* complete_exchange_frame_with_reply: one transaction.
CompleteFrame ==
    /\ job.phase = "complete"
    /\ completed' = completed \cup {job.next}
    /\ settled' = settled \cup ({outbox[job.next].key} \ {NoKey})
    /\ cursor' = Larger(cursor, job.next)
    /\ job' = [job EXCEPT !.phase = "frame", !.next = @ + 1]
    /\ UNCHANGED <<deviceDurable, deviceVolatile, network, current, applied>>

\* Mutant: the response acknowledges the batch, not the settled prefix of it.
RespondWithBatchEnd ==
    /\ job.phase = "respond" \/ (job.phase = "frame" /\ job.next > job.last)
    /\ cursor' = Larger(cursor, job.ack)
    /\ reply' = IF job.live THEN [ack |-> job.last, hint |-> job.hint] ELSE reply
    /\ job' = NoJob
    /\ UNCHANGED <<deviceDurable, deviceVolatile, request, late, current,
                   completed, settled, applied>>

\* advance_exchange_cursors and the response.
Respond ==
    /\ job.phase = "respond" \/ (job.phase = "frame" /\ job.next > job.last)
    /\ cursor' = Larger(cursor, job.ack)
    /\ reply' = IF job.live THEN [ack |-> job.ack, hint |-> job.hint] ELSE reply
    /\ job' = NoJob
    /\ UNCHANGED <<deviceDurable, deviceVolatile, request, late, current,
                   completed, settled, applied>>

\* A storage error, or the end of the process, between two transactions.
JobFails ==
    /\ job.phase # "none"
    /\ job' = NoJob
    /\ UNCHANGED <<deviceDurable, deviceVolatile, network, serverDurable>>

\* A late request is never delivered.
LoseLate ==
    /\ \E r \in late : late' = late \ {r}
    /\ UNCHANGED <<deviceDurable, deviceVolatile, request, reply, serverDurable, job>>
-----------------------------------------------------------------------------
Device ==
    \/ Announce
    \/ Enqueue("report", NoKey)
    \/ \E k \in Keys : Enqueue("command", k)
    \/ Send \/ ExchangeFails \/ Receive \/ ApplyResponse \/ Relaunch
    \/ AdminOpen
    \/ \E k \in Keys : AdminEnqueue(k)

Server ==
    \/ ServePending \/ ServeLate \/ SettleFrame \/ ApplyEffect
    \/ CompleteFrame \/ Respond \/ JobFails \/ LoseLate

Next == Device \/ Server

Spec == Init /\ [][Next]_vars

(***************************************************************************)
(* The daemon loop and the server's exchange handler keep taking steps; no *)
(* fairness is asked of failures, late requests or administration.         *)
(***************************************************************************)
Fairness ==
    /\ WF_vars(Announce) /\ WF_vars(Send) /\ WF_vars(ExchangeFails)
    /\ WF_vars(Receive) /\ WF_vars(ApplyResponse)
    /\ WF_vars(ServePending) /\ WF_vars(SettleFrame) /\ WF_vars(ApplyEffect)
    /\ WF_vars(CompleteFrame) /\ WF_vars(Respond)

FairSpec == Spec /\ Fairness
-----------------------------------------------------------------------------
(* Properties *)

\* The device forgets only what the server has durably taken: the published
\* prefix of the outbox never passes the server's cursor, and the cursor never
\* passes the stream (record_acknowledgement, complete_exchange_frame).
ConfirmedIsDelivered == acked <= cursor /\ cursor <= Len(outbox)

\* Every frame the server's cursor has passed has had its effect, its own or
\* that of an earlier frame with the same idempotency key; and at most one
\* frame, the next one, can have an effect the cursor does not record yet.
CursorCoversEffects ==
    /\ \A s \in 1..cursor :
          \/ s \in applied
          \/ \E t \in applied : t < s /\ outbox[t].key = outbox[s].key /\ outbox[s].key # NoKey
    /\ applied \subseteq 1..(cursor + 1)

\* A command has its effect under one sequence only, however often a replayed
\* downlink effect enqueues it again (client_exchange_commands).
CommandAppliedOnce ==
    \A s, t \in applied :
        s # t /\ outbox[s].key = outbox[t].key => outbox[s].key = NoKey

\* The daemon and the server together never produce a gap: no request, however
\* late, starts beyond the frame the server expects, so the replay path of the
\* protocol is pure defence.
NeverGaps == job.hint = 0 /\ (reply # NoResponse => reply.hint = 0)

\* The network journal holds at most one open operation, and it is the one that
\* starts at the first unconfirmed frame: a retry replays that batch exactly,
\* never a longer one under the same operation key.
OneOpenOperation ==
    \A s \in 1..MaxSequence : frozen[s] # 0 =>
        /\ s = acked + 1
        /\ frozen[s] \in s..Len(outbox)
        /\ pending # NoRequest => pending = [first |-> s, last |-> frozen[s]]

\* The exchange implements an ordered, exactly-once stream of frames.
Stream == INSTANCE OrderedStream WITH
    Frame <- Frames, sent <- outbox, delivered <- cursor, confirmed <- acked
ImplementsOrderedStream == Stream!Spec

\* The device gives up an exchange that could still have been answered.
CutShort == ExchangeFails /\ (request # NoRequest \/ reply # NoResponse \/ job.live)

\* Whatever was lost, late or half done before: once exchanges are no longer cut
\* short and the server no longer fails, every frame ever enqueued is confirmed
\* (the retained outbox, the frozen envelope and the idempotent settlement of a
\* replayed batch make the retry loop converge).
EventuallyConfirmed ==
    <>[][~CutShort /\ ~JobFails]_vars
        => \A s \in 1..MaxSequence : Len(outbox) >= s ~> acked >= s

\* The same across relaunches, when the server ends up with the running launch as
\* its current instance and no administration command outlives the launch it was
\* started under: what earlier launches left in the outbox is confirmed too.
ConfirmedAcrossLaunches ==
    <>[](current = instance) /\ [](admin \in {0, instance}) => EventuallyConfirmed
=============================================================================
