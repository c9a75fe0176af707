--------------------------- MODULE DownlinkExchange ---------------------------
(***************************************************************************)
(* The server-to-device half of the control exchange.  Request handlers    *)
(* of the server append command frames to a durable downlink outbox; a     *)
(* device carries them away in the responses to its exchanges, applies     *)
(* them one by one and moves a durable inbox cursor, which its next        *)
(* exchange reports back.  The server deletes what has been reported.      *)
(*                                                                         *)
(* The uplink is reduced to what the downlink sees of it: there is always  *)
(* a heartbeat to exchange, and the Hello of a launch reaches the registry *)
(* some time after the launch.                                             *)
(***************************************************************************)
EXTENDS Naturals, Sequences, FiniteSets, FiniteSetsExt

CONSTANTS
    Handlers,      \* server threads that append command frames
    MaxSequence,   \* bound: frames ever appended
    MaxInstance,   \* bound: launches of the device
    MaxFrames,     \* max_frames_per_exchange
    MaxLate        \* bound: abandoned requests still on their way

ASSUME DownlinkBounds ==
    /\ MaxSequence \in Nat /\ MaxInstance \in Nat \ {0}
    /\ MaxFrames \in Nat \ {0} /\ MaxLate \in Nat

Instances == 1..MaxInstance
Sequences0 == 0..MaxSequence
NoAck == MaxSequence + 1
Acks == Sequences0 \cup {NoAck}

\* What tells the downlink commands apart: "candidate" is refused and consumed
\* when its authority is stale, "repository" and "config" insist on the instance
\* they are addressed to, "config" runs on a thread, "plain" is everything else.
Kinds == {"plain", "candidate", "repository", "config"}
Frames == [instance : Instances, kind : Kinds]
NoDraft == [sequence |-> 0, instance |-> 1]
Drafts == [sequence : 0..(MaxSequence + 1), instance : Instances]

Phases == {"none", "advance", "deliver"}
Jobs == [phase : Phases, ack : Acks, live : BOOLEAN]
NoJob == [phase |-> "none", ack |-> NoAck, live |-> FALSE]

VARIABLES
    \* server, durable
    sent,       \* history: the frame first appended at each sequence
    rows,       \* client_downlink_frames: the sequences still stored
    serverAck,  \* server_to_client_ack_sequence
    current,    \* client_nodes.current_instance_id
    \* server, volatile
    draft,      \* per handler: the frame it has built, not appended yet
    job,        \* the exchange holding exchange_lock
    \* network
    request,    \* the acknowledgement carried by the pending request
    reply,      \* sequences carried by the response, if answered
    answered,
    late,       \* acknowledgements of abandoned requests
    \* device, durable
    inbox,      \* client_inbox_cursor
    bound,      \* acknowledgement frozen in the journal, NoAck if none
    \* device, volatile
    instance, pending,
    inbound,    \* frames of the response still to be visited
    visited,    \* has this response been visited before?
    step,       \* "scan", or "consume" once the first frame has been applied
    config,     \* configuration_pending: [sequence, state]
    \* history
    applied,    \* sequences whose effect has run
    rejected    \* sequences refused with a stale-authority acknowledgement

server == <<sent, rows, serverAck, current, draft, job>>
network == <<request, reply, answered, late>>
device == <<inbox, bound, instance, pending, inbound, visited, step, config>>
history == <<applied, rejected>>
vars == <<server, network, device, history>>

NoConfig == [sequence |-> 0, state |-> "none"]
Configs == [sequence : Sequences0, state : {"none", "running", "done", "failed"}]

Larger(a, b) == IF a >= b THEN a ELSE b

TypeOK ==
    /\ sent \in Seq(Frames) /\ Len(sent) \in Sequences0
    /\ rows \subseteq 1..MaxSequence /\ serverAck \in Sequences0
    /\ current \in Instances /\ draft \in [Handlers -> Drafts] /\ job \in Jobs
    /\ request \in Acks /\ reply \subseteq 1..MaxSequence /\ answered \in BOOLEAN
    /\ late \subseteq Acks
    /\ inbox \in Sequences0 /\ bound \in Acks /\ instance \in Instances
    /\ pending \in BOOLEAN /\ inbound \subseteq 1..MaxSequence
    /\ visited \in BOOLEAN /\ step \in {"scan", "consume"} /\ config \in Configs
    /\ applied \subseteq 1..MaxSequence /\ rejected \subseteq 1..MaxSequence

Init ==
    /\ sent = <<>> /\ rows = {} /\ serverAck = 0 /\ current = 1
    /\ draft = [h \in Handlers |-> NoDraft] /\ job = NoJob
    /\ request = NoAck /\ reply = {} /\ answered = FALSE /\ late = {}
    /\ inbox = 0 /\ bound = NoAck /\ instance = 1 /\ pending = FALSE
    /\ inbound = {} /\ visited = FALSE /\ step = "scan" /\ config = NoConfig
    /\ applied = {} /\ rejected = {}
-----------------------------------------------------------------------------
(* Server: handlers *)

HighWater == IF rows = {} THEN 0 ELSE Max(rows)

\* next_sequence_in_transaction: past every stored row and everything reported.
NextSequence == Larger(serverAck, HighWater) + 1

\* A handler reads the node and the stream position and builds its frame, whose
\* kind matters only once it is appended ...
Draft(h) ==
    /\ draft[h] = NoDraft /\ NextSequence <= MaxSequence
    /\ draft' = [draft EXCEPT ![h] = [sequence |-> NextSequence, instance |-> current]]
    /\ UNCHANGED <<sent, rows, serverAck, current, job, network, device, history>>

\* Mutant: the position read before is not compared again.
AppendUnchecked(h, kind) ==
    /\ draft[h] # NoDraft
    /\ draft' = [draft EXCEPT ![h] = NoDraft]
    /\ LET s == draft[h].sequence
           f == [instance |-> draft[h].instance, kind |-> kind]
       IN  /\ rows' = rows \cup {s}
           /\ sent' = IF s <= Len(sent) THEN [sent EXCEPT ![s] = f] ELSE Append(sent, f)
    /\ UNCHANGED <<serverAck, current, job, network, device, history>>

\* ... and appends it later, unless the stream has moved on.  A sequence that was
\* used before would replace the frame the history remembers.
AppendDraft(h, kind) ==
    /\ draft[h] # NoDraft
    /\ draft' = [draft EXCEPT ![h] = NoDraft]
    /\ LET s == draft[h].sequence
           f == [instance |-> draft[h].instance, kind |-> kind]
       IN  IF s = NextSequence
           THEN /\ rows' = rows \cup {s}
                /\ sent' = IF s <= Len(sent) THEN [sent EXCEPT ![s] = f] ELSE Append(sent, f)
           ELSE UNCHANGED <<rows, sent>>
    /\ UNCHANGED <<serverAck, current, job, network, device, history>>

\* The Hello of the running launch is settled.
HelloTaken ==
    /\ current # instance
    /\ current' = instance
    /\ UNCHANGED <<sent, rows, serverAck, draft, job, network, device, history>>
-----------------------------------------------------------------------------
(* Server: exchange *)

\* Mutant: the check forgets that reported rows have been deleted.
RefusesAboveRows(ack) == ack > HighWater

\* An acknowledgement ahead of everything ever appended is an invalid request.
Refuses(ack) == ack > Larger(serverAck, HighWater)

TakeRequest(ack, live) ==
    job' = IF Refuses(ack) THEN job ELSE [phase |-> "advance", ack |-> ack, live |-> live]

ServePending ==
    /\ job = NoJob /\ request # NoAck
    /\ TakeRequest(request, TRUE)
    /\ request' = NoAck
    /\ UNCHANGED <<sent, rows, serverAck, current, draft, reply, answered, late,
                   device, history>>

ServeLate ==
    /\ job = NoJob
    /\ \E ack \in late : TakeRequest(ack, FALSE) /\ late' = late \ {ack}
    /\ UNCHANGED <<sent, rows, serverAck, current, draft, request, reply, answered,
                   device, history>>

\* Mutant: the cursor moves by what is reported instead of to it.
AdvanceCursorBy ==
    /\ job.phase = "advance"
    /\ serverAck' = serverAck + job.ack
    /\ job' = [job EXCEPT !.phase = "deliver"]
    /\ UNCHANGED <<sent, rows, current, draft, network, device, history>>

\* advance_exchange_cursors
AdvanceCursor ==
    /\ job.phase = "advance"
    /\ serverAck' = Larger(serverAck, job.ack)
    /\ job' = [job EXCEPT !.phase = "deliver"]
    /\ UNCHANGED <<sent, rows, current, draft, network, device, history>>

\* Mutant: deliverable() starts at the cursor instead of after it.
DeliverableFrom ==
    {s \in rows : s >= serverAck /\ Cardinality({t \in rows : serverAck <= t /\ t <= s}) <= MaxFrames}

\* deliverable(): the oldest stored rows after the reported cursor.
Deliverable ==
    {s \in rows : s > serverAck /\ Cardinality({t \in rows : serverAck < t /\ t <= s}) <= MaxFrames}

\* Mutant: what is being delivered is deleted with what has been reported.
RetainedAfterDelivery == {s \in rows : s > serverAck} \ Deliverable

\* retain_through deletes the rows the device has reported.
Retained == {s \in rows : s > serverAck}

DeliverAndRetain ==
    /\ job.phase = "deliver"
    /\ reply' = IF job.live THEN Deliverable ELSE reply
    /\ answered' = (answered \/ job.live)
    /\ rows' = Retained
    /\ job' = NoJob
    /\ UNCHANGED <<sent, serverAck, current, draft, request, late, device, history>>

\* A storage error, or the end of the process, between two transactions.
JobFails ==
    /\ job # NoJob
    /\ job' = NoJob
    /\ UNCHANGED <<sent, rows, serverAck, current, draft, network, device, history>>
-----------------------------------------------------------------------------
(* Device: exchange *)

Idle == ~pending /\ inbound = {}

\* bind_envelope freezes the acknowledgement of the operation's first attempt.
Send ==
    /\ Idle
    /\ LET ack == IF bound = NoAck THEN inbox ELSE bound
       IN  bound' = ack /\ request' = ack
    /\ pending' = TRUE
    /\ UNCHANGED <<server, reply, answered, late, inbox, instance, inbound, visited,
                   step, config, history>>

Abandon ==
    /\ pending' = FALSE /\ request' = NoAck /\ reply' = {} /\ answered' = FALSE
    /\ job' = IF job = NoJob THEN job ELSE [job EXCEPT !.live = FALSE]
    /\ \/ late' = late
       \/ /\ request # NoAck
          /\ Cardinality(late \cup {request}) <= MaxLate
          /\ late' = late \cup {request}

ExchangeFails ==
    /\ pending
    /\ Abandon
    /\ UNCHANGED <<sent, rows, serverAck, current, draft, inbox, bound, instance,
                   inbound, visited, step, config, history>>

LoseLate ==
    /\ \E ack \in late : late' = late \ {ack}
    /\ UNCHANGED <<server, request, reply, answered, device, history>>

Receive ==
    /\ pending /\ answered
    /\ inbound' = reply /\ visited' = FALSE
    /\ pending' = FALSE /\ reply' = {} /\ answered' = FALSE
    /\ bound' = NoAck
    /\ UNCHANGED <<server, request, late, inbox, instance, step, config, history>>
-----------------------------------------------------------------------------
(* Device: ingest_downlink *)

\* The frame being visited: the oldest one left of the response.
Visits(s) == s \in inbound /\ \A t \in inbound : s <= t

\* Leave the loop: a retriable failure, or the batch budget is spent.
Leave == inbound' = {} /\ visited' = FALSE /\ step' = "scan"

AddressedToAnother(s) ==
    sent[s].kind \in {"repository", "config"} /\ sent[s].instance # instance

\* A frame at or below the cursor is skipped.  A gap ends the visit, and so does a
\* repository or configuration command of another instance: it is not consumed.
PassOver ==
    /\ step = "scan"
    /\ \E s \in inbound :
          /\ Visits(s)
          /\ s # inbox + 1 \/ AddressedToAnother(s)
          /\ IF s <= inbox
             THEN inbound' = inbound \ {s} /\ visited' = TRUE /\ UNCHANGED step
             ELSE Leave
    /\ UNCHANGED <<server, network, inbox, bound, instance, pending, config, history>>

\* A candidate command of another instance, or under another occupancy than the
\* device mirrors, is answered with a refusal and consumed.
RejectCandidate ==
    /\ step = "scan"
    /\ \E s \in inbound :
          /\ Visits(s) /\ s = inbox + 1 /\ sent[s].kind = "candidate"
          /\ rejected' = rejected \cup {s}
    /\ step' = "consume"
    /\ UNCHANGED <<server, network, inbox, bound, instance, pending, inbound, visited,
                   config, applied>>

\* Every other command is applied at once.
ApplyFrame ==
    /\ step = "scan"
    /\ \E s \in inbound :
          /\ Visits(s) /\ s = inbox + 1 /\ ~AddressedToAnother(s)
          /\ sent[s].kind # "config"
          /\ sent[s].kind = "candidate" => sent[s].instance = instance
          /\ applied' = applied \cup {s}
    /\ step' = "consume"
    /\ UNCHANGED <<server, network, inbox, bound, instance, pending, inbound, visited,
                   config, rejected>>

\* A worker launch or stop that cannot be carried out now is retried.
ApplyFails ==
    /\ step = "scan"
    /\ \E s \in inbound : Visits(s) /\ s = inbox + 1 /\ sent[s].kind = "plain"
    /\ Leave
    /\ UNCHANGED <<server, network, inbox, bound, instance, pending, config, history>>

\* A configuration command is handed to a thread and left in the stream ...
StartConfig ==
    /\ step = "scan"
    /\ \E s \in inbound :
          /\ Visits(s) /\ s = inbox + 1 /\ ~AddressedToAnother(s) /\ sent[s].kind = "config"
          /\ config.state # "done" \/ config.sequence # s
          /\ config' = CASE config = NoConfig -> [sequence |-> s, state |-> "running"]
                         [] config = [sequence |-> s, state |-> "failed"] -> NoConfig
                         [] OTHER -> config
    /\ Leave
    /\ UNCHANGED <<server, network, inbox, bound, instance, pending, history>>

\* ... the thread commits its effect ...
ConfigDone ==
    /\ config.state = "running"
    /\ config' = [config EXCEPT !.state = "done"]
    /\ applied' = applied \cup {config.sequence}
    /\ UNCHANGED <<server, network, inbox, bound, instance, pending, inbound, visited,
                   step, rejected>>

\* ... or fails, which the next visit of the command reports and forgets ...
ConfigFails ==
    /\ config.state = "running"
    /\ config' = [config EXCEPT !.state = "failed"]
    /\ UNCHANGED <<server, network, inbox, bound, instance, pending, inbound, visited,
                   step, history>>

\* Mutant: the receipt is read and the finished thread kept.
CollectConfigAndKeep ==
    /\ step = "scan"
    /\ \E s \in inbound :
          /\ Visits(s) /\ s = inbox + 1 /\ ~AddressedToAnother(s) /\ sent[s].kind = "config"
          /\ config = [sequence |-> s, state |-> "done"]
    /\ step' = "consume"
    /\ UNCHANGED <<server, network, inbox, bound, instance, pending, inbound, visited,
                   config, history>>

\* ... and a later visit of the same command collects the receipt.
CollectConfig ==
    /\ step = "scan"
    /\ \E s \in inbound :
          /\ Visits(s) /\ s = inbox + 1 /\ ~AddressedToAnother(s) /\ sent[s].kind = "config"
          /\ config = [sequence |-> s, state |-> "done"]
    /\ config' = NoConfig /\ step' = "consume"
    /\ UNCHANGED <<server, network, inbox, bound, instance, pending, inbound, visited,
                   history>>

\* advance_downlink_cursor
Consume ==
    /\ step = "consume"
    /\ \E s \in inbound :
          /\ Visits(s)
          /\ inbox' = s
          /\ inbound' = inbound \ {s}
    /\ visited' = TRUE /\ step' = "scan"
    /\ UNCHANGED <<server, network, bound, instance, pending, config, history>>

\* Mutant: the budget is checked before the first frame, too.
StopAtOnce ==
    /\ step = "scan" /\ inbound # {}
    /\ Leave
    /\ UNCHANGED <<server, network, inbox, bound, instance, pending, config, history>>

\* After 32 frames or 25 ms the rest of the response is left for the next one.
StopEarly ==
    /\ visited /\ step = "scan" /\ inbound # {}
    /\ Leave
    /\ UNCHANGED <<server, network, inbox, bound, instance, pending, config, history>>

\* Crash, restart, or a fatal error of a command.
Relaunch ==
    /\ instance < MaxInstance
    /\ instance' = instance + 1
    /\ Abandon /\ Leave /\ config' = NoConfig
    /\ UNCHANGED <<sent, rows, serverAck, current, draft, inbox, bound, history>>
-----------------------------------------------------------------------------
Ingest ==
    \/ PassOver \/ RejectCandidate \/ ApplyFrame \/ ApplyFails
    \/ StartConfig \/ CollectConfig \/ Consume \/ StopEarly

Next ==
    \/ \E h \in Handlers : Draft(h) \/ \E kind \in Kinds : AppendDraft(h, kind)
    \/ HelloTaken \/ ServePending \/ ServeLate \/ AdvanceCursor \/ DeliverAndRetain
    \/ JobFails \/ Send \/ ExchangeFails \/ LoseLate \/ Receive
    \/ Ingest \/ ConfigDone \/ ConfigFails \/ Relaunch

Spec == Init /\ [][Next]_vars

Fairness ==
    /\ WF_vars(Send) /\ WF_vars(ExchangeFails) /\ WF_vars(Receive)
    /\ WF_vars(ServePending) /\ WF_vars(AdvanceCursor) /\ WF_vars(DeliverAndRetain)
    /\ WF_vars(Ingest) /\ WF_vars(ConfigDone \/ ConfigFails)

FairSpec == Spec /\ Fairness
-----------------------------------------------------------------------------
(* Properties *)

\* No command is deleted before the device has consumed it, and the report of the
\* device never runs ahead of what it consumed (retain_through, the frozen
\* acknowledgement and advance_exchange_cursors).
UnconsumedRetained ==
    /\ serverAck <= inbox /\ inbox <= Len(sent)
    /\ \A s \in (inbox + 1)..Len(sent) : s \in rows

\* No request of this device, fresh, retried or late, is ever refused for an
\* acknowledgement ahead of the stream, a refusal the retry policy would not survive.
NeverRefused ==
    /\ request # NoAck => ~Refuses(request)
    /\ \A ack \in late : ~Refuses(ack)

\* A response continues exactly where the device stands: neither the skip of old
\* frames nor the gap error of ingest_downlink is ever taken.
ResponseContinues ==
    /\ inbound # {} => inbox + 1 \in inbound /\ \A s \in inbound : s > inbox
    /\ answered /\ reply # {} => inbox + 1 \in reply /\ \A s \in reply : s > inbox

\* Every consumed command has run or been refused, and no command but the next one
\* has: a crash can repeat one effect, never skip or reorder one.  The configuration
\* thread too works for the next one only, so "Provider command changed while
\* executing" is unreachable.
EffectsInOrder ==
    /\ \A s \in 1..inbox : s \in applied \/ s \in rejected
    /\ applied \cup rejected \subseteq 1..(inbox + 1)
    /\ config # NoConfig => config.sequence = inbox + 1

\* The downlink implements the same ordered stream as the uplink.
Stream == INSTANCE OrderedStream WITH
    Frame <- Frames, sent <- sent, delivered <- inbox, confirmed <- serverAck
ImplementsOrderedStream == Stream!Spec

\* The device gives up an exchange that could still have been answered.
CutShort == ExchangeFails /\ (request # NoAck \/ answered \/ job.live)

\* Once nothing fails any more, every command appended is consumed.
EventuallyConsumed ==
    <>[][~CutShort /\ ~JobFails /\ ~ApplyFails /\ ~ConfigFails]_vars
        => \A s \in 1..MaxSequence : Len(sent) >= s ~> inbox >= s

\* The same across relaunches, unless a command that insists on its instance is
\* still unconsumed when that instance is gone.
ConsumedAcrossLaunches ==
    <>[](\A s \in (inbox + 1)..Len(sent) :
            sent[s].kind \in {"repository", "config"} => sent[s].instance = instance)
        => EventuallyConsumed
=============================================================================
