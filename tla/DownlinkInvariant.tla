--------------------------- MODULE DownlinkInvariant ---------------------------
(***************************************************************************)
(* The inductive invariant behind the safety properties of                 *)
(* DownlinkExchange.                                                       *)
(***************************************************************************)
EXTENDS DownlinkExchange

\* The stored rows are the end of the stream, and everything the device has not
\* reported is among them.
RowsAreTheEnd ==
    /\ serverAck <= inbox /\ inbox <= Len(sent) /\ rows \subseteq 1..Len(sent)
    /\ \A s \in rows : \A t \in s..Len(sent) : t \in rows
    /\ \A s \in (serverAck + 1)..Len(sent) : s \in rows

\* A frame is drafted for a sequence the stream has room for.
DraftsFit ==
    \A h \in Handlers : draft[h] # NoDraft => draft[h].sequence \in 1..MaxSequence

\* An acknowledgement never exceeds what the device consumed, and the one of an
\* operation that is open is exactly that: the device consumes nothing meanwhile.
AcksSound ==
    /\ bound # NoAck => bound = inbox /\ inbound = {}
    /\ pending => bound # NoAck
    /\ request # NoAck => pending /\ request = inbox
    /\ \A ack \in late : ack <= inbox

\* The exchange that holds the lock.
JobSound ==
    /\ job.phase # "none" => job.ack <= inbox
    /\ job.live => pending /\ job.phase # "none" /\ job.ack = inbox
    /\ job.phase = "deliver" => job.ack <= serverAck

\* The pending request is on its way, being served or answered: one of these at a time.
OnePlace ==
    /\ answered => request = NoAck /\ ~job.live
    /\ job.live => request = NoAck

\* Frames that follow the device's cursor without a gap.
Continues(S) == \A s \in S : s \in (inbox + 1)..Len(sent) /\ \A t \in (inbox + 1)..s : t \in S

ResponsesSound ==
    /\ Continues(reply) /\ Continues(inbound)
    /\ answered => pending
    /\ reply # {} => answered

\* A command is consumed after its effect, and the configuration thread works for the
\* next command, which is a configuration command.
IngestSound ==
    /\ step = "consume" =>
          inbound # {} /\ config = NoConfig /\ inbox + 1 \in applied \cup rejected
    /\ config # NoConfig => /\ config.sequence = inbox + 1 /\ config.state # "none"
                            /\ inbox < Len(sent) /\ sent[inbox + 1].kind = "config"
    /\ config.state = "done" => inbox + 1 \in applied

IInv ==
    /\ TypeOK /\ RowsAreTheEnd /\ DraftsFit /\ AcksSound /\ JobSound /\ OnePlace
    /\ ResponsesSound /\ IngestSound /\ EffectsInOrder
=============================================================================
