---------------------------- MODULE UplinkInvariant ----------------------------
(***************************************************************************)
(* The inductive invariant behind the safety properties of UplinkExchange. *)
(***************************************************************************)
EXTENDS UplinkExchange

\* A request covers rows that exist and starts no further than one past the
\* server's cursor: it was built from an acknowledgement the server had given.
Sound(r) == r.first \in 1..(cursor + 1) /\ r.last \in r.first..Len(outbox)

RequestsSound ==
    /\ pending # NoRequest => Sound(pending) /\ pending.first = acked + 1
    /\ request # NoRequest => Sound(request)
    /\ \A r \in late : Sound(r)

\* The journal entry of the open operation, and its absence once answered.
JournalMatches ==
    /\ deliveryCursor <= acked
    /\ \A s \in 1..MaxSequence : frozen[s] # 0 =>
          s = acked + 1 /\ frozen[s] \in s..Len(outbox)
    /\ pending # NoRequest => frozen[pending.first] = pending.last
    /\ response # NoResponse =>
          pending = NoRequest /\ \A s \in 1..MaxSequence : frozen[s] = 0

AnswersSound ==
    /\ reply # NoResponse => reply.ack <= cursor /\ reply.hint = 0
    /\ response # NoResponse => response.ack <= cursor /\ response.hint = 0

\* Where the exchange that holds the lock stands relative to the durable cursor.
JobPosition ==
    /\ job.hint = 0
    /\ job.phase # "none" =>
          /\ job.first \in 1..(job.start + 1)
          /\ job.next \in job.first..(job.last + 1)
          /\ job.last <= Len(outbox)
          /\ job.start <= cursor
    /\ job.phase \in {"frame", "effect", "complete"} =>
          cursor = Larger(job.start, job.next - 1)
    /\ job.phase \in {"frame", "respond"} => job.ack = cursor
    /\ job.phase \in {"effect", "complete"} =>
          job.ack = Larger(cursor, job.next) /\ job.next <= job.last
    /\ job.phase = "effect" => job.next = cursor + 1 /\ outbox[job.next].key \notin settled
    /\ job.phase = "complete" =>
          \/ job.next <= cursor
          \/ job.next \in applied
          \/ outbox[job.next].key \in settled

\* The exchange tables are exactly what the cursor has passed.
TablesMatchCursor ==
    /\ completed = 1..cursor
    /\ \A s \in 1..cursor : outbox[s].key # NoKey => outbox[s].key \in settled
    /\ \A k \in settled : \E s \in 1..cursor : outbox[s].key = k

AppliedExists == applied \subseteq 1..Len(outbox)

IInv ==
    /\ TypeOK
    /\ ConfirmedIsDelivered
    /\ RequestsSound
    /\ JournalMatches
    /\ AnswersSound
    /\ JobPosition
    /\ TablesMatchCursor
    /\ AppliedExists
    /\ CursorCoversEffects
    /\ CommandAppliedOnce
=============================================================================
