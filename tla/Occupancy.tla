------------------------------ MODULE Occupancy ------------------------------
(***************************************************************************)
(* Exclusive occupancy of one device.  The server keeps the leases and a   *)
(* counter of fencing tokens; the device keeps a mirror of the authority   *)
(* it acknowledged last.  A request handler reads the active lease,        *)
(* commits its transition, reads the mirror revision it believes the       *)
(* device to have, and appends its command to the downlink in separate     *)
(* transactions: whatever it read may be outdated when it is used.         *)
(*                                                                         *)
(* Both streams are what OrderedStream promises: in order, nothing lost,   *)
(* the head possibly acted on again after a crash.  Idle expiry is left    *)
(* out: no acknowledgement carries an idle deadline and nothing calls it.  *)
(***************************************************************************)
EXTENDS Naturals, Sequences

CONSTANTS
    Handlers,        \* server threads that serve occupancy requests
    MaxLeases,       \* bound: leases ever claimed
    MaxTokens,       \* bound: fencing tokens ever minted
    MaxSessions,     \* max_concurrent_worker_sessions
    MaxQueue,        \* bound: frames waiting for the device
    MaxAnswers,      \* bound: frames waiting for the server
    Failures         \* may requests, exchanges and the daemon die half way?

ASSUME OccupancyBounds ==
    /\ MaxLeases \in Nat /\ MaxTokens \in Nat /\ MaxQueue \in Nat /\ MaxAnswers \in Nat
    /\ MaxSessions \in Nat \ {0}
    /\ Failures \in BOOLEAN

VARIABLES
    \* server, durable
    leases,      \* client_occupancy_leases, in the order they were claimed
    lastToken,   \* occupancy_fencing_tokens.last_issued_token
    wasDraining, \* client_occupancy_recovery of the lease pending recovery
    online,      \* presence_state = 'online'
    reported,    \* reported_running_worker_sessions
    view,        \* client_occupancy_mirror_revisions
    \* server, volatile
    work,        \* what each handler still has to do
    sweep,       \* is a sweep between its two transactions?
    emptied,     \* is a heartbeat without sessions between its two?
    observed,    \* has the revision of the first uplink frame been observed?
    \* streams
    down, up,
    \* device, durable
    mirror,      \* occupancy mirror: lease, fencing token, mirror revision
    \* history
    fenced       \* leases whose force fence the device has consumed

server == <<leases, lastToken, wasDraining, online, reported, view>>
vars == <<server, work, sweep, emptied, observed, down, up, mirror, fenced>>

Leases0 == 0..MaxLeases
Tokens == 0..MaxTokens
\* Every advance of the mirror uses up a token.
Revisions == 0..MaxTokens
\* recovery_pending is "recovery" until recovery_deadline_at has passed.
HeldStates == {"occupied", "draining", "recovery", "overdue"}
ActiveStates == HeldStates \cup {"reserving"}
\* state = 'released', told apart by its release_reason: an offer that came to
\* nothing, holder_released, drain_completed, force_released.
OverStates == {"withdrawn", "released", "drained", "forced"}
LeaseRecords == [state : ActiveStates \cup OverStates, token : Tokens]
Commands == [kind : {"offer", "release", "fence"}, lease : Leases0,
             token : Tokens, rev : Revisions]
Answers == [kind : {"ack", "rejected", "report", "reconcile"}, lease : Leases0,
            token : Tokens, rev : Revisions]
\* "end" and "drain" remember whether the node reported sessions when it was read.
Steps == {"idle", "withdraw", "end", "drain", "force", "mint", "view", "append", "await"}
Works == [step : Steps, kind : {"none", "offer", "release", "fence"},
          lease : Leases0, token : Tokens, rev : Revisions]
NoWork == [step |-> "idle", kind |-> "none", lease |-> 0, token |-> 0, rev |-> 0]
Larger(a, b) == IF a >= b THEN a ELSE b

TypeOK ==
    /\ leases \in Seq(LeaseRecords) /\ Len(leases) \in Leases0
    /\ lastToken \in Tokens /\ wasDraining \in BOOLEAN /\ online \in BOOLEAN
    /\ reported \in 0..MaxSessions /\ view \in Revisions
    /\ work \in [Handlers -> Works]
    /\ sweep \in BOOLEAN /\ emptied \in BOOLEAN /\ observed \in BOOLEAN
    /\ down \in Seq(Commands) /\ up \in Seq(Answers)
    /\ mirror \in [lease : Leases0, token : Tokens, rev : Revisions]
    /\ fenced \subseteq Leases0

Init ==
    /\ leases = <<>> /\ lastToken = 0 /\ wasDraining = FALSE
    /\ online = TRUE /\ reported = 0 /\ view = 0
    /\ work = [h \in Handlers |-> NoWork]
    /\ sweep = FALSE /\ emptied = FALSE /\ observed = FALSE /\ down = <<>> /\ up = <<>>
    /\ mirror = [lease |-> 0, token |-> 0, rev |-> 0] /\ fenced = {}

\* active_lease_for_node; a second one would be corrupt state.
Active == {l \in 1..Len(leases) : leases[l].state \in ActiveStates}

SetState(l, state) == leases' = [leases EXCEPT ![l].state = state]

\* reject_offer
RejectOffer(l) ==
    IF leases[l].state = "reserving" THEN SetState(l, "withdrawn") ELSE UNCHANGED leases
-----------------------------------------------------------------------------
(* Server: requests of users and administrators *)

\* ensure_claim_gate, with a granted, unlocked and accepting device.
ClaimGate == online /\ reported + 1 <= MaxSessions /\ Active = {}

\* atomic_claim: the gate, the token and the lease are one transaction.
Claim(h) ==
    /\ work[h] = NoWork /\ ClaimGate
    /\ Len(leases) < MaxLeases /\ lastToken < MaxTokens
    /\ lastToken' = lastToken + 1
    /\ leases' = Append(leases, [state |-> "reserving", token |-> lastToken'])
    /\ work' = [work EXCEPT ![h] = [step |-> "view", kind |-> "offer",
                    lease |-> Len(leases'), token |-> lastToken', rev |-> 0]]
    /\ UNCHANGED <<wasDraining, online, reported, view, sweep, emptied, observed,
                   down, up, mirror, fenced>>

\* The holder of a reserving lease claims again and waits for the same answer.
ClaimAgain(h) ==
    /\ work[h] = NoWork
    /\ \E l \in Active :
          /\ leases[l].state = "reserving"
          /\ work' = [work EXCEPT ![h] = [NoWork EXCEPT !.step = "await", !.lease = l]]
    /\ UNCHANGED <<server, sweep, emptied, observed, down, up, mirror, fenced>>

\* Mutant: a release expects the revision its own effect would lead to.
ReadViewOfRelease(h) ==
    /\ work[h].step = "view"
    /\ work' = [work EXCEPT ![h].step = "append",
                            ![h].rev = IF work[h].kind = "release" THEN view + 1 ELSE view]
    /\ UNCHANGED <<server, sweep, emptied, observed, down, up, mirror, fenced>>

\* client_mirror_revision_view
ReadView(h) ==
    /\ work[h].step = "view"
    /\ work' = [work EXCEPT ![h].step = "append", ![h].rev = view]
    /\ UNCHANGED <<server, sweep, emptied, observed, down, up, mirror, fenced>>

\* enqueue_occupancy_frame; a claim goes on to wait for the device.
AppendCommand(h) ==
    /\ work[h].step = "append" /\ Len(down) < MaxQueue
    /\ down' = Append(down, [kind |-> work[h].kind, lease |-> work[h].lease,
                             token |-> work[h].token, rev |-> work[h].rev])
    /\ work' = [work EXCEPT ![h] = IF @.kind = "offer" THEN [@ EXCEPT !.step = "await"]
                                                       ELSE NoWork]
    /\ UNCHANGED <<server, sweep, emptied, observed, up, mirror, fenced>>

\* The append is refused, the request is dropped or the server stops: what the
\* handler committed stays, the rest never happens.
HandlerDies(h) ==
    /\ Failures /\ work[h] # NoWork
    /\ work' = [work EXCEPT ![h] = NoWork]
    /\ UNCHANGED <<server, sweep, emptied, observed, down, up, mirror, fenced>>

\* poll_claim: the lease has left the reserving state.
ClaimAnswered(h) ==
    /\ work[h].step = "await" /\ leases[work[h].lease].state # "reserving"
    /\ work' = [work EXCEPT ![h] = NoWork]
    /\ UNCHANGED <<server, sweep, emptied, observed, down, up, mirror, fenced>>

\* Mutant: a timed out claim only stops waiting.
ClaimTimesOutQuietly(h) ==
    /\ work[h].step = "await" /\ leases[work[h].lease].state = "reserving"
    /\ work' = [work EXCEPT ![h] = NoWork]
    /\ UNCHANGED <<server, sweep, emptied, observed, down, up, mirror, fenced>>

\* roll_back_unanswered_offer
ClaimTimesOut(h) ==
    /\ work[h].step = "await" /\ leases[work[h].lease].state = "reserving"
    /\ SetState(work[h].lease, "withdrawn")
    /\ work' = [work EXCEPT ![h] = NoWork]
    /\ UNCHANGED <<lastToken, wasDraining, online, reported, view, sweep, emptied,
                   observed, down, up, mirror, fenced>>

\* release reads the node, with the sessions it last reported, and its active
\* lease.  A draining lease keeps draining and one pending recovery is refused.
Release(h) ==
    /\ work[h] = NoWork
    /\ \E l \in Active :
          \/ /\ leases[l].state = "reserving"
             /\ work' = [work EXCEPT ![h] = [NoWork EXCEPT !.step = "withdraw", !.lease = l]]
          \/ /\ leases[l].state = "occupied"
             /\ work' = [work EXCEPT ![h] =
                    [step |-> IF reported = 0 THEN "end" ELSE "drain", kind |-> "release",
                     lease |-> l, token |-> leases[l].token, rev |-> 0]]
    /\ UNCHANGED <<server, sweep, emptied, observed, down, up, mirror, fenced>>

\* A claim that is still reserving is withdrawn; the device is not told.
Withdraw(h) ==
    /\ work[h].step = "withdraw" /\ RejectOffer(work[h].lease)
    /\ work' = [work EXCEPT ![h] = NoWork]
    /\ UNCHANGED <<lastToken, wasDraining, online, reported, view, sweep,
                   emptied, observed, down, up, mirror, fenced>>

\* request_release ends or drains the lease the handler saw occupied.  A release
\* that another request committed first is answered as a replay, and the device is
\* told again; in any other state the request fails.
RequestRelease(h) ==
    /\ work[h].step \in {"end", "drain"}
    /\ LET l == work[h].lease
           replay == leases[l].state = "released"
                     \/ (leases[l].state = "draining" /\ work[h].step = "drain")
       IN  \/ /\ leases[l].state = "occupied"
              /\ SetState(l, IF work[h].step = "end" THEN "released" ELSE "draining")
              /\ work' = [work EXCEPT ![h].step = "view"]
           \/ /\ leases[l].state # "occupied" /\ UNCHANGED leases
              /\ work' = [work EXCEPT ![h] = IF replay THEN [@ EXCEPT !.step = "view"]
                                                       ELSE NoWork]
    /\ UNCHANGED <<lastToken, wasDraining, online, reported, view, sweep,
                   emptied, observed, down, up, mirror, fenced>>

\* force_release reads a lease whose recovery deadline has passed ...
ForceRelease(h) ==
    /\ work[h] = NoWork
    /\ \E l \in Active :
          /\ leases[l].state = "overdue"
          /\ work' = [work EXCEPT ![h] = [step |-> "force", kind |-> "fence",
                          lease |-> l, token |-> 0, rev |-> 0]]
    /\ UNCHANGED <<server, sweep, emptied, observed, down, up, mirror, fenced>>

\* ... ends it, or finds that another request has, and fails if it was resumed.  The
\* deadline is compared with the time read at the start of the request: a lease that
\* was resumed and is overdue a second time is refused by the code, not here.
ForceEnd(h) ==
    /\ work[h].step = "force"
    /\ LET l == work[h].lease
       IN  \/ /\ leases[l].state = "overdue"
              /\ SetState(l, "forced")
              /\ work' = [work EXCEPT ![h].step = "mint"]
           \/ /\ leases[l].state # "overdue" /\ UNCHANGED leases
              /\ work' = [work EXCEPT ![h] = IF leases[l].state = "forced"
                                             THEN [@ EXCEPT !.step = "mint"] ELSE NoWork]
    /\ UNCHANGED <<lastToken, wasDraining, online, reported, view, sweep,
                   emptied, observed, down, up, mirror, fenced>>

\* Mutant: the fence carries the token of the lease it ends.
MintReused(h) ==
    /\ work[h].step = "mint"
    /\ work' = [work EXCEPT ![h].step = "view", ![h].token = leases[work[h].lease].token]
    /\ UNCHANGED <<server, sweep, emptied, observed, down, up, mirror, fenced>>

\* Mutant: the counter is not checked against its ceiling.
MintUnbounded(h) ==
    /\ work[h].step = "mint"
    /\ lastToken' = lastToken + 1
    /\ work' = [work EXCEPT ![h].step = "view", ![h].token = lastToken']
    /\ UNCHANGED <<leases, wasDraining, online, reported, view, sweep, emptied,
                   observed, down, up, mirror, fenced>>

\* It then mints the token of the fence in a transaction of its own.
Mint(h) ==
    /\ work[h].step = "mint" /\ lastToken < MaxTokens
    /\ lastToken' = lastToken + 1
    /\ work' = [work EXCEPT ![h].step = "view", ![h].token = lastToken']
    /\ UNCHANGED <<leases, wasDraining, online, reported, view, sweep, emptied,
                   observed, down, up, mirror, fenced>>
-----------------------------------------------------------------------------
(* Server: presence and recovery *)

\* A heartbeat brings the node online and reports its sessions ...
Heartbeat(sessions) ==
    /\ ~emptied /\ emptied' = (sessions = 0)
    /\ online' = TRUE /\ reported' = sessions
    /\ UNCHANGED <<leases, lastToken, wasDraining, view, work, sweep, observed,
                   down, up, mirror, fenced>>

\* ... none left means that draining is complete: drain_complete, unless the
\* exchange fails first.
DrainComplete ==
    /\ emptied /\ emptied' = FALSE
    /\ \/ leases' = [l \in DOMAIN leases |->
                       IF leases[l].state = "draining"
                       THEN [leases[l] EXCEPT !.state = "drained"] ELSE leases[l]]
       \/ Failures /\ UNCHANGED leases
    /\ UNCHANGED <<lastToken, wasDraining, online, reported, view, work, sweep,
                   observed, down, up, mirror, fenced>>

\* sweep_offline: the last heartbeat is too old.
SweepOffline ==
    /\ online /\ ~sweep
    /\ online' = FALSE /\ sweep' = TRUE
    /\ UNCHANGED <<leases, lastToken, wasDraining, reported, view, work, emptied,
                   observed, down, up, mirror, fenced>>

\* mark_recovery_pending, which insists that the node is still offline.
MarkRecovery ==
    /\ sweep /\ sweep' = FALSE
    /\ \/ \E l \in Active :
             /\ leases[l].state \in {"occupied", "draining"} /\ ~online
             /\ SetState(l, "recovery")
             /\ wasDraining' = (leases[l].state = "draining")
       \/ /\ online \/ \A l \in Active : leases[l].state \notin {"occupied", "draining"}
          /\ UNCHANGED <<leases, wasDraining>>
    /\ UNCHANGED <<lastToken, online, reported, view, work, emptied, observed, down, up,
                   mirror, fenced>>

SweepDies ==
    /\ Failures /\ sweep /\ sweep' = FALSE
    /\ UNCHANGED <<server, work, emptied, observed, down, up, mirror, fenced>>

\* The recovery window closes.
DeadlinePasses ==
    /\ \E l \in Active : leases[l].state = "recovery" /\ SetState(l, "overdue")
    /\ UNCHANGED <<lastToken, wasDraining, online, reported, view, work, sweep, emptied,
                   observed, down, up, mirror, fenced>>
-----------------------------------------------------------------------------
(* Device *)

Answer(kind, c, rev) == [kind |-> kind, lease |-> c.lease, token |-> c.token, rev |-> rev]

Exact(c) == mirror.lease = c.lease /\ mirror.token = c.token
Stamp(l) == [lease |-> l, token |-> leases[l].token]

\* advance_occupancy_mirror behind the revision check of an offer or a fence.
Installs(c) ==
    /\ c.kind \in {"offer", "fence"} /\ ~Exact(c)
    /\ c.rev = mirror.rev /\ c.token > mirror.token

\* What apply_occupancy_offer, _release and _force_fence leave behind.
Installed(c) == IF Installs(c)
                THEN [lease |-> c.lease, token |-> c.token, rev |-> mirror.rev + 1]
                ELSE mirror
Reply(c) ==
    IF c.kind # "offer" THEN Answer("report", c, Installed(c).rev)
    ELSE IF Installs(c) \/ Exact(c) THEN Answer("ack", c, Installed(c).rev)
    ELSE Answer("rejected", c, mirror.rev)

\* The mirror, the answer in the outbox and the inbox cursor are three commits; a
\* crash before either of the last two makes the command come back.
Commit(c, installed, reply) ==
    /\ mirror' = installed
    /\ \/ /\ up' = Append(up, reply) /\ down' = Tail(down)
          /\ fenced' = IF c.kind = "fence" THEN fenced \cup {c.lease} ELSE fenced
       \/ Failures /\ up' \in {up, Append(up, reply)} /\ UNCHANGED <<down, fenced>>

ApplyCommand ==
    /\ down # <<>> /\ Len(up) < MaxAnswers
    /\ Commit(Head(down), Installed(Head(down)), Reply(Head(down)))
    /\ UNCHANGED <<server, work, sweep, emptied, observed>>

\* A locked device refuses every offer.
RefuseLocked ==
    /\ down # <<>> /\ Len(up) < MaxAnswers /\ Head(down).kind = "offer"
    /\ Commit(Head(down), mirror, Answer("rejected", Head(down), mirror.rev))
    /\ UNCHANGED <<server, work, sweep, emptied, observed>>

\* publish_worker_reconciliation, under the lease the device mirrors.
ReportWorkers ==
    /\ mirror.rev # 0 /\ Len(up) < MaxAnswers
    /\ up' = Append(up, Answer("reconcile", mirror, mirror.rev))
    /\ UNCHANGED <<server, work, sweep, emptied, observed, down, mirror, fenced>>
-----------------------------------------------------------------------------
(* Server: effects of the device's answers *)

\* Mutant: the revision is learnt from refusals only.
ObserveRefusals ==
    /\ up # <<>> /\ ~observed /\ Head(up).kind # "reconcile"
    /\ view' = IF Head(up).kind = "ack" THEN view ELSE Larger(view, Head(up).rev)
    /\ observed' = TRUE
    /\ UNCHANGED <<leases, lastToken, wasDraining, online, reported, work,
                   sweep, emptied, down, up, mirror, fenced>>

\* observe_client_mirror_revision commits to a database of its own.
ObserveRevision ==
    /\ up # <<>> /\ ~observed /\ Head(up).kind # "reconcile"
    /\ view' = Larger(view, Head(up).rev)
    /\ observed' = TRUE
    /\ UNCHANGED <<leases, lastToken, wasDraining, online, reported, work,
                   sweep, emptied, down, up, mirror, fenced>>

\* Mutant: an acknowledgement is taken whatever became of the lease.
AcknowledgeAnyway(l) == SetState(l, "occupied")

\* record_acknowledgement and its refusal: a lease that timed out stays released.
Acknowledge(l) ==
    IF leases[l].state = "reserving" THEN SetState(l, "occupied") ELSE UNCHANGED leases

\* settle_worker_reconciliation: whether the reported workers account for every
\* binding is left open.
Reconcile(l) ==
    \/ UNCHANGED leases
    \/ /\ leases[l].state \in {"recovery", "overdue"}
       /\ SetState(l, "draining") \/ (~wasDraining /\ SetState(l, "occupied"))

\* The effect of the first frame; a failure before the frame is completed makes
\* the server run it again.
Settle ==
    /\ up # <<>>
    /\ observed \/ Head(up).kind = "reconcile"
    /\ LET a == Head(up)
       IN  CASE a.kind = "ack"       -> Acknowledge(a.lease)
             [] a.kind = "rejected"  -> RejectOffer(a.lease)
             [] a.kind = "reconcile" -> Reconcile(a.lease)
             [] OTHER                -> UNCHANGED leases
    /\ up' = Tail(up) \/ (Failures /\ up' = up)
    /\ observed' = FALSE
    /\ UNCHANGED <<lastToken, wasDraining, online, reported, view, work,
                   sweep, emptied, down, mirror, fenced>>

ExchangeDies ==
    /\ Failures /\ observed /\ observed' = FALSE
    /\ UNCHANGED <<server, work, sweep, emptied, down, up, mirror, fenced>>
-----------------------------------------------------------------------------
Request(h) ==
    \/ Claim(h) \/ ClaimAgain(h) \/ ReadView(h) \/ AppendCommand(h) \/ HandlerDies(h)
    \/ ClaimAnswered(h) \/ ClaimTimesOut(h) \/ Release(h) \/ Withdraw(h)
    \/ RequestRelease(h) \/ ForceRelease(h) \/ ForceEnd(h) \/ Mint(h)

Next ==
    \/ \E h \in Handlers : Request(h)
    \/ \E sessions \in 0..MaxSessions : Heartbeat(sessions)
    \/ DrainComplete \/ SweepOffline \/ MarkRecovery \/ SweepDies \/ DeadlinePasses
    \/ ApplyCommand \/ RefuseLocked \/ ReportWorkers
    \/ ObserveRevision \/ Settle \/ ExchangeDies

Spec == Init /\ [][Next]_vars

(***************************************************************************)
(* A request that is being served keeps taking steps; nothing is asked of  *)
(* the device, which may be gone.                                          *)
(***************************************************************************)
Fairness ==
    \A h \in Handlers :
        WF_vars(\/ ReadView(h) \/ AppendCommand(h) \/ ClaimAnswered(h) \/ ClaimTimesOut(h)
                \/ Withdraw(h) \/ RequestRelease(h) \/ ForceEnd(h) \/ Mint(h))

FairSpec == Spec /\ Fairness
-----------------------------------------------------------------------------
(* Properties *)

\* While the server treats a lease as confirmed, the device mirrors exactly that
\* lease and its token.  Not true of the code: the fence of an earlier lease, sent by
\* a handler that read its revision late, can take its place.
OccupiedIsMirrored ==
    \A l \in 1..Len(leases) : leases[l].state \in HeldStates => Exact(Stamp(l))

\* What is true instead: a confirmed lease is mirrored unless the device obeys the
\* fence of a lease that was force-released, which carries a larger token.  No late
\* acknowledgement, no offer of a claim that timed out or was withdrawn, and no
\* release ever takes its place.
DisplacedByFenceOnly ==
    \A l \in 1..Len(leases) : leases[l].state \in HeldStates =>
        \/ Exact(Stamp(l))
        \/ leases[mirror.lease].state = "forced" /\ mirror.token > leases[l].token

\* A release on its way, first or replayed, never names a token the device has not
\* reached, and as long as the device mirrors the lease the expected revision
\* matches: the command that stops the remaining workers is refused only by a device
\* that has gone on to a larger token.
DrainIsHeard ==
    \A i \in 1..Len(down) : down[i].kind = "release" =>
        /\ down[i].token <= mirror.token
        /\ Exact(down[i]) => down[i].rev = mirror.rev

\* Once the device has consumed the fence of a force-released lease it no longer
\* holds the authority of that lease, whoever claimed in the meantime.
FencedAuthorityGone ==
    \A l \in fenced : ~(mirror.lease = l /\ mirror.token = leases[l].token)

\* The server's view of the mirror revision never runs ahead of the device, and
\* while the device holds a confirmed lease the view is exact: an expected revision
\* can be outdated, never invented, and the holder's own commands are not refused.
ViewTrailsMirror ==
    /\ view <= mirror.rev
    /\ \A l \in 1..Len(leases) :
          leases[l].state \in HeldStates /\ Exact(Stamp(l)) => view = mirror.rev

\* A claim never leaves the device reserved for good: the waiting request ends the
\* reservation if the device does not.
ReservationEnds ==
    \A l \in 1..MaxLeases :
        (l <= Len(leases) /\ leases[l].state = "reserving")
            ~> (l <= Len(leases) /\ leases[l].state # "reserving")
=============================================================================
