------------------------ MODULE CandidateApplication ------------------------
(***************************************************************************)
(* Applying a candidate to a branch of the user's repository.              *)
(*                                                                         *)
(* The server grants an application under the active occupancy lease and   *)
(* sends a command (client_candidates.rs, candidate_applications.rs).  The *)
(* device journals the application before it touches Git, integrates in a  *)
(* worktree, moves the branch from the head it expects, journals the       *)
(* result and reports it (apply_engine.rs, application_journal.rs).  After *)
(* a restart, and after every new occupancy, it compares its journal with  *)
(* the repository and reports what it found.  The server settles an        *)
(* application from these reports (client_exchange.rs).                    *)
(*                                                                         *)
(* Device and server talk over the two ordered streams of the control      *)
(* exchange (OrderedStream); a frame stays at the head of its stream until *)
(* its handler is done.  The device may stop between any two commits, the  *)
(* user may commit to the branch, rewind it or edit the working tree at    *)
(* any time.  A lease is identified with its fencing token, its epoch.     *)
(***************************************************************************)
EXTENDS Naturals, Sequences, FiniteSets

CONSTANTS
    Apps,         \* applications of one candidate: a target branch each
    MaxEpoch,     \* bound: occupancy leases ever granted
    MaxInstance,  \* bound: launches of the device
    MaxPublish,   \* bound: apply commands ever sent
    MaxUser,      \* bound: changes of the repository and discards, by the user
    MaxQueue      \* bound: length of a stream

ASSUME ApplicationBounds ==
    /\ MaxEpoch \in Nat /\ MaxInstance \in Nat \ {0} /\ MaxPublish \in Nat
    /\ MaxUser \in Nat /\ MaxQueue \in Nat

Epochs == 0..MaxEpoch
Instances == 1..MaxInstance
Verdicts == {"applied", "not_started", "outcome_unknown"}
Results == {"none", "applied", "failed"}

\* candidate_applications of the server.
Rows == [granted : BOOLEAN, original : Epochs, retry : Epochs,
         outcome : Verdicts \cup {"none", "failed", "retry_authorized"}, result : Results]
NoRow == [granted |-> FALSE, original |-> 0, retry |-> 0, outcome |-> "none", result |-> "none"]

\* candidate_applications of the device; reported 0 stands for NULL.
Entries == [started : BOOLEAN, original : Epochs, finished : Results,
            recovery : {"none", "not_started", "outcome_unknown"}, reported : Epochs]
NoEntry == [started |-> FALSE, original |-> 0, finished |-> "none",
            recovery |-> "none", reported |-> 0]

VARIABLES
    \* server
    lease,      \* token of the active lease, 0 if none
    occupied,   \* has the device confirmed it?
    minted,     \* last token
    prepared,   \* the lease and the instance an apply request has read
    commands,   \* apply commands sent so far
    row,        \* candidate_applications
    receipt,    \* local_apply_receipts: the result recorded per application
    candidate,  \* local_candidate_receipts.state
    seen,       \* applications whose result frame is settled (its idempotency key)
    halfway,    \* the receipt of the head frame is written, its row is not
    known,      \* current instance
    \* streams
    down, up,
    \* device, durable
    mirror, instance, journal,
    local,      \* candidate_local_refs.local_state
    \* device, volatile
    work,
    \* repository
    branch,     \* per application: commits of the target branch after the base
    dirty, worktree,
    \* history
    published,  \* applications whose commit has been put on their branch
    touched     \* changes and discards by the user so far

server == <<lease, occupied, minted, prepared, commands, row, receipt, candidate,
            seen, halfway, known>>
device == <<mirror, instance, journal, local, work>>
repository == <<branch, dirty, worktree>>
vars == <<server, down, up, device, repository, published, touched>>

(***************************************************************************)
(* What the daemon still has to do, commit by commit: "plan" names the     *)
(* steps of the handler it is in, "app" and "verdict" what they are about. *)
(* What is left in "todo" is judged before the next step.                  *)
(***************************************************************************)
Steps == {"ack", "hello", "report", "say", "mark", "transition", "begin",
          "attempt", "publish", "cleanup", "finish", "answer", "consume", "dead"}
NoApp == "none"
Idle == [plan |-> <<>>, app |-> NoApp, verdict |-> "none", todo |-> {}, due |-> {}]

TypeOK ==
    /\ {lease, minted, mirror} \subseteq Epochs
    /\ prepared \in [epoch : Epochs, instance : Instances]
    /\ {occupied, halfway, dirty} \subseteq BOOLEAN /\ commands \in 0..MaxPublish
    /\ row \in [Apps -> Rows] /\ receipt \in [Apps -> Results]
    /\ candidate \in {"retained", "failed", "applied", "discarded"}
    /\ local \in {"retained", "failed", "applied"}
    /\ seen \subseteq Apps /\ worktree \subseteq Apps /\ published \subseteq Apps
    /\ {known, instance} \subseteq Instances
    /\ journal \in [Apps -> Entries]
    /\ work.plan \in Seq(Steps) /\ work.app \in Apps \cup {NoApp}
    /\ work.verdict \in Verdicts \cup {"none", "failed"}
    /\ work.todo \subseteq Apps /\ work.due \subseteq Apps
    /\ branch \in [Apps -> Seq({"app", "user"})] /\ touched \in 0..MaxUser
    /\ Len(down) <= MaxQueue /\ Len(up) <= MaxQueue

NoRequest == [epoch |-> 0, instance |-> 1]

Init ==
    /\ lease = 0 /\ occupied = FALSE /\ minted = 0 /\ prepared = NoRequest /\ commands = 0
    /\ row = [a \in Apps |-> NoRow] /\ receipt = [a \in Apps |-> "none"]
    /\ candidate = "retained" /\ seen = {} /\ halfway = FALSE /\ known = 1
    /\ down = <<>> /\ up = <<>>
    /\ mirror = 0 /\ instance = 1 /\ journal = [a \in Apps |-> NoEntry]
    /\ local = "retained" /\ work = Idle
    /\ branch = [a \in Apps |-> <<>>] /\ dirty = FALSE /\ worktree = {}
    /\ published = {} /\ touched = 0
-----------------------------------------------------------------------------
(* Server: requests *)

\* A claim and its offer; the lease is confirmed when the device's answer arrives.
Claim ==
    /\ lease = 0 /\ minted < MaxEpoch /\ Len(down) < MaxQueue
    /\ minted' = minted + 1 /\ lease' = minted + 1
    /\ down' = Append(down, [kind |-> "offer", epoch |-> minted + 1])
    /\ UNCHANGED <<occupied, prepared, commands, row, receipt, candidate, seen, halfway,
                   known, up, device, repository, published, touched>>

\* The lease ends at the server; the device keeps its mirror until the next offer.
Release ==
    /\ lease # 0
    /\ lease' = 0 /\ occupied' = FALSE
    /\ UNCHANGED <<minted, prepared, commands, row, receipt, candidate, seen, halfway,
                   known, down, up, device, repository, published, touched>>

Terminal(state) == state \in {"applied", "discarded"}

\* prepare(): a request reads the node, the lease and the candidate (one that is
\* abandoned gives way to the next) ...
PrepareApply ==
    /\ lease # 0 /\ occupied /\ ~Terminal(candidate) /\ commands < MaxPublish
    /\ prepared' = [epoch |-> lease, instance |-> known] /\ prepared' # prepared
    /\ UNCHANGED <<lease, occupied, minted, commands, row, receipt, candidate, seen, halfway,
                   known, down, up, device, repository, published, touched>>

\* An application without a result whose outcome is unknown blocks the candidate.
ServerBlocked == \E a \in Apps : row[a].outcome = "outcome_unknown" /\ row[a].result = "none"

\* grant_in_transaction reuses the application of the same branch; a confirmed
\* not_started becomes the permission to try again under the lease of the request.
Granted(a) ==
    LET r == IF row[a].granted THEN row[a]
             ELSE [NoRow EXCEPT !.granted = TRUE, !.original = prepared.epoch]
    IN  IF r.outcome = "not_started"
        THEN [r EXCEPT !.outcome = "retry_authorized", !.retry = prepared.epoch] ELSE r

\* ... and publish_candidate_application commits grant and command together, under
\* the lease it was given.  The command is stamped with the mirror revision of the
\* node, which was read before the lease and may be an older one.
Publish(a) ==
    /\ prepared # NoRequest /\ ~ServerBlocked /\ Len(down) < MaxQueue
    /\ row' = [row EXCEPT ![a] = Granted(a)]
    /\ \E exact \in BOOLEAN : down' = Append(down,
         [kind |-> "apply", app |-> a, epoch |-> prepared.epoch, instance |-> prepared.instance,
          exact |-> exact,
          retry |-> row'[a].outcome = "retry_authorized" /\ row'[a].retry = prepared.epoch])
    /\ prepared' = NoRequest /\ commands' = commands + 1
    /\ UNCHANGED <<lease, occupied, minted, receipt, candidate, seen, halfway, known, up,
                   device, repository, published, touched>>

\* discard_candidate; the device is not asked.
Discard ==
    /\ lease # 0 /\ occupied /\ ~Terminal(candidate) /\ touched < MaxUser
    /\ candidate' = "discarded" /\ touched' = touched + 1
    /\ UNCHANGED <<lease, occupied, minted, prepared, commands, row, receipt, seen, halfway,
                   known, down, up, device, repository, published>>
-----------------------------------------------------------------------------
(* Device: what the handlers are made of *)

At(step) == work.todo = {} /\ work.plan # <<>> /\ Head(work.plan) = step
Proceed(plan) == IF plan = <<>> THEN Idle ELSE [work EXCEPT !.plan = plan]
Rest == Proceed(Tail(work.plan))
Serve(plan, a, verdict) == [work EXCEPT !.plan = plan, !.app = a, !.verdict = verdict]

\* inspect_started_application: the commit is recognised by its trailer; an
\* untouched branch proves that nothing was done only if nothing else moved either.
Inspect(a) ==
    IF Cardinality({i \in DOMAIN branch[a] : branch[a][i] = "app"}) = 1 THEN "applied"
    ELSE IF branch[a] # <<>> \/ dirty \/ a \in worktree THEN "outcome_unknown"
    ELSE "not_started"

\* A confirmed not_started is not inspected again; an unknown outcome stays
\* unknown unless the commit is found.
Observed(a) ==
    LET found == IF journal[a].recovery = "not_started" THEN "not_started" ELSE Inspect(a)
    IN  IF journal[a].recovery = "outcome_unknown" /\ found # "applied"
        THEN "outcome_unknown" ELSE found

Unfinished == {a \in Apps : journal[a].started /\ journal[a].finished = "none"}

\* Mutant: the report of an earlier verdict counts for the result, too.
FinishKeepingReport(entry, result) == [entry EXCEPT !.finished = result]

\* finish_application: a first result has to be reported again.
Finish(entry, result) ==
    [entry EXCEPT !.finished = result,
                  !.reported = IF entry.finished = "none" THEN 0 ELSE @]

\* note_recovery_outcome: so does a changed verdict.
Note(entry, verdict) ==
    [entry EXCEPT !.recovery = verdict,
                  !.reported = IF entry.recovery = verdict THEN @ ELSE 0]

\* Mutant: the verdict of an earlier attempt outlives the next one.
BeginUnder(entry) == entry

\* begin_application_attempt
Begin(entry) == [entry EXCEPT !.recovery = "none"]

-----------------------------------------------------------------------------
(* Device: a new occupancy and a restart *)

\* An offer is mirrored and acknowledged, then every journalled application is
\* reported under it.  A redelivered offer is acknowledged again.
TakeOffer ==
    /\ work = Idle /\ down # <<>> /\ Head(down).kind = "offer"
    /\ mirror' = Head(down).epoch
    /\ work' = [Idle EXCEPT !.plan = <<"ack", "report", "consume">>]
    /\ UNCHANGED <<server, down, up, instance, journal, local, repository, published, touched>>

\* reject_occupancy_offer: the client is locked, or the offer is not for the mirror it
\* has.  The rejection concerns the occupancy alone, see Occupancy.
RefuseOffer ==
    /\ work = Idle /\ down # <<>> /\ Head(down).kind = "offer"
    /\ down' = Tail(down)
    /\ UNCHANGED <<server, up, device, repository, published, touched>>

\* ack_occupancy_mirror
SendAck ==
    /\ At("ack") /\ Len(up) < MaxQueue
    /\ up' = Append(up, [kind |-> "ack", epoch |-> mirror])
    /\ work' = [Rest EXCEPT !.todo = Unfinished, !.due = {a \in Apps : journal[a].started}]
    /\ UNCHANGED <<server, down, mirror, instance, journal, local, repository, published, touched>>

\* The daemon stops, at any point, and is launched again.
Relaunch ==
    /\ instance < MaxInstance
    /\ instance' = instance + 1
    /\ work' = [Idle EXCEPT !.plan = <<"hello", "report">>, !.todo = Unfinished,
                            !.due = {a \in Apps : journal[a].started}]
    /\ UNCHANGED <<server, down, up, mirror, journal, local, repository, published, touched>>

SendHello ==
    /\ At("hello") /\ Len(up) < MaxQueue
    /\ up' = Append(up, [kind |-> "hello", instance |-> instance])
    /\ work' = Rest
    /\ UNCHANGED <<server, down, mirror, instance, journal, local, repository, published, touched>>

\* Mutant: a commit that is found is noted, not finished.
RecoverByNote(a) ==
    /\ a \in work.todo
    /\ journal' = [journal EXCEPT ![a] = Note(@, Observed(a))]
    /\ work' = [work EXCEPT !.todo = @ \ {a}]
    /\ UNCHANGED <<server, down, up, mirror, instance, local, repository, published, touched>>

\* recover_started_applications
Recover(a) ==
    /\ a \in work.todo
    /\ journal' = [journal EXCEPT ![a] =
           IF Observed(a) = "applied" THEN Finish(@, "applied") ELSE Note(@, Observed(a))]
    /\ work' = [work EXCEPT !.todo = @ \ {a}]
    /\ UNCHANGED <<server, down, up, mirror, instance, local, repository, published, touched>>

\* The repository cannot be read: the application is neither judged nor reported.
Defer(a) ==
    /\ \/ a \in work.todo /\ journal[a].recovery # "not_started"
       \/ At("report") /\ a \in work.due /\ journal[a].finished = "failed"
    /\ work' = [work EXCEPT !.todo = @ \ {a}, !.due = @ \ {a}]
    /\ UNCHANGED <<server, down, up, mirror, instance, journal, local, repository, published,
                   touched>>

\* report_recovered_applications, once per application and epoch.  The applied
\* result is repeated; what is unfinished goes by its verdict; what failed is
\* inspected.
Due(a) == a \in work.due /\ mirror # 0 /\ journal[a].reported # mirror

Report(a) ==
    LET e == journal[a]
        verdict == IF e.finished = "applied" THEN "applied"
                   ELSE IF e.recovery # "none" THEN e.recovery ELSE Inspect(a)
    IN  /\ At("report") /\ Due(a)
        /\ work' = [Serve(<<"say", "mark">>
                             \o (IF verdict = "applied" THEN <<"transition">> ELSE <<>>)
                             \o work.plan, a, verdict)
                    EXCEPT !.due = @ \ {a}]
        /\ UNCHANGED <<server, down, up, mirror, instance, journal, local, repository,
                       published, touched>>

EndReport ==
    /\ At("report") /\ \A a \in Apps : ~Due(a)
    /\ work' = Rest
    /\ UNCHANGED <<server, down, up, mirror, instance, journal, local, repository, published,
                   touched>>

\* enqueue_application_reconciled
Say ==
    /\ At("say") /\ Len(up) < MaxQueue
    /\ up' = Append(up, [kind |-> "reconciled", app |-> work.app, epoch |-> mirror,
                         original |-> journal[work.app].original, verdict |-> work.verdict])
    /\ work' = Rest
    /\ UNCHANGED <<server, down, mirror, instance, journal, local, repository, published, touched>>

\* mark_reported
Mark ==
    /\ At("mark")
    /\ journal' = [journal EXCEPT ![work.app].reported = mirror]
    /\ work' = Rest
    /\ UNCHANGED <<server, down, up, mirror, instance, local, repository, published, touched>>

\* transition_candidate_state
Transition ==
    /\ At("transition")
    /\ local' = IF local = "applied" THEN local ELSE work.verdict
    /\ work' = Rest
    /\ UNCHANGED <<server, down, up, mirror, instance, journal, repository, published, touched>>

\* The cursor passes the frame.
Consume ==
    /\ At("consume")
    /\ down' = Tail(down) /\ work' = Rest
    /\ UNCHANGED <<server, up, mirror, instance, journal, local, repository, published, touched>>
-----------------------------------------------------------------------------
(* Device: an apply command *)

Commanded == work = Idle /\ down # <<>> /\ Head(down).kind = "apply"
\* A lease has one holder, and the server lets nobody else send a command under it.
Current(c) == c.instance = instance /\ c.epoch = mirror /\ c.exact

Unresolved == {a \in Unfinished : journal[a].recovery = "outcome_unknown"}

\* Mutant: an unresolved application blocks itself, not the others.
BlockedByItself(a) == IF Unresolved = {} THEN {FALSE} ELSE {b = a : b \in Unresolved}

\* blocked_application, and the comparison with its answer: the query stops at the
\* first unresolved application it meets, whichever it is.
Blocked(a) == IF Unresolved = {} THEN {FALSE} ELSE {b # a : b \in Unresolved}

\* A command of another lease, revision or instance is refused and consumed, and so
\* is one that an unresolved application blocks.
RefuseCommand ==
    /\ Commanded /\ (Current(Head(down)) => TRUE \in Blocked(Head(down).app))
    /\ down' = Tail(down)
    /\ UNCHANGED <<server, up, device, repository, published, touched>>

\* pending_apply_result: an applied result of this command waits in the outbox.
Pending(a) ==
    \E i \in DOMAIN up : /\ up[i].kind = "result" /\ up[i].app = a
                         /\ up[i].epoch = mirror /\ up[i].verdict = "applied"

\* replay_finished_application: under the lease it was started with, the result
\* is sent again; under a later one it is reported as recovered.
Replay(a, result) ==
    LET move == IF result = "applied" THEN <<"transition">> ELSE <<>>
    IN  IF journal[a].original # mirror
        THEN Serve(<<"say">> \o move \o <<"consume">>, a,
                   IF result = "applied" THEN result ELSE Inspect(a))
        ELSE IF Pending(a) THEN Serve(<<"transition", "consume">>, a, result)
        ELSE Serve(<<"answer", "transition", "consume">>, a, result)

ReplayFinished ==
    LET a == Head(down).app
    IN  /\ Commanded /\ Current(Head(down)) /\ FALSE \in Blocked(a)
        /\ journal[a].finished # "none"
        /\ work' = Replay(a, journal[a].finished)
        /\ UNCHANGED <<server, down, up, mirror, instance, journal, local, repository,
                       published, touched>>

\* An attempt that was cut short had put its commit on the branch.
FinishFound ==
    LET a == Head(down).app
    IN  /\ Commanded /\ Current(Head(down)) /\ FALSE \in Blocked(a)
        /\ a \in Unfinished /\ Observed(a) = "applied"
        /\ journal' = [journal EXCEPT ![a] = Finish(@, "applied")]
        /\ work' = Replay(a, "applied")
        /\ UNCHANGED <<server, down, up, mirror, instance, local, repository, published,
                       touched>>

\* May the interrupted attempt be repeated?
MayRetry(c) == c.retry /\ journal[c.app].recovery = "not_started"

\* If not, the verdict is noted and reported.
AskForDecision ==
    LET a == Head(down).app
    IN  /\ Commanded /\ Current(Head(down)) /\ FALSE \in Blocked(a)
        /\ a \in Unfinished /\ Observed(a) # "applied" /\ ~MayRetry(Head(down))
        /\ journal' = [journal EXCEPT ![a] = Note(@, Observed(a))]
        /\ work' = Serve(<<"say", "consume">>, a, Observed(a))
        /\ UNCHANGED <<server, down, up, mirror, instance, local, repository, published,
                       touched>>

\* A fresh application is journalled before anything else is done; a retry goes on
\* with its entry.
Start ==
    LET c == Head(down)
        a == c.app
        fresh == ~journal[a].started
    IN  /\ Commanded /\ Current(c) /\ FALSE \in Blocked(a) /\ local # "applied"
        /\ IF fresh THEN ~c.retry ELSE a \in Unfinished /\ MayRetry(c)
        /\ journal' = IF fresh
             THEN [journal EXCEPT ![a] = [NoEntry EXCEPT !.started = TRUE, !.original = c.epoch]]
             ELSE journal
        /\ work' = Serve(<<"begin">>, a, "none")
        /\ UNCHANGED <<server, down, up, mirror, instance, local, repository, published,
                       touched>>

\* A command for a candidate that is already applied stops the daemon; its frame
\* is delivered again to the next instance.
StartTerminal ==
    LET c == Head(down)
    IN  /\ Commanded /\ Current(c) /\ FALSE \in Blocked(c.app) /\ local = "applied"
        /\ journal[c.app].finished = "none" /\ (journal[c.app].started => MayRetry(c))
        /\ work' = [Idle EXCEPT !.plan = <<"dead">>]
        /\ UNCHANGED <<server, down, up, mirror, instance, journal, local, repository,
                       published, touched>>

BeginAttempt ==
    /\ At("begin")
    /\ journal' = [journal EXCEPT ![work.app] = Begin(@)]
    /\ work' = Proceed(<<"attempt">>)
    /\ UNCHANGED <<server, down, up, mirror, instance, local, repository, published, touched>>
-----------------------------------------------------------------------------
(* Device: one attempt *)

Ending == <<"finish", "answer", "transition", "consume">>

\* The checks of run_attempt fail, or the worktree cannot be created: nothing was
\* touched, and the verdict is reported at once.
NotStarted ==
    /\ At("attempt")
    /\ journal' = [journal EXCEPT ![work.app] = Note(@, "not_started")]
    /\ work' = Serve(<<"say", "mark", "consume">>, work.app, "not_started")
    /\ UNCHANGED <<server, down, up, mirror, instance, local, repository, published, touched>>

\* The branch has left the base.
BaseStale ==
    /\ At("attempt") /\ branch[work.app] # <<>>
    /\ work' = Serve(Ending, work.app, "failed")
    /\ UNCHANGED <<server, down, up, mirror, instance, journal, local, repository, published,
                   touched>>

\* The worktree is added and run_strategy integrates in it: with success, with a
\* conflict (the worktree is kept), or with another failure.
Integrate ==
    /\ At("attempt") /\ branch[work.app] = <<>> /\ ~dirty
    /\ worktree' = worktree \cup {work.app}
    /\ work' \in {Proceed(<<"publish">>), Serve(Ending, work.app, "failed"),
                  Serve(<<"cleanup">> \o Ending, work.app, "failed")}
    /\ UNCHANGED <<server, down, up, mirror, instance, journal, local, branch, dirty,
                   published, touched>>

\* publish_resulting_commit: the branch moves only from the expected head.  A branch
\* that is not checked out is moved by compare-and-swap.  For one that is, the head is
\* compared first and git merge --ff-only refuses one that is no ancestor of the commit,
\* as the head is after a commit of the user in between; a user who checks another
\* branch out in between is left out ...
MoveBranch ==
    /\ At("publish") /\ branch[work.app] = <<>>
    /\ branch' = [branch EXCEPT ![work.app] = <<"app">>]
    /\ published' = published \cup {work.app}
    /\ work' = Serve(<<"cleanup">> \o Ending, work.app, "applied")
    /\ UNCHANGED <<server, down, up, mirror, instance, journal, local, dirty, worktree, touched>>

\* Mutant: the exit status of the update is not looked at.
RefuseMoveUnnoticed ==
    /\ At("publish")
    /\ work' = Serve(<<"cleanup">> \o Ending, work.app, "applied")
    /\ UNCHANGED <<server, down, up, mirror, instance, journal, local, repository, published,
                   touched>>

\* ... and not if the checkout became dirty, the branch moved, or Git failed.
RefuseMove ==
    /\ At("publish")
    /\ work' = Serve(<<"cleanup">> \o Ending, work.app, "failed")
    /\ UNCHANGED <<server, down, up, mirror, instance, journal, local, repository, published,
                   touched>>

\* cleanup_attempt
Cleanup ==
    /\ At("cleanup")
    /\ worktree' = worktree \ {work.app} /\ work' = Rest
    /\ UNCHANGED <<server, down, up, mirror, instance, journal, local, branch, dirty,
                   published, touched>>

FinishAttempt ==
    /\ At("finish")
    /\ journal' = [journal EXCEPT ![work.app] = Finish(@, work.verdict)]
    /\ work' = Rest
    /\ UNCHANGED <<server, down, up, mirror, instance, local, repository, published, touched>>

\* enqueue_apply_result
Answer ==
    /\ At("answer") /\ Len(up) < MaxQueue
    /\ up' = Append(up, [kind |-> "result", app |-> work.app, epoch |-> mirror,
                         verdict |-> work.verdict])
    /\ work' = Rest
    /\ UNCHANGED <<server, down, mirror, instance, journal, local, repository, published, touched>>
-----------------------------------------------------------------------------
(* The user of the repository *)

CommitToBranch(a) ==
    /\ touched < MaxUser
    /\ branch' = [branch EXCEPT ![a] = Append(@, "user")] /\ touched' = touched + 1
    /\ UNCHANGED <<server, down, up, device, dirty, worktree, published>>

RewindBranch(a) ==
    /\ touched < MaxUser /\ branch[a] # <<>>
    /\ branch' = [branch EXCEPT ![a] = <<>>] /\ touched' = touched + 1
    /\ UNCHANGED <<server, down, up, device, dirty, worktree, published>>

EditWorkingTree ==
    /\ touched < MaxUser
    /\ dirty' = ~dirty /\ touched' = touched + 1
    /\ UNCHANGED <<server, down, up, device, branch, worktree, published>>
-----------------------------------------------------------------------------
(* Server: the frames of the device *)

Incoming == up # <<>>
Frame == Head(up)

TakeHello ==
    /\ Incoming /\ Frame.kind = "hello"
    /\ known' = Frame.instance /\ up' = Tail(up)
    /\ UNCHANGED <<lease, occupied, minted, prepared, commands, row, receipt, candidate, seen,
                   halfway, down, device, repository, published, touched>>

TakeAck ==
    /\ Incoming /\ Frame.kind = "ack"
    /\ occupied' = (occupied \/ Frame.epoch = lease) /\ up' = Tail(up)
    /\ UNCHANGED <<lease, minted, prepared, commands, row, receipt, candidate, seen, halfway,
                   known, down, device, repository, published, touched>>

\* settle_candidate_apply_result: a result carries the lease of the approval or of
\* the retry.
Authorised(f) == f.epoch \in {row[f.app].original, row[f.app].retry}

\* settle_application_reconciled: a recovery report carries the current lease and
\* names the approval's.
Recognised(f) == f.epoch = lease /\ f.original = row[f.app].original

\* Does the frame bring a result to record?
Settles(f) ==
    \/ f.kind = "result" /\ f.app \notin seen /\ Authorised(f) /\ f.epoch = lease
    \/ /\ f.kind = "reconciled" /\ f.verdict = "applied" /\ Recognised(f)
       /\ row[f.app].result = "none"

Notes(f) == f.kind = "reconciled" /\ f.verdict # "applied" /\ Recognised(f)

\* note_candidate_application_outcome refuses to turn an unknown outcome into a
\* known one; the exchange answers "unavailable" and the frame is sent again.
Stuck(f) == row[f.app].outcome = "outcome_unknown" /\ f.verdict = "not_started"
Poisoned == Incoming /\ Frame.kind = "reconciled" /\ Notes(Frame) /\ Stuck(Frame)

\* Mutant: the row is settled before the receipt is written.
RecordRowFirst ==
    LET a == Frame.app
    IN  /\ Incoming /\ Frame.kind \in {"result", "reconciled"} /\ ~halfway
        /\ Settles(Frame) /\ receipt[a] \in {"none", Frame.verdict}
        /\ row' = [row EXCEPT ![a].result = Frame.verdict, ![a].outcome = Frame.verdict]
        /\ halfway' = TRUE
        /\ UNCHANGED <<lease, occupied, minted, prepared, commands, receipt, candidate, seen,
                       known, down, up, device, repository, published, touched>>

\* record_reconciled_apply_result: the receipt and the candidate, in one transaction.
RecordReceipt ==
    LET a == Frame.app
    IN  /\ Incoming /\ Frame.kind \in {"result", "reconciled"} /\ ~halfway
        /\ Settles(Frame) /\ receipt[a] \in {"none", Frame.verdict}
        /\ receipt' = [receipt EXCEPT ![a] = Frame.verdict]
        /\ candidate' = IF receipt[a] # "none" \/ Terminal(candidate)
                        THEN candidate ELSE Frame.verdict
        /\ halfway' = TRUE
        /\ UNCHANGED <<lease, occupied, minted, prepared, commands, row, seen, known, down, up,
                       device, repository, published, touched>>

Answered == IF Frame.kind = "result" THEN seen \cup {Frame.app} ELSE seen

\* settle_candidate_application, a transaction of its own, and the answer.
SettleRow ==
    LET r == row[Frame.app]
    IN  /\ halfway
        /\ row' = IF r.result \in {"none", Frame.verdict}
             THEN [row EXCEPT ![Frame.app].result = Frame.verdict,
                              ![Frame.app].outcome = Frame.verdict]
             ELSE row
        /\ halfway' = FALSE /\ seen' = Answered /\ up' = Tail(up)
        /\ UNCHANGED <<lease, occupied, minted, prepared, commands, receipt, candidate, known,
                       down, device, repository, published, touched>>

\* The exchange fails between the two: the frame is sent again.
ServerFails ==
    /\ halfway
    /\ halfway' = FALSE
    /\ UNCHANGED <<lease, occupied, minted, prepared, commands, row, receipt, candidate, seen,
                   known, down, up, device, repository, published, touched>>

\* note_candidate_application_outcome
NoteOutcome ==
    /\ Incoming /\ Frame.kind = "reconciled" /\ Notes(Frame) /\ ~Stuck(Frame)
    /\ row' = IF row[Frame.app].result = "none"
              THEN [row EXCEPT ![Frame.app].outcome = Frame.verdict] ELSE row
    /\ up' = Tail(up)
    /\ UNCHANGED <<lease, occupied, minted, prepared, commands, receipt, candidate, seen,
                   halfway, known, down, device, repository, published, touched>>

\* A repeated, refused or superseded report is answered and changes no application.
PassOver ==
    /\ Incoming /\ Frame.kind \in {"result", "reconciled"} /\ ~halfway
    /\ ~(Settles(Frame) /\ receipt[Frame.app] \in {"none", Frame.verdict})
    /\ ~Notes(Frame)
    /\ seen' = Answered /\ up' = Tail(up)
    /\ UNCHANGED <<lease, occupied, minted, prepared, commands, row, receipt, candidate,
                   halfway, known, down, device, repository, published, touched>>
-----------------------------------------------------------------------------
Requests == Claim \/ Release \/ PrepareApply \/ (\E a \in Apps : Publish(a)) \/ Discard

Handling ==
    \/ TakeOffer \/ RefuseOffer \/ SendAck \/ SendHello \/ (\E a \in Apps : Recover(a) \/ Defer(a))
    \/ (\E a \in Apps : Report(a)) \/ EndReport \/ Say \/ Mark \/ Transition
    \/ Consume \/ RefuseCommand \/ ReplayFinished \/ FinishFound \/ AskForDecision \/ Start
    \/ StartTerminal \/ BeginAttempt \/ NotStarted \/ BaseStale \/ Integrate
    \/ MoveBranch \/ RefuseMove \/ Cleanup \/ FinishAttempt \/ Answer

User == (\E a \in Apps : CommitToBranch(a) \/ RewindBranch(a)) \/ EditWorkingTree

Exchange ==
    TakeHello \/ TakeAck \/ RecordReceipt \/ SettleRow \/ ServerFails \/ NoteOutcome \/ PassOver

Next == Requests \/ Handling \/ Relaunch \/ User \/ Exchange

Spec == Init /\ [][Next]_vars
-----------------------------------------------------------------------------
(* Properties *)

OnBranch(a) == \E i \in DOMAIN branch[a] : branch[a][i] = "app"

\* What the server records is true: an application is recorded as applied only
\* after its commit was put on the branch, and as failed only if the branch does
\* not hold it (settle_candidate_apply_result, settle_application_reconciled).
SettledIsTrue ==
    \A a \in Apps :
        /\ "applied" \in {receipt[a], row[a].result} => a \in published
        /\ "failed" \in {receipt[a], row[a].result} => ~OnBranch(a)

\* The verdict that lets an application be tried again is never outdated: while
\* the journal says not_started, the commit is not on the branch and no worktree
\* of the application is left (note_recovery_outcome, begin_application_attempt).
NotStartedIsTrue ==
    \A a \in Unfinished : journal[a].recovery = "not_started" => ~OnBranch(a) /\ a \notin worktree

\* The three records of the server agree although they are written in two
\* transactions that another request may come between.
RecordsAgree ==
    \A a \in Apps :
        /\ row[a].result # "none" => receipt[a] = row[a].result
        /\ receipt[a] = "applied" => Terminal(candidate)

\* While the outcome of an application is unknown the device starts no work for
\* its candidate, and the doubt ends only when the commit is found
\* (blocked_application, recover_started_applications).
UnknownBlocks ==
    [][\A a \in Unfinished : journal[a].recovery = "outcome_unknown" =>
          /\ worktree' \subseteq worktree
          /\ \/ journal'[a].finished = "none" /\ journal'[a].recovery = "outcome_unknown"
             \/ journal'[a].finished = "applied" /\ OnBranch(a)]_vars

\* The device is at rest under the server's lease and none of its frames about
\* the application is on the way.
AtRest(a) ==
    /\ work = Idle /\ lease # 0 /\ lease = mirror
    /\ \A i \in DOMAIN up : up[i].kind \in {"result", "reconciled"} => up[i].app # a

\* No applied result is lost: once the device is at rest, what it finished as
\* applied is settled at the server, although the daemon may have stopped before it
\* sent the result, and the lease may have changed before the result arrived; if
\* the entry was started with the lease of the approval
\* (report_recovered_applications, replay_finished_application).
AppliedIsSettled ==
    \A a \in Apps :
        /\ AtRest(a) /\ journal[a].finished = "applied"
        /\ journal[a].original = row[a].original
        => row[a].result = "applied"

\* The same for every application the device carries out: one approved under an
\* earlier lease, whose command was refused, may be sent again under the current
\* one, and the device carries it out (apply_candidate, publish_candidate_application).
EveryAppliedIsSettled ==
    \A a \in Apps :
        AtRest(a) /\ journal[a].finished = "applied" => row[a].result = "applied"

\* The device never contradicts what it reported: an outcome the server holds for
\* unknown is not reported as not_started, a report the exchange would refuse to
\* answer for ever (report_recovered_applications, note_candidate_application_outcome).
NeverPoisoned == ~Poisoned
=============================================================================
