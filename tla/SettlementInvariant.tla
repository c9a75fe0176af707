------------------------ MODULE SettlementInvariant ------------------------
(***************************************************************************)
(* The inductive invariant behind SettlementProofs: which lease a command, *)
(* an entry of the journal and a frame belong to, and who will tell the    *)
(* server that an application is applied.  It adds to IInv, which says     *)
(* what the records and the frames mean.                                   *)
(***************************************************************************)
EXTENDS ApplicationInvariant

(* Leases *)

\* Leases are granted in order, and offers arrive in that order.
LeasesSound ==
    /\ lease \in {0, minted} /\ mirror <= minted /\ prepared.epoch <= minted
    /\ \A i \in 1..Len(down) : down[i].kind = "offer" =>
          /\ mirror <= down[i].epoch /\ down[i].epoch <= minted
          /\ \A j \in 1..Len(down) : i < j /\ down[j].kind = "offer" =>
                down[i].epoch <= down[j].epoch

\* A permission to try again names a lease, and is never replaced by an older one.
RetrySound(a) ==
    /\ row[a].retry <= minted
    /\ prepared # NoRequest => row[a].retry <= prepared.epoch

CommandSound(c) ==
    c.kind = "apply" => row[c.app].granted /\ (c.retry => c.epoch <= row[c.app].retry)

CommandsSound == \A i \in 1..Len(down) : CommandSound(down[i])

\* What is journalled was approved, under a lease the device has seen.
EntryTimely(a) ==
    /\ journal[a].started => row[a].granted
    /\ journal[a].original <= mirror /\ journal[a].reported <= mirror
    /\ a \in seen => journal[a].finished # "none"

\* The lease e may settle the result of a, as far as the lease of the approval
\* is the one of the journal.
Covers(e, a) == e = journal[a].original \/ e <= row[a].retry
-----------------------------------------------------------------------------
(* Handlers and frames *)

SayFirst(plan) == \A i \in 1..Len(plan) : plan[i] = "say" => i = 1

ResultOf(f, a) == f.kind = "result" /\ f.app = a

\* No result of the application has been sent.
Untold(a) == a \notin seen /\ \A i \in 1..Len(up) : ~ResultOf(up[i], a)

Attempting == \E s \in {"begin", "attempt", "publish", "cleanup", "finish", "answer"} : Within(s)

WorkTimely ==
    /\ work.todo \subseteq work.due /\ \A a \in work.due : journal[a].started
    /\ SayFirst(work.plan) /\ (Within("say") => journal[work.app].started)
    /\ Attempting => Covers(mirror, work.app)
    /\ work.plan = Answering => journal[work.app].original = mirror \/ Untold(work.app)

FrameTimely(f) ==
    /\ f.kind = "result" => /\ journal[f.app].original <= f.epoch /\ f.epoch <= mirror
                            /\ Covers(f.epoch, f.app)
    /\ f.kind = "reconciled" => /\ journal[f.app].started
                                /\ f.original = journal[f.app].original

\* All results of an application are sent under one lease.
FramesTimely ==
    \A i \in 1..Len(up) :
        /\ FrameTimely(up[i])
        /\ \A j \in 1..Len(up) : up[i].kind = "result" /\ ResultOf(up[j], up[i].app) =>
              up[i].epoch = up[j].epoch
-----------------------------------------------------------------------------
(* Telling the server *)

\* The application is applied, and the device holds the lease of the server.
Waiting(a) ==
    /\ lease # 0 /\ lease = mirror
    /\ journal[a].finished = "applied" /\ journal[a].original = row[a].original

Tells(f, a) ==
    /\ f.kind \in {"result", "reconciled"} /\ f.app = a
    /\ f.verdict = "applied" /\ f.epoch = mirror
    /\ f.kind = "result" => a \notin seen

\* The server knows, or a frame on the way will tell it.
Told(a) == row[a].result = "applied" \/ \E i \in 1..Len(up) : Tells(up[i], a)

\* The daemon is about to send such a frame.
SaysApplied(a) == Within("say") /\ work.app = a /\ work.verdict = "applied"
WillTell(a) ==
    \/ work.plan = Answering /\ work.app = a
    \/ SaysApplied(a)
    \/ /\ journal[a].reported # mirror
       /\ Within("ack") \/ (Within("report") /\ a \in work.due)

TellSound(a) ==
    Waiting(a) =>
        /\ Told(a) \/ WillTell(a)
        /\ journal[a].reported = mirror => Told(a)
        /\ Within("mark") /\ work.app = a => Told(a) \/ SaysApplied(a)
        /\ a \in seen /\ journal[a].original = mirror => row[a].result = "applied"

SInv ==
    /\ LeasesSound /\ CommandsSound /\ WorkTimely /\ FramesTimely
    /\ \A a \in Apps : RetrySound(a) /\ EntryTimely(a) /\ TellSound(a)
=============================================================================
