-------------------------- MODULE OccupancyInvariant --------------------------
(***************************************************************************)
(* The inductive invariant behind the theorems of OccupancyProofs: what a  *)
(* handler, a command or an answer that is still under way may assume of   *)
(* the mirror, however old the readings it carries.                        *)
(***************************************************************************)
EXTENDS Occupancy

\* The device holds the authority of lease l.
Holds(l) == mirror.lease = l /\ mirror.token = leases[l].token

\* The device has installed the token of lease l or a larger one.
Reached(l) == l \in 1..Len(leases) /\ leases[l].token <= mirror.token

\* A revision known for lease l: exact for as long as the device holds it.
Fits(l, rev) == Reached(l) /\ rev <= mirror.rev /\ (Holds(l) => rev = mirror.rev)

\* A fence may be on its way: the lease is over for good.
Ended(l, rev) == Fits(l, rev) /\ leases[l].state = "forced"

\* Minted for a fence: no lease has this token or ever will.
FenceToken(token) ==
    token <= lastToken /\ \A l \in 1..Len(leases) : leases[l].token # token

CommandSound(kind, l, token, rev) ==
    /\ l \in 1..Len(leases)
    /\ kind # "fence" => token = leases[l].token
    /\ kind = "release" => Fits(l, rev)
    /\ kind = "fence" => Ended(l, rev) /\ leases[l].token < token /\ FenceToken(token)

\* What a handler has read or committed, step by step.
WorkSound(h) ==
    LET w == work[h]
    IN  /\ w.step \in {"withdraw", "await"} => w.lease \in 1..Len(leases)
        /\ w.step \in {"end", "drain"} =>
              w.kind = "release" /\ CommandSound("release", w.lease, w.token, view)
        /\ w.step = "force" => w.kind = "fence" /\ Fits(w.lease, view)
        /\ w.step = "mint" => w.kind = "fence" /\ Ended(w.lease, view)
        /\ w.step = "view" => w.kind # "none" /\ CommandSound(w.kind, w.lease, w.token, view)
        /\ w.step = "append" => w.kind # "none" /\ CommandSound(w.kind, w.lease, w.token, w.rev)

AnswerSound(a) ==
    /\ a.lease \in 1..Len(leases) /\ a.rev <= mirror.rev
    /\ a.kind = "ack" => Fits(a.lease, a.rev)

\* Tokens are minted in the order of the leases, and only the last lease is active.
LeasesInOrder ==
    \A l \in 1..Len(leases) :
        /\ 0 < leases[l].token /\ leases[l].token <= lastToken
        /\ \A k \in 1..l : k < l => leases[k].token < leases[l].token
        /\ leases[l].state \in ActiveStates => l = Len(leases)

MirrorSound ==
    /\ mirror.rev <= mirror.token /\ view <= mirror.rev
    /\ mirror.lease <= Len(leases) /\ (mirror.rev # 0 => mirror.lease # 0)

\* The device obeys nothing, a lease, or the fence of a lease that is over.
MirrorKnown ==
    mirror.token # 0 =>
        /\ mirror.lease \in 1..Len(leases)
        /\ \/ mirror.token = leases[mirror.lease].token
           \/ leases[mirror.lease].state = "forced" /\ FenceToken(mirror.token)

HeldKnown == \A l \in 1..Len(leases) : leases[l].state \in HeldStates => Fits(l, view)

CommandsSound ==
    \A i \in 1..Len(down) :
        CommandSound(down[i].kind, down[i].lease, down[i].token, down[i].rev)

AnswersSound == \A i \in 1..Len(up) : AnswerSound(up[i])

WorksSound == \A h \in Handlers : WorkSound(h)

ObservedIsKnown == observed => up # <<>> /\ Head(up).rev <= view

FencedIsGone == \A l \in fenced : Reached(l) /\ ~Holds(l)

IInv ==
    /\ TypeOK /\ LeasesInOrder /\ MirrorSound /\ MirrorKnown /\ HeldKnown
    /\ CommandsSound /\ AnswersSound /\ WorksSound /\ ObservedIsKnown /\ FencedIsGone
=============================================================================
