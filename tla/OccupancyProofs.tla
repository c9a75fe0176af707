--------------------------- MODULE OccupancyProofs ---------------------------
(***************************************************************************)
(* The safety of the occupancy protocol, for every number of handlers,     *)
(* leases, tokens and sessions and every queue length.                     *)
(***************************************************************************)
EXTENDS OccupancyInvariant, SequenceTheorems, TLAPS

(***************************************************************************)
(* What every step does to the two sides: leases are never forgotten,      *)
(* never change their token and never come back, and a new one has a new   *)
(* token; the mirror either stays or moves to a larger token and the next  *)
(* revision; the server's view grows, up to the revision the device had    *)
(* before the step.                                                        *)
(***************************************************************************)
LeasesMove ==
    /\ Len(leases) <= Len(leases') /\ lastToken <= lastToken'
    /\ \A l \in 1..Len(leases) :
          /\ leases'[l].token = leases[l].token
          /\ leases[l].state \in OverStates => leases'[l].state = leases[l].state
    /\ \A l \in 1..Len(leases') : l \in 1..Len(leases) \/ lastToken < leases'[l].token

MirrorMoves ==
    \/ mirror' = mirror
    \/ mirror'.token > mirror.token /\ mirror'.rev = mirror.rev + 1

Moves == LeasesMove /\ MirrorMoves /\ view <= view' /\ view' <= mirror.rev
-----------------------------------------------------------------------------
(* What such a step keeps *)

\* TypeOK, read one variable at a time.
LEMMA Types ==
    ASSUME TypeOK
    PROVE  /\ Len(leases) \in Nat /\ lastToken \in Nat /\ view \in Nat
           /\ \A l \in 1..Len(leases) : leases[l] \in LeaseRecords /\ leases[l].token \in Nat
           /\ \A h \in Handlers : work[h] \in Works
           /\ \A i \in 1..Len(down) : down[i] \in Commands /\ down[i].rev \in Nat
                                      /\ down[i].token \in Nat
           /\ \A i \in 1..Len(up) : up[i] \in Answers /\ up[i].rev \in Nat
           /\ mirror.lease \in Nat /\ mirror.token \in Nat /\ mirror.rev \in Nat
  <1>1. Len(leases) \in Nat /\ lastToken \in Nat /\ view \in Nat
    BY OccupancyBounds DEF TypeOK, Tokens, Revisions, Leases0
  <1>2. \A l \in 1..Len(leases) : leases[l] \in LeaseRecords /\ leases[l].token \in Nat
    <2>1. \A l \in 1..Len(leases) : leases[l] \in LeaseRecords
      BY DEF TypeOK
    <2> QED BY <2>1, OccupancyBounds DEF LeaseRecords, Tokens
  <1>3. \A i \in 1..Len(down) : down[i] \in Commands /\ down[i].rev \in Nat
                                /\ down[i].token \in Nat
    <2>1. \A i \in 1..Len(down) : down[i] \in Commands
      BY DEF TypeOK
    <2> QED BY <2>1, OccupancyBounds DEF Commands, Revisions, Tokens
  <1>4. \A i \in 1..Len(up) : up[i] \in Answers /\ up[i].rev \in Nat
    <2>1. \A i \in 1..Len(up) : up[i] \in Answers
      BY DEF TypeOK
    <2> QED BY <2>1, OccupancyBounds DEF Answers, Revisions
  <1>5. mirror.lease \in Nat /\ mirror.token \in Nat /\ mirror.rev \in Nat
    BY OccupancyBounds DEF TypeOK, Leases0, Tokens, Revisions
  <1>6. \A h \in Handlers : work[h] \in Works
    BY DEF TypeOK
  <1> QED BY <1>1, <1>2, <1>3, <1>4, <1>5, <1>6

\* Whatever was known of a lease and a revision is still known afterwards, also
\* when the revision has grown to what the device had before the step.
LEMMA FitsCarried ==
    ASSUME TypeOK, TypeOK', LeasesMove, MirrorMoves,
           NEW l, NEW rev \in Nat, NEW next \in Nat, Fits(l, rev),
           rev <= next, next <= mirror.rev
    PROVE  Fits(l, next)'
  <1>1. /\ l \in 1..Len(leases) /\ l \in 1..Len(leases')
        /\ leases'[l].token = leases[l].token
    BY Types DEF Fits, Reached, LeasesMove, TypeOK
  <1>2. leases[l].token \in Nat /\ mirror.token \in Nat /\ mirror.rev \in Nat
        /\ mirror'.token \in Nat /\ mirror'.rev \in Nat
    <2>1. mirror'.token \in Nat /\ mirror'.rev \in Nat
      BY OccupancyBounds DEF TypeOK, Tokens, Revisions
    <2> QED BY <1>1, <2>1, Types
  <1>3. CASE mirror' = mirror
    BY <1>1, <1>2, <1>3 DEF Fits, Reached, Holds
  <1>4. CASE mirror'.token > mirror.token /\ mirror'.rev = mirror.rev + 1
    BY <1>1, <1>2, <1>4 DEF Fits, Reached, Holds
  <1> QED BY <1>3, <1>4 DEF MirrorMoves

LEMMA EndedCarried ==
    ASSUME TypeOK, TypeOK', LeasesMove, MirrorMoves,
           NEW l, NEW rev \in Nat, NEW next \in Nat, Ended(l, rev),
           rev <= next, next <= mirror.rev
    PROVE  Ended(l, next)'
  <1>1. Fits(l, next)'
    BY FitsCarried DEF Ended
  <1>2. (leases[l].state = "forced")'
    BY DEF Ended, Fits, Reached, LeasesMove, OverStates
  <1> QED BY <1>1, <1>2 DEF Ended

\* A token minted for a fence is never given to a lease.
LEMMA FenceTokenCarried ==
    ASSUME TypeOK, TypeOK', LeasesMove, NEW token \in Nat, FenceToken(token)
    PROVE  FenceToken(token)'
  <1>1. lastToken \in Nat /\ lastToken' \in Nat
    BY OccupancyBounds DEF TypeOK, Tokens
  <1>2. token <= lastToken'
    BY <1>1 DEF FenceToken, LeasesMove
  <1>3. ASSUME NEW l \in 1..Len(leases') PROVE leases'[l].token # token
    <2>1. CASE l \in 1..Len(leases)
      BY <2>1 DEF FenceToken, LeasesMove
    <2>2. CASE lastToken < leases'[l].token
      BY <1>1, <2>2 DEF FenceToken
    <2> QED BY <1>3, <2>1, <2>2 DEF LeasesMove
  <1> QED BY <1>2, <1>3 DEF FenceToken

LEMMA CommandCarried ==
    ASSUME TypeOK, TypeOK', LeasesMove, MirrorMoves,
           NEW kind, NEW l, NEW token \in Nat, NEW rev \in Nat, NEW next \in Nat,
           CommandSound(kind, l, token, rev),
           kind \in {"release", "fence"} => rev <= next /\ next <= mirror.rev
    PROVE  CommandSound(kind, l, token, next)'
  <1>1. /\ l \in 1..Len(leases') /\ leases'[l].token = leases[l].token
    BY Types DEF CommandSound, LeasesMove, TypeOK
  <1>2. kind = "release" => Fits(l, next)'
    BY FitsCarried DEF CommandSound
  <1>3. kind = "fence" => Ended(l, next)' /\ FenceToken(token)'
    BY EndedCarried, FenceTokenCarried DEF CommandSound
  <1> QED BY <1>1, <1>2, <1>3 DEF CommandSound

LEMMA AnswerCarried ==
    ASSUME TypeOK, TypeOK', LeasesMove, MirrorMoves,
           NEW a, a.rev \in Nat, AnswerSound(a)
    PROVE  AnswerSound(a)'
  <1>1. a.lease \in 1..Len(leases')
    BY Types DEF AnswerSound, LeasesMove, TypeOK
  <1>2. a.rev <= mirror'.rev
    BY Types DEF AnswerSound, MirrorMoves
  <1>3. a.kind = "ack" => Fits(a.lease, a.rev)'
    BY FitsCarried DEF AnswerSound
  <1> QED BY <1>1, <1>2, <1>3 DEF AnswerSound
-----------------------------------------------------------------------------
(* The parts of the invariant that a step carries over *)

LEMMA KeepCommands ==
    ASSUME IInv, TypeOK', Moves, down' = down
    PROVE  CommandsSound'
  <1> SUFFICES ASSUME NEW i \in 1..Len(down)
               PROVE  CommandSound(down[i].kind, down[i].lease, down[i].token, down[i].rev)'
    BY DEF CommandsSound
  <1>1. CommandSound(down[i].kind, down[i].lease, down[i].token, down[i].rev)
        /\ down[i].rev \in Nat /\ down[i].token \in Nat /\ mirror.rev \in Nat
    BY Types DEF IInv, CommandsSound
  <1>2. down[i].kind \in {"release", "fence"} => down[i].rev <= mirror.rev
    BY <1>1 DEF CommandSound, Ended, Fits
  <1> QED BY <1>1, <1>2, CommandCarried DEF IInv, Moves

LEMMA KeepAnswers ==
    ASSUME IInv, TypeOK', Moves, up' = up
    PROVE  AnswersSound'
  <1> SUFFICES ASSUME NEW i \in 1..Len(up)
               PROVE  AnswerSound(up[i])'
    BY DEF AnswersSound
  <1>1. AnswerSound(up[i]) /\ up[i].rev \in Nat
    BY Types DEF IInv, AnswersSound
  <1> QED BY <1>1, AnswerCarried DEF IInv, Moves

LEMMA KeepWork ==
    ASSUME IInv, TypeOK', Moves, NEW h \in Handlers, work'[h] = work[h]
    PROVE  WorkSound(h)'
  <1> DEFINE w == work[h]
  <1>1. WorkSound(h) /\ w \in Works /\ view \in Nat /\ view' \in Nat /\ mirror.rev \in Nat
    BY Types, OccupancyBounds DEF IInv, WorksSound, TypeOK, Revisions
  <1>2. w.rev \in Nat /\ w.token \in Nat
    BY <1>1, OccupancyBounds DEF Works, Revisions, Tokens
  <1>3. ASSUME w.step = "mint" PROVE w.kind = "fence" /\ Ended(w.lease, view)'
    BY <1>1, <1>3, EndedCarried DEF WorkSound, IInv, Moves
  <1>4. ASSUME w.step = "view"
        PROVE  w.kind # "none" /\ CommandSound(w.kind, w.lease, w.token, view)'
    BY <1>1, <1>2, <1>4, CommandCarried DEF WorkSound, IInv, Moves
  <1>5. ASSUME w.step = "append"
        PROVE  w.kind # "none" /\ CommandSound(w.kind, w.lease, w.token, w.rev)'
    <2>1. CommandSound(w.kind, w.lease, w.token, w.rev)
      BY <1>1, <1>5 DEF WorkSound
    <2>2. w.kind \in {"release", "fence"} => w.rev <= mirror.rev
      BY <2>1 DEF CommandSound, Ended, Fits
    <2> QED BY <1>1, <1>2, <1>5, <2>1, <2>2, CommandCarried DEF WorkSound, IInv, Moves
  <1>6. ASSUME w.step \in {"withdraw", "await"} PROVE w.lease \in 1..Len(leases')
    BY <1>1, <1>6, Types DEF WorkSound, IInv, Moves, LeasesMove, TypeOK
  <1>7. ASSUME w.step \in {"end", "drain"}
        PROVE  w.kind = "release" /\ CommandSound("release", w.lease, w.token, view)'
    BY <1>1, <1>2, <1>7, CommandCarried DEF WorkSound, IInv, Moves
  <1>8. ASSUME w.step = "force" PROVE w.kind = "fence" /\ Fits(w.lease, view)'
    BY <1>1, <1>8, FitsCarried DEF WorkSound, IInv, Moves
  <1> QED BY <1>3, <1>4, <1>5, <1>6, <1>7, <1>8 DEF WorkSound

LEMMA KeepFenced ==
    ASSUME IInv, TypeOK', Moves, fenced' = fenced
    PROVE  FencedIsGone'
  <1> SUFFICES ASSUME NEW l \in fenced
               PROVE  Reached(l)' /\ ~Holds(l)'
    BY DEF FencedIsGone
  <1>1. /\ l \in 1..Len(leases) /\ l \in 1..Len(leases')
        /\ leases'[l].token = leases[l].token /\ leases[l].token <= mirror.token
        /\ ~Holds(l)
    BY Types DEF IInv, FencedIsGone, Reached, Moves, LeasesMove, TypeOK
  <1>2. leases[l].token \in Nat /\ mirror.token \in Nat /\ mirror'.token \in Nat
    <2>1. mirror'.token \in Nat
      BY OccupancyBounds DEF TypeOK, Tokens
    <2> QED BY <1>1, <2>1, Types DEF IInv
  <1>3. CASE mirror' = mirror
    BY <1>1, <1>3 DEF Reached, Holds
  <1>4. CASE mirror'.token > mirror.token
    BY <1>1, <1>2, <1>4 DEF Reached, Holds
  <1> QED BY <1>3, <1>4 DEF Moves, MirrorMoves

\* A lease that was confirmed before is still known.
LEMMA KeepHeld ==
    ASSUME IInv, TypeOK', Moves, NEW l \in 1..Len(leases),
           leases[l].state \in HeldStates
    PROVE  Fits(l, view)'
  <1>1. Fits(l, view) /\ view \in Nat /\ view' \in Nat /\ mirror.rev \in Nat
    BY Types, OccupancyBounds DEF IInv, HeldKnown, TypeOK, Revisions
  <1> QED BY <1>1, FitsCarried DEF IInv, Moves

LEMMA KeepMirror ==
    ASSUME IInv, TypeOK', Moves, mirror' = mirror
    PROVE  MirrorSound' /\ MirrorKnown'
  <1>1. Len(leases) \in Nat /\ Len(leases') \in Nat /\ mirror.lease \in Nat
        /\ mirror.token \in Nat
    BY Types DEF IInv, TypeOK
  <1>2. MirrorSound'
    BY <1>1 DEF IInv, MirrorSound, Moves, LeasesMove
  <1>3. FenceToken(mirror.token) => FenceToken(mirror.token)'
    <2>1. PICK t \in Nat : t = mirror.token
      BY <1>1
    <2>2. FenceToken(t) => FenceToken(t)'
      BY FenceTokenCarried DEF IInv, Moves
    <2> QED BY <2>1, <2>2 DEF FenceToken
  <1>4. MirrorKnown'
    BY <1>1, <1>3 DEF IInv, MirrorKnown, Moves, LeasesMove, OverStates
  <1> QED BY <1>2, <1>4

\* A step that changes no lease and mints nothing.
LEMMA KeepLeases ==
    ASSUME IInv, TypeOK', Moves, leases' = leases, lastToken' = lastToken
    PROVE  LeasesInOrder' /\ HeldKnown'
  <1>1. LeasesInOrder'
    BY DEF IInv, LeasesInOrder
  <1>2. HeldKnown'
    BY KeepHeld DEF HeldKnown
  <1> QED BY <1>1, <1>2

\* A step that changes neither the leases, the mirror nor the view moves nothing.
LEMMA Still ==
    ASSUME IInv, leases' = leases, lastToken <= lastToken', mirror' = mirror, view' = view
    PROVE  Moves
  <1>1. Len(leases) \in Nat /\ view \in Nat /\ mirror.rev \in Nat
    BY Types DEF IInv
  <1> QED BY <1>1 DEF Moves, LeasesMove, MirrorMoves, IInv, MirrorSound
-----------------------------------------------------------------------------
(* Changing the state of one lease *)

LEMMA SetStateEffect ==
    ASSUME TypeOK, NEW l \in Active, NEW s \in ActiveStates \cup OverStates,
           SetState(l, s), lastToken' = lastToken
    PROVE  /\ l \in 1..Len(leases)
           /\ leases' \in Seq(LeaseRecords) /\ Len(leases') = Len(leases)
           /\ leases'[l].state = s
           /\ \A k \in 1..Len(leases) : leases'[k].token = leases[k].token
           /\ \A k \in 1..Len(leases) : k # l => leases'[k] = leases[k]
           /\ LeasesMove
  <1>1. l \in 1..Len(leases) /\ leases[l].state \in ActiveStates
    BY DEF Active
  <1>2. leases \in Seq(LeaseRecords) /\ \A k \in 1..Len(leases) : leases[k] \in LeaseRecords
    BY DEF TypeOK
  <1>3. [leases[l] EXCEPT !.state = s] \in LeaseRecords
    BY <1>1, <1>2 DEF LeaseRecords
  <1>4. leases' = [leases EXCEPT ![l] = [leases[l] EXCEPT !.state = s]]
    BY DEF SetState
  <1>5. leases' \in Seq(LeaseRecords) /\ Len(leases') = Len(leases)
    BY <1>1, <1>2, <1>3, <1>4
  <1>6. leases'[l] = [leases[l] EXCEPT !.state = s]
    BY <1>1, <1>2, <1>4
  <1>7. \A k \in 1..Len(leases) : k # l => leases'[k] = leases[k]
    BY <1>1, <1>2, <1>4
  <1>8. leases'[l].state = s /\ leases'[l].token = leases[l].token
    BY <1>1, <1>2, <1>6 DEF LeaseRecords
  <1>9. \A k \in 1..Len(leases) : leases'[k].token = leases[k].token
    BY <1>7, <1>8
  <1>10. \A k \in 1..Len(leases) : leases[k].state \in OverStates => leases'[k].state = leases[k].state
    BY <1>1, <1>7 DEF ActiveStates, HeldStates, OverStates
  <1>11. Len(leases) <= Len(leases') /\ lastToken <= lastToken'
    BY <1>5, Types
  <1> QED BY <1>1, <1>5, <1>7, <1>8, <1>9, <1>10, <1>11 DEF LeasesMove

LEMMA SetStateKeeps ==
    ASSUME IInv, TypeOK', Moves, lastToken' = lastToken,
           NEW l \in Active, NEW s \in ActiveStates \cup OverStates, SetState(l, s),
           s \in HeldStates => Fits(l, view)'
    PROVE  LeasesInOrder' /\ HeldKnown'
  <1>1. /\ l \in 1..Len(leases) /\ Len(leases') = Len(leases)
        /\ leases'[l].state = s
        /\ \A k \in 1..Len(leases) : leases'[k].token = leases[k].token
        /\ \A k \in 1..Len(leases) : k # l => leases'[k] = leases[k]
    BY SetStateEffect DEF IInv
  <1>2. l = Len(leases) /\ Len(leases) \in Nat
    BY Types DEF IInv, LeasesInOrder, Active
  <1>3. LeasesInOrder'
    <2> SUFFICES ASSUME NEW k \in 1..Len(leases)
                 PROVE  /\ 0 < leases'[k].token /\ leases'[k].token <= lastToken
                        /\ \A j \in 1..k : j < k => leases'[j].token < leases'[k].token
                        /\ leases'[k].state \in ActiveStates => k = Len(leases)
      BY <1>1 DEF LeasesInOrder
    <2>1. /\ 0 < leases[k].token /\ leases[k].token <= lastToken
          /\ \A j \in 1..k : j < k => leases[j].token < leases[k].token
          /\ leases[k].state \in ActiveStates => k = Len(leases)
      BY DEF IInv, LeasesInOrder
    <2>2. \A j \in 1..k : j \in 1..Len(leases)
      BY <1>2
    <2> QED BY <1>1, <1>2, <2>1, <2>2
  <1>4. HeldKnown'
    BY <1>1, KeepHeld DEF HeldKnown
  <1> QED BY <1>3, <1>4
-----------------------------------------------------------------------------
(* Requests *)

\* What a step of one handler has to show.
LEMMA HandlerStep ==
    ASSUME IInv, TypeOK', Moves, NEW h \in Handlers, WorkSound(h)',
           \A k \in Handlers \ {h} : work'[k] = work[k],
           LeasesInOrder', HeldKnown', CommandsSound',
           UNCHANGED <<up, observed, view, mirror, fenced>>
    PROVE  IInv'
  <1>1. MirrorSound' /\ MirrorKnown' /\ AnswersSound' /\ FencedIsGone'
    BY KeepMirror, KeepAnswers, KeepFenced
  <1>2. WorksSound'
    BY KeepWork DEF WorksSound
  <1>3. ObservedIsKnown'
    BY DEF IInv, ObservedIsKnown
  <1> QED BY <1>1, <1>2, <1>3 DEF IInv

\* The handler goes on to w and nothing else changes.
LEMMA WorkOnly ==
    ASSUME IInv, NEW h \in Handlers, NEW w \in Works,
           work' = [work EXCEPT ![h] = w],
           UNCHANGED <<server, sweep, emptied, observed, down, up, mirror, fenced>>,
           WorkSound(h)'
    PROVE  IInv'
  <1>1. TypeOK'
    BY DEF IInv, TypeOK, server
  <1>2. Moves
    BY Still, Types DEF server, IInv
  <1>3. LeasesInOrder' /\ HeldKnown' /\ CommandsSound'
    BY <1>1, <1>2, KeepLeases, KeepCommands DEF server
  <1>4. \A k \in Handlers \ {h} : work'[k] = work[k]
    BY DEF IInv, TypeOK
  <1> QED BY <1>1, <1>2, <1>3, <1>4, HandlerStep DEF server

LEMMA NoWorkType == NoWork \in Works
  BY OccupancyBounds DEF NoWork, Works, Steps, Leases0, Tokens, Revisions

LEMMA IdleStep ==
    ASSUME IInv, NEW h \in Handlers, work' = [work EXCEPT ![h] = NoWork],
           UNCHANGED <<server, sweep, emptied, observed, down, up, mirror, fenced>>
    PROVE  IInv'
  <1>1. work'[h] = NoWork
    BY DEF IInv, TypeOK
  <1>2. WorkSound(h)'
    BY <1>1 DEF WorkSound, NoWork
  <1> QED BY <1>2, NoWorkType, WorkOnly

LEMMA ClaimKeeps ==
    ASSUME IInv, NEW h \in Handlers, Claim(h)
    PROVE  IInv'
  <1> DEFINE n == Len(leases) + 1
             new == [state |-> "reserving", token |-> lastToken + 1]
             w == [step |-> "view", kind |-> "offer", lease |-> n,
                   token |-> lastToken + 1, rev |-> 0]
  <1>1. /\ leases \in Seq(LeaseRecords) /\ Len(leases) \in Nat /\ lastToken \in Nat
        /\ n \in Leases0 /\ lastToken + 1 \in Tokens
    BY Types, OccupancyBounds DEF IInv, TypeOK, Claim, Leases0, Tokens
  <1>2. new \in LeaseRecords
    BY <1>1 DEF LeaseRecords, ActiveStates
  <1>3. leases' = Append(leases, new)
    BY DEF Claim
  <1>4. /\ leases' \in Seq(LeaseRecords) /\ Len(leases') = n /\ leases'[n] = new
        /\ \A l \in 1..Len(leases) : leases'[l] = leases[l]
    BY <1>1, <1>2, <1>3
  <1>5. w \in Works /\ work' = [work EXCEPT ![h] = w]
    <2>1. w \in Works
      BY <1>1, OccupancyBounds DEF Works, Steps, Revisions
    <2> QED BY <1>4, <2>1 DEF Claim
  <1>6. TypeOK'
    BY <1>1, <1>4, <1>5 DEF IInv, TypeOK, Claim
  <1>7. Moves
    <2>1. \A l \in 1..Len(leases') : l \in 1..Len(leases) \/ lastToken < leases'[l].token
      BY <1>1, <1>4
    <2> QED BY <1>1, <1>4, <2>1, Types DEF IInv, MirrorSound, Moves, LeasesMove, MirrorMoves, Claim
  <1>8. LeasesInOrder'
    <2>1. ASSUME NEW l \in 1..Len(leases)
          PROVE  /\ 0 < leases'[l].token /\ leases'[l].token <= lastToken'
                 /\ \A k \in 1..l : k < l => leases'[k].token < leases'[l].token
                 /\ leases'[l].state \in ActiveStates => l = Len(leases')
      <3>1. /\ 0 < leases[l].token /\ leases[l].token <= lastToken /\ leases[l].token \in Nat
            /\ \A k \in 1..l : k < l => leases[k].token < leases[l].token
            /\ leases[l].state \notin ActiveStates
        BY Types DEF IInv, LeasesInOrder, Claim, ClaimGate, Active
      <3>2. \A k \in 1..l : k \in 1..Len(leases)
        BY <1>1
      <3> QED BY <1>1, <1>4, <3>1, <3>2 DEF Claim
    <2>2. /\ 0 < leases'[n].token /\ leases'[n].token <= lastToken'
          /\ \A k \in 1..n : k < n => leases'[k].token < leases'[n].token
      <3>1. \A k \in 1..Len(leases) : leases[k].token <= lastToken /\ leases[k].token \in Nat
        BY Types DEF IInv, LeasesInOrder
      <3>2. \A k \in 1..n : k \in 1..Len(leases) \/ k = n
        BY <1>1
      <3> QED BY <1>1, <1>4, <3>1, <3>2 DEF Claim
    <2>3. \A l \in 1..Len(leases') : l \in 1..Len(leases) \/ l = n
      BY <1>1, <1>4
    <2> QED BY <1>4, <2>1, <2>2, <2>3 DEF LeasesInOrder
  <1>9. HeldKnown'
    <2> SUFFICES ASSUME NEW l \in 1..Len(leases'), leases'[l].state \in HeldStates
                 PROVE  Fits(l, view)'
      BY DEF HeldKnown
    <2>1. l \in 1..Len(leases)
      BY <1>1, <1>4 DEF HeldStates
    <2> QED BY <1>4, <1>6, <1>7, <2>1, KeepHeld
  <1>10. CommandsSound'
    BY <1>6, <1>7, KeepCommands DEF Claim
  <1>11. work'[h] = w /\ \A k \in Handlers \ {h} : work'[k] = work[k]
    BY <1>5 DEF IInv, TypeOK
  <1>12. WorkSound(h)'
    <2>1. n \in 1..Len(leases') /\ leases'[n].token = lastToken + 1
      BY <1>1, <1>4
    <2>2. /\ w.step = "view" /\ w.kind = "offer" /\ w.lease = n /\ w.token = lastToken + 1
      OBVIOUS
    <2> HIDE DEF n, w
    <2> QED BY <1>11, <2>1, <2>2 DEF WorkSound, CommandSound
  <1> QED BY <1>6, <1>7, <1>8, <1>9, <1>10, <1>11, <1>12, HandlerStep DEF Claim

LEMMA ClaimAgainKeeps ==
    ASSUME IInv, NEW h \in Handlers, ClaimAgain(h)
    PROVE  IInv'
  <1>1. PICK l \in Active :
            work' = [work EXCEPT ![h] = [NoWork EXCEPT !.step = "await", !.lease = l]]
    BY DEF ClaimAgain
  <1> DEFINE w == [NoWork EXCEPT !.step = "await", !.lease = l]
  <1>2. l \in 1..Len(leases) /\ l \in Leases0
    BY OccupancyBounds DEF Active, IInv, TypeOK, Leases0
  <1>3. w \in Works /\ w.step = "await" /\ w.lease = l
    BY <1>2, NoWorkType DEF Works, Steps
  <1>4. work'[h] = w
    BY <1>1 DEF IInv, TypeOK
  <1>5. WorkSound(h)'
    BY <1>2, <1>3, <1>4 DEF WorkSound, ClaimAgain, server
  <1> QED BY <1>1, <1>3, <1>5, WorkOnly DEF ClaimAgain

LEMMA ReadViewKeeps ==
    ASSUME IInv, NEW h \in Handlers, ReadView(h)
    PROVE  IInv'
  <1> DEFINE w == [work[h] EXCEPT !.step = "append", !.rev = view]
  <1>1. work[h] \in Works /\ view \in Revisions
    BY DEF IInv, TypeOK
  <1>2. /\ w \in Works /\ w.step = "append" /\ w.rev = view /\ w.kind = work[h].kind
        /\ w.lease = work[h].lease /\ w.token = work[h].token
    BY <1>1 DEF Works, Steps
  <1>3. work' = [work EXCEPT ![h] = w]
    BY DEF ReadView, IInv, TypeOK
  <1>4. work'[h] = w
    BY <1>3 DEF IInv, TypeOK
  <1>5. w.kind # "none" /\ CommandSound(w.kind, w.lease, w.token, w.rev)
    BY <1>2 DEF IInv, WorksSound, WorkSound, ReadView
  <1>7. WorkSound(h)'
    <2> HIDE DEF w
    <2> QED BY <1>2, <1>4, <1>5 DEF WorkSound, CommandSound, Ended, FenceToken, Fits, Reached, Holds,
                                    ReadView, server
  <1> QED BY <1>2, <1>3, <1>7, WorkOnly DEF ReadView

LEMMA AppendCommandKeeps ==
    ASSUME IInv, NEW h \in Handlers, AppendCommand(h)
    PROVE  IInv'
  <1> DEFINE c == [kind |-> work[h].kind, lease |-> work[h].lease,
                   token |-> work[h].token, rev |-> work[h].rev]
             w == IF work[h].kind = "offer" THEN [work[h] EXCEPT !.step = "await"] ELSE NoWork
  <1>1. work[h] \in Works /\ work[h].kind # "none"
        /\ CommandSound(work[h].kind, work[h].lease, work[h].token, work[h].rev)
    BY DEF IInv, TypeOK, WorksSound, WorkSound, AppendCommand
  <1>2. c \in Commands
    BY <1>1 DEF Commands, Works
  <1>3. down' = Append(down, c) /\ down \in Seq(Commands)
    BY DEF AppendCommand, IInv, TypeOK
  <1>4. w \in Works /\ (w.step = "await" => w.lease = work[h].lease) /\ w.step \in {"idle", "await"}
    BY <1>1, NoWorkType DEF Works, Steps, NoWork
  <1>5. work' = [work EXCEPT ![h] = w]
    BY DEF AppendCommand, IInv, TypeOK
  <1>6. work'[h] = w /\ \A k \in Handlers \ {h} : work'[k] = work[k]
    BY <1>5 DEF IInv, TypeOK
  <1>7. TypeOK'
    <2>1. down' \in Seq(Commands)
      BY <1>2, <1>3
    <2>2. work' \in [Handlers -> Works]
      BY <1>4, <1>5 DEF IInv, TypeOK
    <2> QED BY <2>1, <2>2 DEF IInv, TypeOK, AppendCommand, server
  <1>8. Moves
    BY Still, Types DEF AppendCommand, server, IInv
  <1>9. LeasesInOrder' /\ HeldKnown'
    BY <1>7, <1>8, KeepLeases DEF AppendCommand, server
  <1>10. CommandsSound'
    <2> DEFINE Sound(d) == CommandSound(d.kind, d.lease, d.token, d.rev)
    <2>1. Len(down') = Len(down) + 1 /\ down'[Len(down) + 1] = c
          /\ \A i \in 1..Len(down) : down'[i] = down[i]
      BY <1>2, <1>3
    <2>2. \A i \in 1..Len(down') : i \in 1..Len(down) \/ i = Len(down) + 1
      BY <1>3, <2>1
    <2>3. \A i \in 1..Len(down) : Sound(down[i])
      BY DEF IInv, CommandsSound
    <2>4. Sound(c)
      BY <1>1
    <2>5. \A i \in 1..Len(down') : Sound(down'[i])
      BY <2>1, <2>2, <2>3, <2>4
    <2> QED BY <2>5 DEF CommandsSound, CommandSound, Ended, FenceToken, Fits, Reached, Holds,
                        AppendCommand, server
  <1>11. WorkSound(h)'
    <2>1. work[h].lease \in 1..Len(leases')
      BY <1>1 DEF CommandSound, AppendCommand, server
    <2> QED BY <1>4, <1>6, <2>1 DEF WorkSound
  <1> QED BY <1>6, <1>7, <1>8, <1>9, <1>10, <1>11, HandlerStep DEF AppendCommand, server

\* A request that changes the state of the active lease and hands w to its handler.
LEMMA SetStateStep ==
    ASSUME IInv, NEW h \in Handlers, NEW l \in Active, NEW s \in OverStates \cup {"draining"},
           SetState(l, s), s \in HeldStates => leases[l].state \in HeldStates,
           NEW w \in Works, work' = [work EXCEPT ![h] = w],
           UNCHANGED <<lastToken, wasDraining, online, reported, view, sweep, emptied,
                       observed, down, up, mirror, fenced>>
    PROVE  /\ TypeOK' /\ Moves
           /\ work'[h] = w /\ leases'[l].state = s /\ leases'[l].token = leases[l].token
           /\ l \in 1..Len(leases) /\ Len(leases') = Len(leases)
           /\ WorkSound(h)' => IInv'
  <1>1. s \in ActiveStates \cup OverStates
    BY DEF ActiveStates, HeldStates
  <1>2. /\ l \in 1..Len(leases) /\ leases' \in Seq(LeaseRecords) /\ Len(leases') = Len(leases)
        /\ leases'[l].state = s /\ leases'[l].token = leases[l].token /\ LeasesMove
    BY <1>1, SetStateEffect DEF IInv
  <1>3. TypeOK'
    BY <1>2 DEF IInv, TypeOK
  <1>4. Moves
    BY <1>2, Types DEF IInv, MirrorSound, Moves, MirrorMoves
  <1>5. s \in HeldStates => Fits(l, view)'
    BY <1>2, <1>3, <1>4, KeepHeld
  <1>6. LeasesInOrder' /\ HeldKnown'
    BY <1>1, <1>3, <1>4, <1>5, SetStateKeeps
  <1>7. CommandsSound'
    BY <1>3, <1>4, KeepCommands
  <1>8. work'[h] = w /\ \A k \in Handlers \ {h} : work'[k] = work[k]
    BY DEF IInv, TypeOK
  <1>9. WorkSound(h)' => IInv'
    BY <1>3, <1>4, <1>6, <1>7, <1>8, HandlerStep
  <1> QED BY <1>2, <1>3, <1>4, <1>8, <1>9

LEMMA ClaimTimesOutKeeps ==
    ASSUME IInv, NEW h \in Handlers, ClaimTimesOut(h)
    PROVE  IInv'
  <1> DEFINE l == work[h].lease
  <1>1. l \in Active
    BY DEF ClaimTimesOut, IInv, WorksSound, WorkSound, Active, ActiveStates
  <1>2. work' = [work EXCEPT ![h] = NoWork] /\ SetState(l, "withdrawn")
    BY DEF ClaimTimesOut
  <1>3. work'[h] = NoWork
    BY <1>2 DEF IInv, TypeOK
  <1>4. WorkSound(h)'
    BY <1>3 DEF WorkSound, NoWork
  <1> QED BY <1>1, <1>2, <1>4, NoWorkType, SetStateStep DEF ClaimTimesOut, HeldStates, OverStates

LEMMA ReleaseKeeps ==
    ASSUME IInv, NEW h \in Handlers, Release(h)
    PROVE  IInv'
  <1>1. ASSUME NEW l \in Active,
               work' = [work EXCEPT ![h] = [NoWork EXCEPT !.step = "withdraw", !.lease = l]]
        PROVE  IInv'
    <2> DEFINE w == [NoWork EXCEPT !.step = "withdraw", !.lease = l]
    <2>2. l \in 1..Len(leases) /\ l \in Leases0
      BY OccupancyBounds DEF Active, IInv, TypeOK, Leases0
    <2>3. w \in Works /\ w.step = "withdraw" /\ w.lease = l
      BY <2>2, NoWorkType DEF Works, Steps
    <2>4. work'[h] = w
      BY <1>1 DEF IInv, TypeOK
    <2>5. WorkSound(h)'
      BY <2>2, <2>3, <2>4 DEF WorkSound, Release, server
    <2> QED BY <1>1, <2>3, <2>5, WorkOnly DEF Release
  <1>2. ASSUME NEW l \in Active, leases[l].state = "occupied", NEW step \in {"end", "drain"},
               work' = [work EXCEPT ![h] = [step |-> step, kind |-> "release",
                           lease |-> l, token |-> leases[l].token, rev |-> 0]]
        PROVE  IInv'
    <2> DEFINE w == [step |-> step, kind |-> "release", lease |-> l,
                     token |-> leases[l].token, rev |-> 0]
    <2>1. l \in 1..Len(leases) /\ l \in Leases0 /\ leases[l].token \in Tokens
      <3>1. l \in 1..Len(leases) /\ l \in Leases0
        BY OccupancyBounds DEF Active, IInv, TypeOK, Leases0
      <3>2. leases[l] \in LeaseRecords
        BY <3>1, Types DEF IInv
      <3> QED BY <3>1, <3>2 DEF LeaseRecords
    <2>2. w \in Works
      BY <2>1, OccupancyBounds DEF Works, Steps, Revisions
    <2>3. Fits(l, view)
      BY <1>2, <2>1 DEF IInv, HeldKnown, HeldStates
    <2>4. work'[h] = w
      BY <1>2 DEF IInv, TypeOK
    <2>5. /\ w.step \in {"end", "drain"} /\ w.kind = "release" /\ w.lease = l
          /\ w.token = leases[l].token
      OBVIOUS
    <2>6. WorkSound(h)'
      <3> HIDE DEF w
      <3> QED BY <2>1, <2>3, <2>4, <2>5 DEF WorkSound, CommandSound, Fits, Reached, Holds,
                                            Release, server
    <2> QED BY <1>2, <2>2, <2>6, WorkOnly DEF Release
  <1>3. (IF reported = 0 THEN "end" ELSE "drain") \in {"end", "drain"}
    OBVIOUS
  <1> QED BY <1>1, <1>2, <1>3 DEF Release

\* A step of h that leaves the leases alone and gives up.
LEMMA GivesUp ==
    ASSUME IInv, NEW h \in Handlers, work' = [work EXCEPT ![h] = NoWork],
           UNCHANGED <<leases, lastToken, wasDraining, online, reported, view, sweep,
                       emptied, observed, down, up, mirror, fenced>>
    PROVE  IInv'
  BY IdleStep DEF server

LEMMA WithdrawKeeps ==
    ASSUME IInv, NEW h \in Handlers, Withdraw(h)
    PROVE  IInv'
  <1> DEFINE l == work[h].lease
  <1>1. l \in 1..Len(leases)
    BY DEF Withdraw, IInv, WorksSound, WorkSound
  <1>2. CASE leases[l].state = "reserving"
    <2>1. l \in Active
      BY <1>1, <1>2 DEF Active, ActiveStates
    <2>2. SetState(l, "withdrawn") /\ work' = [work EXCEPT ![h] = NoWork]
      BY <1>2 DEF Withdraw, RejectOffer
    <2>3. work'[h] = NoWork
      BY <2>2 DEF IInv, TypeOK
    <2>4. WorkSound(h)'
      BY <2>3 DEF WorkSound, NoWork
    <2> QED BY <2>1, <2>2, <2>4, NoWorkType, SetStateStep DEF Withdraw, HeldStates, OverStates
  <1>3. CASE leases[l].state # "reserving"
    BY <1>3, GivesUp DEF Withdraw, RejectOffer
  <1> QED BY <1>2, <1>3

LEMMA RequestReleaseKeeps ==
    ASSUME IInv, NEW h \in Handlers, RequestRelease(h)
    PROVE  IInv'
  <1> DEFINE w == [work[h] EXCEPT !.step = "view"]
             l == work[h].lease
             s == IF work[h].step = "end" THEN "released" ELSE "draining"
  <1>1. /\ work[h] \in Works /\ work[h].kind = "release"
        /\ CommandSound("release", work[h].lease, work[h].token, view)
    BY DEF IInv, TypeOK, WorksSound, WorkSound, RequestRelease
  <1>2. /\ w \in Works /\ w.step = "view" /\ w.kind = "release"
        /\ w.lease = work[h].lease /\ w.token = work[h].token
    BY <1>1 DEF Works, Steps
  <1>3. work[h].token \in Nat /\ view \in Nat /\ mirror.rev \in Nat
        /\ view <= mirror.rev
    BY <1>1, Types, OccupancyBounds DEF Works, Tokens, IInv, MirrorSound
  <1>4. UNCHANGED <<lastToken, wasDraining, online, reported, view, sweep, emptied,
                    observed, down, up, mirror, fenced>>
    BY DEF RequestRelease
  <1>5. CASE leases[l].state = "occupied" /\ SetState(l, s) /\ work' = [work EXCEPT ![h].step = "view"]
    <2>1. l \in Active /\ leases[l].state \in HeldStates
      BY <1>1, <1>5 DEF Active, ActiveStates, HeldStates, CommandSound
    <2>2. work' = [work EXCEPT ![h] = w]
      BY <1>5 DEF IInv, TypeOK
    <2>3. s \in OverStates \cup {"draining"}
      BY DEF OverStates
    <2>4. TypeOK' /\ Moves /\ work'[h] = w /\ (WorkSound(h)' => IInv')
      <3> HIDE DEF w, l, s
      <3> QED BY <1>2, <1>4, <1>5, <2>1, <2>2, <2>3, SetStateStep
    <2>5. CommandSound("release", work[h].lease, work[h].token, view)'
      <3>1. PICK n : n = work[h].lease
        OBVIOUS
      <3>2. PICK t \in Nat : t = work[h].token
        BY <1>3
      <3>3. PICK v \in Nat : v = view /\ v <= mirror.rev
        BY <1>3
      <3>4. CommandSound("release", n, t, v)
        BY <1>1, <3>1, <3>2, <3>3
      <3>5. CommandSound("release", n, t, v)'
        BY <2>4, <3>3, <3>4, CommandCarried DEF IInv, Moves
      <3>6. work'[h].lease = n /\ work'[h].token = t /\ view' = v
        BY <1>2, <1>4, <2>4, <3>1, <3>2, <3>3
      <3> QED BY <3>5, <3>6 DEF CommandSound, Fits, Reached, Holds
    <2>6. WorkSound(h)'
      <3> HIDE DEF w, l, s
      <3> QED BY <1>2, <2>4, <2>5 DEF WorkSound
    <2> QED BY <2>4, <2>6
  <1>6. CASE UNCHANGED leases /\ work' = [work EXCEPT ![h] = [@ EXCEPT !.step = "view"]]
    <2>1. work' = [work EXCEPT ![h] = w]
      BY <1>6 DEF IInv, TypeOK
    <2>2. work'[h] = w
      BY <2>1 DEF IInv, TypeOK
    <2>3. WorkSound(h)'
      <3> HIDE DEF w, l, s
      <3> QED BY <1>1, <1>2, <1>4, <1>6, <2>2
              DEF WorkSound, CommandSound, Ended, FenceToken, Fits, Reached, Holds
    <2> HIDE DEF w, l, s
    <2> QED BY <1>2, <1>4, <1>6, <2>1, <2>3, WorkOnly DEF server
  <1>7. CASE UNCHANGED leases /\ work' = [work EXCEPT ![h] = NoWork]
    BY <1>4, <1>7, GivesUp
  <1> QED BY <1>5, <1>6, <1>7 DEF RequestRelease

LEMMA ForceReleaseKeeps ==
    ASSUME IInv, NEW h \in Handlers, ForceRelease(h)
    PROVE  IInv'
  <1>1. PICK l \in Active :
           /\ leases[l].state = "overdue"
           /\ work' = [work EXCEPT ![h] = [step |-> "force", kind |-> "fence",
                          lease |-> l, token |-> 0, rev |-> 0]]
    BY DEF ForceRelease
  <1> DEFINE w == [step |-> "force", kind |-> "fence", lease |-> l, token |-> 0, rev |-> 0]
  <1>2. l \in 1..Len(leases) /\ l \in Leases0
    BY OccupancyBounds DEF Active, IInv, TypeOK, Leases0
  <1>3. w \in Works
    BY <1>2, OccupancyBounds DEF Works, Steps, Revisions, Tokens
  <1>4. Fits(l, view)
    BY <1>1, <1>2 DEF IInv, HeldKnown, HeldStates
  <1>5. work'[h] = w
    BY <1>1 DEF IInv, TypeOK
  <1>6. w.step = "force" /\ w.kind = "fence" /\ w.lease = l
    OBVIOUS
  <1>7. WorkSound(h)'
    <2> HIDE DEF w
    <2> QED BY <1>4, <1>5, <1>6 DEF WorkSound, Fits, Reached, Holds, ForceRelease, server
  <1> QED BY <1>1, <1>3, <1>7, WorkOnly DEF ForceRelease

LEMMA ForceEndKeeps ==
    ASSUME IInv, NEW h \in Handlers, ForceEnd(h)
    PROVE  IInv'
  <1> DEFINE w == [work[h] EXCEPT !.step = "mint"]
             l == work[h].lease
  <1>1. work[h] \in Works /\ work[h].kind = "fence" /\ Fits(work[h].lease, view)
    BY DEF IInv, TypeOK, WorksSound, WorkSound, ForceEnd
  <1>2. w \in Works /\ w.step = "mint" /\ w.kind = "fence" /\ w.lease = work[h].lease
    BY <1>1 DEF Works, Steps
  <1>3. UNCHANGED <<lastToken, wasDraining, online, reported, view, sweep, emptied,
                    observed, down, up, mirror, fenced>>
    BY DEF ForceEnd
  <1>4. CASE leases[l].state = "overdue" /\ SetState(l, "forced")
             /\ work' = [work EXCEPT ![h].step = "mint"]
    <2>1. l \in Active
      BY <1>1, <1>4 DEF Active, ActiveStates, HeldStates, Fits, Reached
    <2>2. work' = [work EXCEPT ![h] = w]
      BY <1>4 DEF IInv, TypeOK
    <2>3. PICK s : s = "forced"
      OBVIOUS
    <2>4. TypeOK' /\ Moves /\ work'[h] = w /\ leases'[l].state = "forced"
          /\ (WorkSound(h)' => IInv')
      <3>1. s \in OverStates \cup {"draining"} /\ s \notin HeldStates /\ SetState(l, s)
        BY <1>4, <2>3 DEF OverStates, HeldStates
      <3> HIDE DEF w, l
      <3>2. TypeOK' /\ Moves /\ work'[h] = w /\ leases'[l].state = s
            /\ (WorkSound(h)' => IInv')
        <4>1. PICK n \in Active : n = l
          BY <2>1
        <4>2. SetState(n, s)
          BY <3>1, <4>1 DEF SetState
        <4>3. TypeOK' /\ Moves /\ work'[h] = w /\ leases'[n].state = s
              /\ (WorkSound(h)' => IInv')
          <5>1. s \in HeldStates => leases[n].state \in HeldStates
            BY <3>1
          <5>2. s \in OverStates \cup {"draining"}
            BY <3>1
          <5>3. w \in Works
            BY <1>2
          <5> QED BY <1>3, <2>2, <4>2, <5>1, <5>2, <5>3, SetStateStep
        <4> QED BY <4>1, <4>3
      <3> QED BY <2>3, <3>2
    <2>5. Fits(work[h].lease, view)'
      <3>1. PICK n : n = work[h].lease
        OBVIOUS
      <3>2. view \in Nat /\ view' = view /\ view <= mirror.rev /\ mirror.rev \in Nat
        BY <1>3, Types DEF IInv, MirrorSound
      <3>3. Fits(n, view)'
        BY <1>1, <2>4, <3>1, <3>2, FitsCarried DEF IInv, Moves, Fits, Reached, Holds
      <3>4. work'[h].lease = n
        BY <1>2, <2>4, <3>1
      <3> QED BY <3>3, <3>4 DEF Fits, Reached, Holds
    <2>6. WorkSound(h)'
      <3>1. leases'[work'[h].lease].state = "forced"
        BY <1>2, <2>4
      <3> HIDE DEF w, l
      <3> QED BY <1>2, <2>4, <2>5, <3>1 DEF WorkSound, Ended
    <2> QED BY <2>4, <2>6
  <1>5. CASE UNCHANGED leases /\ leases[l].state = "forced"
             /\ work' = [work EXCEPT ![h] = [@ EXCEPT !.step = "mint"]]
    <2>1. work' = [work EXCEPT ![h] = w]
      BY <1>5 DEF IInv, TypeOK
    <2>2. work'[h] = w
      BY <2>1 DEF IInv, TypeOK
    <2>3. leases'[w.lease].state = "forced"
      BY <1>2, <1>5
    <2>4. WorkSound(h)'
      <3> HIDE DEF w, l
      <3> QED BY <1>1, <1>2, <1>3, <1>5, <2>2, <2>3 DEF WorkSound, Ended, Fits, Reached, Holds
    <2> HIDE DEF w, l
    <2> QED BY <1>2, <1>3, <1>5, <2>1, <2>4, WorkOnly DEF server
  <1>6. CASE UNCHANGED leases /\ work' = [work EXCEPT ![h] = NoWork]
    BY <1>3, <1>6, GivesUp
  <1> QED BY <1>4, <1>5, <1>6 DEF ForceEnd

LEMMA MintKeeps ==
    ASSUME IInv, NEW h \in Handlers, Mint(h)
    PROVE  IInv'
  <1> DEFINE w == [work[h] EXCEPT !.step = "view", !.token = lastToken + 1]
  <1>1. work[h] \in Works /\ lastToken \in Nat /\ lastToken + 1 \in Tokens
    BY Types, OccupancyBounds DEF IInv, TypeOK, Mint, Tokens
  <1>2. /\ w \in Works /\ w.step = "view" /\ w.kind = work[h].kind
        /\ w.lease = work[h].lease /\ w.token = lastToken + 1
    BY <1>1 DEF Works, Steps
  <1>3. work' = [work EXCEPT ![h] = w]
    BY DEF Mint, IInv, TypeOK
  <1>4. work'[h] = w /\ \A k \in Handlers \ {h} : work'[k] = work[k]
    BY <1>3 DEF IInv, TypeOK
  <1>5. TypeOK'
    <2> HIDE DEF w
    <2> QED BY <1>1, <1>2, <1>3 DEF IInv, TypeOK, Mint
  <1>6. Moves
    BY <1>1, Still DEF Mint
  <1>7. LeasesInOrder'
    BY <1>1, Types DEF IInv, LeasesInOrder, Mint
  <1>8. HeldKnown' /\ CommandsSound'
    BY <1>5, <1>6, KeepHeld, KeepCommands DEF HeldKnown, Mint
  <1>9. w.kind = "fence" /\ Ended(w.lease, view)
    BY <1>2 DEF IInv, WorksSound, WorkSound, Mint
  <1>10. leases[w.lease].token < w.token /\ w.token <= lastToken'
         /\ \A l \in 1..Len(leases) : leases[l].token # w.token
    BY <1>1, <1>2, <1>9, Types DEF IInv, LeasesInOrder, Ended, Fits, Reached, Mint
  <1>11. WorkSound(h)'
    <2> HIDE DEF w
    <2> QED BY <1>2, <1>4, <1>9, <1>10 DEF WorkSound, CommandSound, Ended, FenceToken, Fits, Reached,
                                            Holds, Mint
  <1> QED BY <1>4, <1>5, <1>6, <1>7, <1>8, <1>11, HandlerStep DEF Mint

\* Every request keeps the invariant.
LEMMA RequestKeeps ==
    ASSUME IInv, NEW h \in Handlers, Request(h)
    PROVE  IInv'
  <1>1. CASE HandlerDies(h)
    BY <1>1, IdleStep DEF HandlerDies
  <1>2. CASE ClaimAnswered(h)
    BY <1>2, IdleStep DEF ClaimAnswered
  <1> QED BY <1>1, <1>2, ClaimKeeps, ClaimAgainKeeps, ReadViewKeeps, AppendCommandKeeps,
             ClaimTimesOutKeeps, ReleaseKeeps, WithdrawKeeps, RequestReleaseKeeps,
             ForceReleaseKeeps, ForceEndKeeps, MintKeeps DEF Request
-----------------------------------------------------------------------------
(* Presence and recovery *)

\* What a step that changes only leases and server flags has to show.
LEMMA ServerStep ==
    ASSUME IInv, TypeOK', Moves, LeasesInOrder', HeldKnown',
           UNCHANGED <<work, down, up, mirror, view, observed, fenced>>
    PROVE  IInv'
  <1>1. CommandsSound' /\ AnswersSound' /\ FencedIsGone' /\ MirrorSound' /\ MirrorKnown'
    BY KeepCommands, KeepAnswers, KeepFenced, KeepMirror
  <1>2. WorksSound'
    BY KeepWork DEF WorksSound
  <1>3. ObservedIsKnown'
    BY DEF IInv, ObservedIsKnown
  <1> QED BY <1>1, <1>2, <1>3 DEF IInv

\* A step that changes no lease, no queue and nothing on the device.
LEMMA FlagStep ==
    ASSUME IInv, TypeOK',
           UNCHANGED <<leases, lastToken, view, work, down, up, mirror, observed, fenced>>
    PROVE  IInv'
  <1>1. Moves
    BY Still, Types DEF IInv
  <1>2. LeasesInOrder' /\ HeldKnown'
    BY <1>1, KeepLeases
  <1> QED BY <1>1, <1>2, ServerStep

LEMMA DrainCompleteKeeps ==
    ASSUME IInv, DrainComplete
    PROVE  IInv'
  <1> DEFINE Done(l) == IF leases[l].state = "draining"
                        THEN [leases[l] EXCEPT !.state = "drained"] ELSE leases[l]
  <1>0. CASE UNCHANGED leases
    <2>1. TypeOK'
      BY <1>0 DEF IInv, TypeOK, DrainComplete
    <2> QED BY <1>0, <2>1, FlagStep DEF DrainComplete
  <1>1. leases \in Seq(LeaseRecords) /\ \A l \in 1..Len(leases) : leases[l] \in LeaseRecords
    BY DEF IInv, TypeOK
  <1>2. DOMAIN leases = 1..Len(leases) /\ Len(leases) \in Nat
    BY <1>1
  <1> SUFFICES ASSUME leases' = [l \in 1..Len(leases) |-> Done(l)]
               PROVE  IInv'
    BY <1>0, <1>2 DEF DrainComplete
  <1>4. \A l \in 1..Len(leases) :
            /\ Done(l) \in LeaseRecords /\ Done(l).token = leases[l].token
            /\ leases[l].state \in OverStates => Done(l).state = leases[l].state
            /\ Done(l).state \in ActiveStates => leases[l].state = Done(l).state
    BY <1>1 DEF LeaseRecords, ActiveStates, HeldStates, OverStates
  <1> HIDE DEF Done
  <1>5. leases' \in Seq(LeaseRecords) /\ Len(leases') = Len(leases)
    BY <1>2, <1>4
  <1>6. \A l \in 1..Len(leases) :
            /\ leases'[l].token = leases[l].token
            /\ leases[l].state \in OverStates => leases'[l].state = leases[l].state
            /\ leases'[l].state \in ActiveStates => leases[l].state = leases'[l].state
    BY <1>4
  <1>7. TypeOK'
    BY <1>5 DEF IInv, TypeOK, DrainComplete
  <1>8. Moves
    <2>1. LeasesMove
      BY <1>2, <1>5, <1>6, Types DEF LeasesMove, DrainComplete, IInv
    <2> QED BY <2>1, Types DEF IInv, MirrorSound, Moves, MirrorMoves, DrainComplete
  <1>9. LeasesInOrder'
    <2> SUFFICES ASSUME NEW k \in 1..Len(leases)
                 PROVE  /\ 0 < leases'[k].token /\ leases'[k].token <= lastToken
                        /\ \A j \in 1..k : j < k => leases'[j].token < leases'[k].token
                        /\ leases'[k].state \in ActiveStates => k = Len(leases)
      BY <1>5 DEF LeasesInOrder, DrainComplete
    <2>1. /\ 0 < leases[k].token /\ leases[k].token <= lastToken
          /\ \A j \in 1..k : j < k => leases[j].token < leases[k].token
          /\ leases[k].state \in ActiveStates => k = Len(leases)
      BY DEF IInv, LeasesInOrder
    <2>2. \A j \in 1..k : j \in 1..Len(leases)
      BY <1>2
    <2> QED BY <1>6, <2>1, <2>2
  <1>10. HeldKnown'
    <2> SUFFICES ASSUME NEW l \in 1..Len(leases), leases'[l].state \in HeldStates
                 PROVE  Fits(l, view)'
      BY <1>5 DEF HeldKnown
    <2> QED BY <1>6, <1>7, <1>8, KeepHeld DEF HeldStates, ActiveStates
  <1> QED BY <1>7, <1>8, <1>9, <1>10, ServerStep DEF DrainComplete

\* A confirmed lease goes from one confirmed state to another.
LEMMA RecoveryStep ==
    ASSUME IInv, NEW l \in Active, leases[l].state \in HeldStates, NEW s \in HeldStates,
           SetState(l, s), wasDraining' \in BOOLEAN, sweep' \in BOOLEAN,
           UNCHANGED <<lastToken, online, reported, view, work, emptied, observed, down,
                       up, mirror, fenced>>
    PROVE  IInv'
  <1>0. s \in ActiveStates \cup OverStates
    BY DEF ActiveStates
  <1>1. /\ l \in 1..Len(leases) /\ leases' \in Seq(LeaseRecords)
        /\ Len(leases') = Len(leases) /\ LeasesMove
    BY <1>0, SetStateEffect DEF IInv
  <1>2. TypeOK'
    BY <1>1 DEF IInv, TypeOK
  <1>3. Moves
    BY <1>1, Types DEF IInv, MirrorSound, Moves, MirrorMoves
  <1>4. Fits(l, view)'
    BY <1>1, <1>2, <1>3, KeepHeld
  <1>5. LeasesInOrder' /\ HeldKnown'
    BY <1>0, <1>2, <1>3, <1>4, SetStateKeeps
  <1> QED BY <1>2, <1>3, <1>5, ServerStep

LEMMA MarkRecoveryKeeps ==
    ASSUME IInv, MarkRecovery
    PROVE  IInv'
  <1>1. ASSUME NEW l \in Active, leases[l].state \in {"occupied", "draining"},
               SetState(l, "recovery"), wasDraining' = (leases[l].state = "draining")
        PROVE  IInv'
    <2>1. wasDraining' \in BOOLEAN /\ sweep' \in BOOLEAN
      BY <1>1 DEF MarkRecovery
    <2>2. leases[l].state \in HeldStates /\ "recovery" \in HeldStates
      BY <1>1 DEF HeldStates
    <2> QED BY <1>1, <2>1, <2>2, RecoveryStep DEF MarkRecovery
  <1>2. CASE UNCHANGED <<leases, wasDraining>>
    <2>1. TypeOK'
      BY <1>2 DEF IInv, TypeOK, MarkRecovery
    <2> QED BY <1>2, <2>1, FlagStep DEF MarkRecovery
  <1> QED BY <1>1, <1>2 DEF MarkRecovery

LEMMA DeadlinePassesKeeps ==
    ASSUME IInv, DeadlinePasses
    PROVE  IInv'
  <1>1. PICK l \in Active : leases[l].state = "recovery" /\ SetState(l, "overdue")
    BY DEF DeadlinePasses
  <1>2. wasDraining' \in BOOLEAN /\ sweep' \in BOOLEAN
    BY DEF DeadlinePasses, IInv, TypeOK
  <1>3. leases[l].state \in HeldStates /\ "overdue" \in HeldStates
    BY <1>1 DEF HeldStates
  <1> QED BY <1>1, <1>2, <1>3, RecoveryStep DEF DeadlinePasses

LEMMA PresenceKeeps ==
    ASSUME IInv, \/ SweepOffline \/ SweepDies
                 \/ \E sessions \in 0..MaxSessions : Heartbeat(sessions)
    PROVE  IInv'
  <1>1. CASE SweepOffline \/ SweepDies
    <2>1. TypeOK'
      BY <1>1 DEF IInv, TypeOK, SweepOffline, SweepDies, server
    <2> QED BY <1>1, <2>1, FlagStep DEF SweepOffline, SweepDies, server
  <1>2. ASSUME NEW sessions \in 0..MaxSessions, Heartbeat(sessions) PROVE IInv'
    <2>1. emptied' \in BOOLEAN /\ online' \in BOOLEAN /\ reported' \in 0..MaxSessions
      BY <1>2 DEF Heartbeat
    <2>2. TypeOK'
      BY <1>2, <2>1 DEF IInv, TypeOK, Heartbeat
    <2> QED BY <1>2, <2>2, FlagStep DEF Heartbeat
  <1> QED BY <1>1, <1>2
-----------------------------------------------------------------------------
(* Device *)

\* The first command of the queue is sound, and so are the ones behind it.
LEMMA FirstCommand ==
    ASSUME IInv, down # <<>>
    PROVE  /\ Head(down) \in Commands /\ Head(down).rev \in Nat /\ Head(down).token \in Nat
           /\ CommandSound(Head(down).kind, Head(down).lease, Head(down).token,
                           Head(down).rev)
  <1>1. down \in Seq(Commands) /\ Len(down) \in Nat /\ Len(down) > 0 /\ Head(down) = down[1]
    BY DEF IInv, TypeOK
  <1>2. 1 \in 1..Len(down)
    BY <1>1
  <1> QED BY <1>1, <1>2, Types DEF IInv, CommandsSound

\* What MirrorKnown says, of a mirror that is about to be installed.
Known(m) ==
    m.token # 0 =>
        /\ m.lease \in 1..Len(leases)
        /\ m.token = leases[m.lease].token
           \/ (leases[m.lease].state = "forced" /\ FenceToken(m.token))

\* What consuming a command has to show: the mirror only moves on, the answer
\* knows it, and a consumed fence leaves the authority of its lease behind.
LEMMA CommitKeeps ==
    ASSUME IInv, down # <<>>, NEW installed, NEW reply,
           Commit(Head(down), installed, reply), UNCHANGED <<server, work, sweep, emptied, observed>>,
           installed \in [lease : Leases0, token : Tokens, rev : Revisions],
           reply \in Answers, MirrorMoves, installed.rev <= installed.token,
           installed.lease <= Len(leases), installed.rev # 0 => installed.lease # 0,
           Known(installed), AnswerSound(reply)',
           Head(down).kind = "fence" =>
               ~(/\ installed.lease = Head(down).lease
                 /\ installed.token = leases[Head(down).lease].token)
    PROVE  IInv'
  <1>1. /\ mirror' = installed
        /\ up' = up \/ up' = Append(up, reply)
        /\ down' = down \/ down' = Tail(down)
        /\ \/ fenced' = fenced
           \/ fenced' = fenced \cup {Head(down).lease} /\ Head(down).kind = "fence"
    BY DEF Commit
  <1>2. down \in Seq(Commands) /\ up \in Seq(Answers) /\ Head(down).lease \in Leases0
    BY FirstCommand DEF IInv, TypeOK, Commands
  <1>3. TypeOK'
    <2>1. down' \in Seq(Commands) /\ up' \in Seq(Answers)
      <3>1. Tail(down) \in Seq(Commands) /\ Append(up, reply) \in Seq(Answers)
        BY <1>2
      <3> QED BY <1>1, <1>2, <3>1
    <2>2. fenced' \subseteq Leases0
      BY <1>1, <1>2 DEF IInv, TypeOK
    <2> QED BY <1>1, <2>1, <2>2 DEF IInv, TypeOK, server
  <1>4. Moves
    BY Types DEF IInv, MirrorSound, Moves, LeasesMove, server
  <1>5. LeasesInOrder' /\ HeldKnown'
    BY <1>3, <1>4, KeepLeases DEF server
  <1>6. MirrorSound' /\ MirrorKnown'
    <2>1. MirrorSound'
      BY <1>1, Types DEF IInv, MirrorSound, MirrorMoves, server
    <2>2. MirrorKnown'
      BY <1>1 DEF MirrorKnown, Known, FenceToken, server
    <2> QED BY <2>1, <2>2
  <1>7. CommandsSound'
    <2>1. ASSUME NEW i \in 1..Len(down)
          PROVE  CommandSound(down[i].kind, down[i].lease, down[i].token, down[i].rev)
                 /\ down[i].rev \in Nat /\ down[i].token \in Nat /\ mirror.rev \in Nat
      BY <2>1, Types DEF IInv, CommandsSound
    <2>2. ASSUME NEW d, d.rev \in Nat, d.token \in Nat, CommandSound(d.kind, d.lease, d.token, d.rev)
          PROVE  CommandSound(d.kind, d.lease, d.token, d.rev)'
      <3>1. d.kind \in {"release", "fence"} => d.rev <= mirror.rev
        BY <2>2 DEF CommandSound, Ended, Fits
      <3> QED BY <1>3, <1>4, <2>2, <3>1, CommandCarried DEF IInv, Moves
    <2>3. \A i \in 1..Len(down') : \E j \in 1..Len(down) : down'[i] = down[j]
      <3>1. CASE down' = down
        BY <3>1
      <3>2. CASE down' = Tail(down)
        <4>1. Len(down') = Len(down) - 1 /\ Len(down) \in Nat /\ Len(down) > 0
              /\ \A i \in 1..Len(down') : down'[i] = down[i + 1]
          BY <1>2, <3>2
        <4> QED BY <4>1
      <3> QED BY <1>1, <3>1, <3>2
    <2> SUFFICES ASSUME NEW i \in 1..Len(down')
                 PROVE  CommandSound(down[i].kind, down[i].lease, down[i].token,
                                     down[i].rev)'
      BY DEF CommandsSound
    <2>4. PICK j \in 1..Len(down) : down'[i] = down[j]
      BY <2>3
    <2>5. PICK d : d = down[j]
      OBVIOUS
    <2>6. CommandSound(d.kind, d.lease, d.token, d.rev)'
      BY <2>1, <2>2, <2>5
    <2> QED BY <2>4, <2>5, <2>6 DEF CommandSound, Ended, FenceToken, Fits, Reached, Holds
  <1>8. AnswersSound'
    <2> SUFFICES ASSUME NEW i \in 1..Len(up')
                 PROVE  AnswerSound(up[i])'
      BY DEF AnswersSound
    <2>1. PICK a : a = up'[i]
      OBVIOUS
    <2>2. (i \in 1..Len(up) /\ a = up[i]) \/ a = reply
      <3>1. CASE up' = up
        BY <2>1, <3>1
      <3>2. CASE up' = Append(up, reply)
        <4>1. Len(up') = Len(up) + 1 /\ Len(up) \in Nat /\ up'[Len(up) + 1] = reply
              /\ \A k \in 1..Len(up) : up'[k] = up[k]
          BY <1>2, <3>2
        <4> QED BY <2>1, <4>1
      <3> QED BY <1>1, <3>1, <3>2
    <2>3. AnswerSound(a)'
      <3>1. CASE i \in 1..Len(up) /\ a = up[i]
        <4>1. AnswerSound(a) /\ a.rev \in Nat
          BY <3>1, Types DEF IInv, AnswersSound
        <4> QED BY <1>3, <1>4, <4>1, AnswerCarried DEF IInv, Moves
      <3> QED BY <2>2, <3>1
    <2> QED BY <2>1, <2>3 DEF AnswerSound, Fits, Reached, Holds
  <1>9. WorksSound'
    BY <1>3, <1>4, KeepWork DEF WorksSound
  <1>10. ObservedIsKnown'
    <2> SUFFICES ASSUME observed
                 PROVE  up' # <<>> /\ Head(up').rev <= view
      BY DEF ObservedIsKnown, server
    <2>1. up # <<>> /\ Head(up).rev <= view
      BY DEF IInv, ObservedIsKnown
    <2>2. Append(up, reply) # <<>> /\ Head(Append(up, reply)) = Head(up)
      BY <1>2, <2>1
    <2> QED BY <1>1, <2>1, <2>2
  <1>11. FencedIsGone'
    <2>1. ASSUME NEW l \in fenced PROVE Reached(l)' /\ ~Holds(l)'
      <3>1. /\ l \in 1..Len(leases) /\ leases[l].token <= mirror.token /\ ~Holds(l)
            /\ leases[l].token \in Nat /\ mirror.token \in Nat /\ mirror'.token \in Nat
        <4>1. mirror'.token \in Nat
          BY <1>3, OccupancyBounds DEF TypeOK, Tokens
        <4> QED BY <2>1, <4>1, Types DEF IInv, FencedIsGone, Reached
      <3> QED BY <3>1 DEF Reached, Holds, MirrorMoves, server
    <2>2. ASSUME Head(down).kind = "fence"
          PROVE  LET l == Head(down).lease
                 IN  /\ l \in 1..Len(leases') /\ leases'[l].token <= mirror'.token
                     /\ ~(mirror'.lease = l /\ mirror'.token = leases'[l].token)
      <3> DEFINE l == Head(down).lease
      <3>1. l \in 1..Len(leases) /\ leases[l].token <= mirror.token
            /\ leases[l].token \in Nat /\ mirror.token \in Nat
        BY <2>2, FirstCommand, Types DEF IInv, CommandSound, Ended, Fits, Reached
      <3>2. mirror'.token \in Nat
        BY <1>3, OccupancyBounds DEF TypeOK, Tokens
      <3>3. leases[l].token <= mirror'.token
        BY <3>1, <3>2 DEF MirrorMoves
      <3>4. ~(mirror'.lease = l /\ mirror'.token = leases'[l].token)
        BY <1>1, <2>2 DEF server
      <3> QED BY <3>1, <3>3, <3>4 DEF server
    <2> QED BY <1>1, <2>1, <2>2 DEF FencedIsGone, Reached, Holds
  <1> QED BY <1>3, <1>5, <1>6, <1>7, <1>8, <1>9, <1>10, <1>11 DEF IInv

\* What the mirror becomes: the old one, or the next revision with a larger token.
LEMMA InstalledEffect ==
    ASSUME IInv, down # <<>>
    PROVE  LET c == Head(down)
               new == Installed(Head(down))
           IN  /\ new \in [lease : Leases0, token : Tokens, rev : Revisions]
               /\ new.rev <= new.token /\ new.lease <= Len(leases)
               /\ new.rev # 0 => new.lease # 0
               /\ Known(new)
               /\ \/ new = mirror /\ ~Installs(c)
                  \/ /\ Installs(c) /\ new.token > mirror.token
                     /\ new.rev = mirror.rev + 1
                     /\ new.lease = c.lease /\ new.token = c.token
  <1> DEFINE c == Head(down)
             new == Installed(Head(down))
  <1>1. /\ c \in Commands /\ c.lease \in 1..Len(leases) /\ Len(leases) \in Nat
        /\ c.rev \in Nat /\ c.token \in Nat
    BY FirstCommand, Types DEF IInv, CommandSound
  <1>2. c.lease \in Leases0 /\ c.token \in Tokens
    BY <1>1 DEF Commands
  <1>3. /\ mirror \in [lease : Leases0, token : Tokens, rev : Revisions]
        /\ mirror.token \in Nat /\ mirror.rev \in Nat
        /\ mirror.rev <= mirror.token /\ mirror.lease <= Len(leases)
        /\ mirror.rev # 0 => mirror.lease # 0
        /\ Known(mirror)
    BY Types DEF IInv, TypeOK, MirrorSound, MirrorKnown, Known
  <1>4. CASE ~Installs(c)
    BY <1>3, <1>4 DEF Installed
  <1>5. CASE Installs(c)
    <2>1. new = [lease |-> c.lease, token |-> c.token, rev |-> mirror.rev + 1]
      BY <1>5 DEF Installed
    <2>2. c.token > mirror.token
      BY <1>5 DEF Installs
    <2>3. mirror.rev + 1 \in Revisions /\ mirror.rev + 1 <= c.token
      BY <1>1, <1>2, <1>3, <2>2, OccupancyBounds DEF Tokens, Revisions
    <2>4. new.lease = c.lease /\ new.token = c.token /\ new.rev = mirror.rev + 1
      BY <2>1
    <2>5. new \in [lease : Leases0, token : Tokens, rev : Revisions]
      BY <1>2, <2>1, <2>3
    <2>6. c.lease <= Len(leases) /\ c.lease # 0
      BY <1>1
    <2>7. Known(new)
      BY <1>1, <2>4, FirstCommand DEF Known, CommandSound, Ended
    <2> QED BY <1>5, <2>2, <2>3, <2>4, <2>5, <2>6, <2>7
  <1> QED BY <1>4, <1>5

LEMMA ApplyCommandKeeps ==
    ASSUME IInv, ApplyCommand
    PROVE  IInv'
  <1>0. down # <<>>
    BY DEF ApplyCommand
  <1>1. PICK c : c = Head(down)
    OBVIOUS
  <1>2. PICK new : new = Installed(c)
    OBVIOUS
  <1>3. PICK reply : reply = Reply(c)
    OBVIOUS
  <1>4. /\ c \in Commands /\ c.rev \in Nat /\ c.token \in Nat
        /\ CommandSound(c.kind, c.lease, c.token, c.rev)
    BY <1>0, <1>1, FirstCommand
  <1>5. /\ new \in [lease : Leases0, token : Tokens, rev : Revisions]
        /\ new.rev <= new.token /\ new.lease <= Len(leases)
        /\ new.rev # 0 => new.lease # 0
        /\ Known(new)
        /\ \/ new = mirror /\ ~Installs(c)
           \/ /\ Installs(c) /\ new.token > mirror.token
              /\ new.rev = mirror.rev + 1
              /\ new.lease = c.lease /\ new.token = c.token
    BY <1>0, <1>1, <1>2, InstalledEffect
  <1>6. mirror' = new /\ leases' = leases
    BY <1>1, <1>2 DEF ApplyCommand, Commit, server
  <1>7. MirrorMoves
    BY <1>5, <1>6 DEF MirrorMoves
  <1>8. /\ reply.lease = c.lease /\ reply.rev = new.rev /\ reply \in Answers
        /\ reply.kind = "ack" =>
              /\ c.kind = "offer" /\ new.lease = c.lease /\ new.token = c.token
    <2>1. c.lease \in Leases0 /\ c.token \in Tokens /\ new.rev \in Revisions
      BY <1>4, <1>5 DEF Commands
    <2>2. \/ reply = [kind |-> "report", lease |-> c.lease, token |-> c.token, rev |-> new.rev]
          \/ reply = [kind |-> "rejected", lease |-> c.lease, token |-> c.token, rev |-> new.rev]
          \/ /\ reply = [kind |-> "ack", lease |-> c.lease, token |-> c.token, rev |-> new.rev]
             /\ c.kind = "offer" /\ (Installs(c) \/ Exact(c))
      BY <1>2, <1>3, <1>5 DEF Reply, Answer
    <2>3. Installs(c) \/ Exact(c) => new.lease = c.lease /\ new.token = c.token
      BY <1>5 DEF Exact
    <2> QED BY <2>1, <2>2, <2>3 DEF Answers
  <1>9. AnswerSound(reply)'
    <2>1. c.lease \in 1..Len(leases) /\ new.rev \in Nat /\ leases[c.lease].token \in Nat
      BY <1>4, <1>5, OccupancyBounds, Types DEF CommandSound, Revisions, IInv
    <2>2. reply.kind = "ack" => c.token = leases[c.lease].token
      BY <1>4, <1>8 DEF CommandSound
    <2> QED BY <1>6, <1>8, <2>1, <2>2 DEF AnswerSound, Fits, Reached, Holds
  <1>10. c.kind = "fence" => ~(new.lease = c.lease /\ new.token = leases[c.lease].token)
    <2> SUFFICES ASSUME c.kind = "fence", new.lease = c.lease,
                        new.token = leases[c.lease].token
                 PROVE  FALSE
      OBVIOUS
    <2>1. /\ c.lease \in 1..Len(leases) /\ Fits(c.lease, c.rev)
          /\ leases[c.lease].token < c.token /\ leases[c.lease].token \in Nat
      BY <1>4, Types DEF CommandSound, Ended, IInv
    <2>2. new = mirror /\ ~Installs(c)
      BY <1>4, <1>5, <2>1
    <2>3. Holds(c.lease)
      BY <2>2 DEF Holds
    <2>4. c.rev = mirror.rev
      BY <2>1, <2>3 DEF Fits
    <2>5. Installs(c)
      BY <1>4, <2>1, <2>2, <2>4 DEF Installs, Exact
    <2> QED BY <2>2, <2>5
  <1> QED BY <1>0, <1>1, <1>2, <1>3, <1>5, <1>7, <1>8, <1>9, <1>10, CommitKeeps
          DEF ApplyCommand

LEMMA RefuseLockedKeeps ==
    ASSUME IInv, RefuseLocked
    PROVE  IInv'
  <1>0. down # <<>>
    BY DEF RefuseLocked
  <1>1. PICK c : c = Head(down)
    OBVIOUS
  <1>2. PICK old : old = mirror
    OBVIOUS
  <1>3. PICK reply : reply = [kind |-> "rejected", lease |-> c.lease, token |-> c.token,
                              rev |-> old.rev]
    OBVIOUS
  <1>4. c \in Commands /\ c.kind = "offer" /\ c.lease \in 1..Len(leases)
    BY <1>0, <1>1, FirstCommand DEF CommandSound, RefuseLocked
  <1>5. /\ old \in [lease : Leases0, token : Tokens, rev : Revisions]
        /\ old.rev <= old.token /\ old.lease <= Len(leases)
        /\ old.rev # 0 => old.lease # 0
        /\ Known(old)
    BY <1>2 DEF IInv, TypeOK, MirrorSound, MirrorKnown, Known
  <1>6. mirror' = old /\ leases' = leases /\ MirrorMoves
    BY <1>2 DEF RefuseLocked, Commit, server, MirrorMoves
  <1>7. reply \in Answers
    BY <1>3, <1>4, <1>5 DEF Answers, Commands
  <1>8. AnswerSound(reply)'
    <2>1. old.rev \in Nat
      BY <1>2, Types DEF IInv
    <2> QED BY <1>3, <1>4, <1>6, <2>1 DEF AnswerSound
  <1>9. Commit(Head(down), old, reply)
    BY <1>1, <1>2, <1>3 DEF RefuseLocked, Answer
  <1> QED BY <1>0, <1>1, <1>4, <1>5, <1>6, <1>7, <1>8, <1>9, CommitKeeps DEF RefuseLocked

LEMMA ReportWorkersKeeps ==
    ASSUME IInv, ReportWorkers
    PROVE  IInv'
  <1>1. PICK a : a = [kind |-> "reconcile", lease |-> mirror.lease, token |-> mirror.token,
                      rev |-> mirror.rev]
    OBVIOUS
  <1>2. up' = Append(up, a) /\ up \in Seq(Answers)
    BY <1>1 DEF ReportWorkers, Answer, IInv, TypeOK
  <1>3. a \in Answers
    BY <1>1 DEF Answers, IInv, TypeOK
  <1>4. /\ Len(up') = Len(up) + 1 /\ Len(up) \in Nat /\ up'[Len(up) + 1] = a
        /\ up' \in Seq(Answers) /\ (up # <<>> => up' # <<>> /\ Head(up') = Head(up))
        /\ \A k \in 1..Len(up) : up'[k] = up[k]
    BY <1>2, <1>3
  <1>5. TypeOK'
    BY <1>4 DEF IInv, TypeOK, ReportWorkers, server
  <1>6. Moves
    BY Still, Types DEF ReportWorkers, server, IInv
  <1>7. LeasesInOrder' /\ HeldKnown' /\ CommandsSound' /\ MirrorSound' /\ MirrorKnown'
        /\ FencedIsGone'
    BY <1>5, <1>6, KeepLeases, KeepCommands, KeepMirror, KeepFenced DEF ReportWorkers, server
  <1>8. WorksSound'
    BY <1>5, <1>6, KeepWork DEF WorksSound, ReportWorkers
  <1>9. AnswerSound(a)
    <2>1. mirror.lease \in 1..Len(leases) /\ mirror.rev \in Nat
      BY Types DEF IInv, MirrorSound, ReportWorkers
    <2> QED BY <1>1, <2>1 DEF AnswerSound
  <1>10. \A i \in 1..Len(up') : AnswerSound(up'[i])
    <2>1. \A i \in 1..Len(up) : AnswerSound(up[i])
      BY DEF IInv, AnswersSound
    <2>2. \A i \in 1..Len(up') : i \in 1..Len(up) \/ i = Len(up) + 1
      BY <1>4
    <2> QED BY <1>4, <1>9, <2>1, <2>2
  <1>11. AnswersSound'
    BY <1>10 DEF AnswersSound, AnswerSound, Fits, Reached, Holds, ReportWorkers, server
  <1>12. ObservedIsKnown'
    BY <1>4 DEF IInv, ObservedIsKnown, ReportWorkers, server
  <1> QED BY <1>5, <1>7, <1>8, <1>11, <1>12 DEF IInv
-----------------------------------------------------------------------------
(* Answers *)

LEMMA FirstAnswer ==
    ASSUME IInv, up # <<>>
    PROVE  Head(up) = up[1] /\ 1 \in 1..Len(up) /\ Head(up) \in Answers
           /\ Head(up).rev \in Nat /\ AnswerSound(Head(up))
  <1>1. up \in Seq(Answers) /\ Len(up) \in Nat /\ Len(up) > 0 /\ Head(up) = up[1]
    BY DEF IInv, TypeOK
  <1>2. 1 \in 1..Len(up)
    BY <1>1
  <1> QED BY <1>1, <1>2, Types DEF IInv, AnswersSound

LEMMA ObserveRevisionKeeps ==
    ASSUME IInv, ObserveRevision
    PROVE  IInv'
  <1>1. /\ Head(up) \in Answers /\ Head(up).rev \in Nat /\ Head(up).rev <= mirror.rev
        /\ view \in Nat /\ mirror.rev \in Nat /\ view <= mirror.rev
    BY FirstAnswer, Types DEF ObserveRevision, AnswerSound, IInv, MirrorSound
  <1>2. view' \in Nat /\ view <= view' /\ view' <= mirror.rev /\ Head(up).rev <= view'
    BY <1>1 DEF ObserveRevision, Larger
  <1>3. TypeOK'
    <2>1. mirror.rev \in Revisions
      BY DEF IInv, TypeOK
    <2>2. view' \in Revisions
      BY <1>1, <1>2, <2>1, OccupancyBounds DEF Revisions
    <2> QED BY <2>2 DEF IInv, TypeOK, ObserveRevision
  <1>4. Moves
    BY <1>2, Types DEF IInv, Moves, LeasesMove, MirrorMoves, ObserveRevision, TypeOK
  <1>5. LeasesInOrder' /\ HeldKnown' /\ CommandsSound' /\ AnswersSound' /\ FencedIsGone'
    BY <1>3, <1>4, KeepLeases, KeepCommands, KeepAnswers, KeepFenced DEF ObserveRevision
  <1>6. MirrorSound' /\ MirrorKnown'
    BY <1>3, <1>4, KeepMirror DEF ObserveRevision
  <1>7. WorksSound'
    BY <1>3, <1>4, KeepWork DEF WorksSound, ObserveRevision
  <1>8. ObservedIsKnown'
    BY <1>2 DEF ObservedIsKnown, ObserveRevision
  <1> QED BY <1>3, <1>5, <1>6, <1>7, <1>8 DEF IInv

\* An answer changes at most the active lease, and confirms it only if it was
\* confirmed before or if this is the acknowledgement of its offer.
Confirms(l) ==
    \/ leases[l].state \in HeldStates
    \/ leases[l].state = "reserving" /\ Head(up).kind = "ack" /\ Head(up).lease = l

LEMMA SettleEffect ==
    ASSUME IInv, Settle
    PROVE  \/ leases' = leases
           \/ \E l \in Active, s \in HeldStates \cup {"withdrawn"} :
                 SetState(l, s) /\ (s \in HeldStates => Confirms(l))
  <1> DEFINE l == Head(up).lease
  <1>1. Head(up).kind \in {"ack", "rejected", "report", "reconcile"} /\ l \in 1..Len(leases)
    BY FirstAnswer DEF Settle, Answers, AnswerSound
  <1>2. CASE leases[l].state \in ActiveStates
    <2>1. l \in Active
      BY <1>1, <1>2 DEF Active
    <2>2. CASE Head(up).kind = "ack"
      <3>1. Acknowledge(l)
        BY <2>2 DEF Settle
      <3> QED BY <2>1, <2>2, <3>1 DEF Acknowledge, Confirms, HeldStates
    <2>3. CASE Head(up).kind = "rejected"
      <3>1. RejectOffer(l)
        BY <2>3 DEF Settle
      <3> QED BY <2>1, <2>3, <3>1 DEF RejectOffer, HeldStates
    <2>4. CASE Head(up).kind = "reconcile"
      <3>1. Reconcile(l)
        BY <2>4 DEF Settle
      <3>2. CASE leases[l].state \in {"recovery", "overdue"} /\ (SetState(l, "draining") \/ SetState(l, "occupied"))
        BY <2>1, <3>2 DEF Confirms, HeldStates
      <3> QED BY <3>1, <3>2 DEF Reconcile
    <2>5. CASE Head(up).kind = "report"
      BY <2>5 DEF Settle
    <2> QED BY <1>1, <2>2, <2>3, <2>4, <2>5
  <1>3. CASE leases[l].state \notin ActiveStates
    <2>1. CASE Head(up).kind = "ack"
      <3>1. Acknowledge(l)
        BY <2>1 DEF Settle
      <3> QED BY <1>3, <3>1 DEF Acknowledge, ActiveStates, HeldStates
    <2>2. CASE Head(up).kind = "rejected"
      <3>1. RejectOffer(l)
        BY <2>2 DEF Settle
      <3> QED BY <1>3, <3>1 DEF RejectOffer, ActiveStates, HeldStates
    <2>3. CASE Head(up).kind = "reconcile"
      <3>1. Reconcile(l)
        BY <2>3 DEF Settle
      <3> QED BY <1>3, <3>1 DEF Reconcile, ActiveStates, HeldStates
    <2>4. CASE Head(up).kind = "report"
      BY <2>4 DEF Settle
    <2> QED BY <1>1, <2>1, <2>2, <2>3, <2>4
  <1> QED BY <1>2, <1>3

LEMMA SettleKeeps ==
    ASSUME IInv, Settle
    PROVE  IInv'
  <1>1. /\ UNCHANGED <<lastToken, wasDraining, online, reported, view, work, sweep,
                       emptied, down, mirror, fenced>>
        /\ observed' = FALSE /\ up # <<>>
        /\ up' = Tail(up) \/ up' = up
        /\ observed \/ Head(up).kind = "reconcile"
    BY DEF Settle
  <1>2. /\ leases' \in Seq(LeaseRecords) /\ Len(leases') = Len(leases) /\ LeasesMove
    <2>1. CASE leases' = leases
      BY <1>1, <2>1, Types DEF IInv, TypeOK, LeasesMove
    <2>2. ASSUME NEW l \in Active, NEW s \in HeldStates \cup {"withdrawn"}, SetState(l, s)
          PROVE  leases' \in Seq(LeaseRecords) /\ Len(leases') = Len(leases) /\ LeasesMove
      BY <1>1, <2>2, SetStateEffect DEF IInv, HeldStates, ActiveStates, OverStates
    <2> QED BY <2>1, <2>2, SettleEffect
  <1>3. up \in Seq(Answers) /\ Tail(up) \in Seq(Answers)
    BY <1>1 DEF IInv, TypeOK
  <1>4. TypeOK'
    <2>1. up' \in Seq(Answers) /\ observed' \in BOOLEAN
      BY <1>1, <1>3
    <2> QED BY <1>1, <1>2, <2>1 DEF IInv, TypeOK
  <1>5. Moves
    BY <1>1, <1>2, Types DEF IInv, MirrorSound, Moves, MirrorMoves
  <1>6. LeasesInOrder' /\ HeldKnown'
    <2>1. CASE leases' = leases
      BY <1>1, <1>4, <1>5, <2>1, KeepLeases
    <2>2. ASSUME NEW l \in Active, NEW s \in HeldStates \cup {"withdrawn"}, SetState(l, s),
                 s \in HeldStates => Confirms(l)
          PROVE  LeasesInOrder' /\ HeldKnown'
      <3>1. l \in 1..Len(leases)
        BY DEF Active
      <3>2. ASSUME Confirms(l) PROVE Fits(l, view)'
        <4>1. CASE leases[l].state \in HeldStates
          BY <1>4, <1>5, <3>1, <4>1, KeepHeld
        <4>2. CASE Head(up).kind = "ack" /\ Head(up).lease = l
          <5>1. Fits(l, Head(up).rev) /\ Head(up).rev \in Nat
            BY <1>1, <4>2, FirstAnswer DEF AnswerSound
          <5>2. Head(up).rev <= view /\ view <= mirror.rev /\ view \in Nat
            BY <1>1, <4>2, Types DEF IInv, ObservedIsKnown, MirrorSound
          <5> QED BY <1>1, <1>4, <1>5, <5>1, <5>2, FitsCarried DEF IInv, Moves, Fits, Reached, Holds
        <4> QED BY <3>2, <4>1, <4>2 DEF Confirms
      <3>3. s \in ActiveStates \cup OverStates
        BY DEF HeldStates, ActiveStates, OverStates
      <3> QED BY <1>1, <1>4, <1>5, <2>2, <3>2, <3>3, SetStateKeeps
    <2> QED BY <2>1, <2>2, SettleEffect
  <1>7. CommandsSound' /\ MirrorSound' /\ MirrorKnown'
        /\ FencedIsGone'
    BY <1>1, <1>4, <1>5, KeepCommands, KeepMirror, KeepFenced
  <1>8. WorksSound'
    BY <1>1, <1>4, <1>5, KeepWork DEF WorksSound
  <1>9. AnswersSound'
    <2>1. CASE up' = up
      BY <1>4, <1>5, <2>1, KeepAnswers
    <2>2. CASE up' = Tail(up)
      <3> SUFFICES ASSUME NEW i \in 1..Len(up')
                   PROVE  AnswerSound(up[i])'
        BY DEF AnswersSound
      <3>1. i + 1 \in 1..Len(up) /\ up'[i] = up[i + 1]
        BY <1>1, <1>3, <2>2
      <3>2. PICK a : a = up[i + 1]
        OBVIOUS
      <3>3. AnswerSound(a) /\ a.rev \in Nat
        BY <3>1, <3>2, Types DEF IInv, AnswersSound
      <3>4. AnswerSound(a)'
        BY <1>4, <1>5, <3>3, AnswerCarried DEF IInv, Moves
      <3> QED BY <3>1, <3>2, <3>4 DEF AnswerSound, Fits, Reached, Holds
    <2> QED BY <1>1, <2>1, <2>2
  <1>10. ObservedIsKnown'
    BY <1>1 DEF ObservedIsKnown
  <1> QED BY <1>4, <1>6, <1>7, <1>8, <1>9, <1>10 DEF IInv

LEMMA ExchangeDiesKeeps ==
    ASSUME IInv, ExchangeDies
    PROVE  IInv'
  <1>1. TypeOK'
    BY DEF IInv, TypeOK, ExchangeDies, server
  <1>2. Moves
    BY Still, Types DEF ExchangeDies, server, IInv
  <1>3. LeasesInOrder' /\ HeldKnown' /\ CommandsSound' /\ MirrorSound' /\ MirrorKnown'
        /\ FencedIsGone'
        /\ AnswersSound'
    BY <1>1, <1>2, KeepLeases, KeepCommands, KeepMirror, KeepFenced, KeepAnswers
       DEF ExchangeDies, server
  <1>4. WorksSound' /\ ObservedIsKnown'
    BY <1>1, <1>2, KeepWork DEF WorksSound, ObservedIsKnown, ExchangeDies
  <1> QED BY <1>1, <1>3, <1>4 DEF IInv
-----------------------------------------------------------------------------
(* The invariant and what follows from it *)

LEMMA IInvInit == ASSUME Init PROVE IInv
  <1>1. TypeOK
    <2>1. leases \in Seq(LeaseRecords) /\ Len(leases) \in Leases0
          /\ down \in Seq(Commands) /\ up \in Seq(Answers) /\ fenced \subseteq Leases0
      BY OccupancyBounds DEF Init, Leases0
    <2>2. work \in [Handlers -> Works]
      BY NoWorkType DEF Init
    <2>3. mirror \in [lease : Leases0, token : Tokens, rev : Revisions]
      BY OccupancyBounds DEF Init, Leases0, Tokens, Revisions
    <2>4. lastToken \in Tokens /\ view \in Revisions /\ reported \in 0..MaxSessions
      BY OccupancyBounds DEF Init, Tokens, Revisions
    <2>5. wasDraining \in BOOLEAN /\ online \in BOOLEAN
          /\ sweep \in BOOLEAN /\ emptied \in BOOLEAN /\ observed \in BOOLEAN
      BY DEF Init
    <2> QED BY <2>1, <2>2, <2>3, <2>4, <2>5 DEF TypeOK
  <1>2. LeasesInOrder /\ HeldKnown /\ CommandsSound /\ AnswersSound
    BY DEF Init, LeasesInOrder, HeldKnown, CommandsSound, AnswersSound
  <1>3. MirrorSound /\ MirrorKnown
    BY DEF Init, MirrorSound, MirrorKnown
  <1>4. WorksSound
    BY DEF Init, WorksSound, WorkSound, NoWork
  <1>5. ObservedIsKnown /\ FencedIsGone
    BY DEF Init, ObservedIsKnown, FencedIsGone
  <1> QED BY <1>1, <1>2, <1>3, <1>4, <1>5 DEF IInv

LEMMA IInvStep == ASSUME IInv, [Next]_vars PROVE IInv'
  <1>1. CASE UNCHANGED vars
    <2>1. TypeOK'
      BY <1>1 DEF IInv, TypeOK, vars, server
    <2> QED BY <1>1, <2>1, FlagStep DEF vars, server
  <1> QED BY <1>1, RequestKeeps, PresenceKeeps, DrainCompleteKeeps, MarkRecoveryKeeps,
             DeadlinePassesKeeps, ApplyCommandKeeps, RefuseLockedKeeps, ReportWorkersKeeps,
             ObserveRevisionKeeps, SettleKeeps, ExchangeDiesKeeps DEF Next

\* IInv holds in every reachable state, however long a handler sits on a reading.
THEOREM Invariance == Spec => []IInv
  BY IInvInit, IInvStep, PTL DEF Spec

\* Every lease, token, revision, command and answer stays in its range: the
\* revision of the mirror in particular, because each advance uses up a token.
THEOREM TypesHold == Spec => []TypeOK
  <1>1. IInv => TypeOK
    BY DEF IInv
  <1> QED BY <1>1, Invariance, PTL

\* A device that has consumed the fence of a force-released lease is rid of its
\* authority, however old the revision its handler read: either the fence was
\* installed or something newer had been.
THEOREM FenceTakesEffect == Spec => []FencedAuthorityGone
  <1>1. IInv => FencedAuthorityGone
    BY DEF IInv, FencedIsGone, Holds, FencedAuthorityGone
  <1> QED BY <1>1, Invariance, PTL

\* A confirmed lease is mirrored by the device unless the fence of a force-released
\* lease, with a larger token, has taken its place: no offer, acknowledgement or
\* release that arrives late can, whatever the handlers' timing.
THEOREM OnlyFencesDisplace == Spec => []DisplacedByFenceOnly
  <1>1. ASSUME IInv PROVE DisplacedByFenceOnly
    <2> SUFFICES ASSUME NEW l \in 1..Len(leases), leases[l].state \in HeldStates
                 PROVE  \/ mirror.lease = l /\ mirror.token = leases[l].token
                        \/ /\ leases[mirror.lease].state = "forced"
                           /\ mirror.token > leases[l].token
      BY DEF DisplacedByFenceOnly, Exact, Stamp
    <2>1. /\ leases[l].token <= mirror.token /\ 0 < leases[l].token /\ l = Len(leases)
          /\ leases[l].token \in Nat /\ mirror.token \in Nat /\ Len(leases) \in Nat
      BY <1>1, Types DEF IInv, HeldKnown, Fits, Reached, LeasesInOrder, ActiveStates
    <2>2. mirror.lease \in 1..Len(leases)
      BY <1>1, <2>1 DEF IInv, MirrorKnown
    <2>3. CASE mirror.token = leases[mirror.lease].token
      BY <1>1, <2>1, <2>2, <2>3, Types DEF IInv, LeasesInOrder
    <2>4. CASE leases[mirror.lease].state = "forced" /\ FenceToken(mirror.token)
      BY <2>1, <2>4 DEF FenceToken
    <2> QED BY <1>1, <2>1, <2>3, <2>4 DEF IInv, MirrorKnown
  <1> QED BY <1>1, Invariance, PTL

\* The view the server has of the device is never ahead of it, and exact while the
\* device holds the confirmed lease.
THEOREM ViewIsExact == Spec => []ViewTrailsMirror
  <1>1. ASSUME IInv PROVE ViewTrailsMirror
    BY <1>1 DEF IInv, MirrorSound, HeldKnown, Fits, Holds, ViewTrailsMirror, Exact, Stamp
  <1> QED BY <1>1, Invariance, PTL

\* A release on its way is never ahead of the device, and matches its revision for
\* as long as the device holds the lease.
THEOREM ReleaseReachesDevice == Spec => []DrainIsHeard
  <1>1. ASSUME IInv PROVE DrainIsHeard
    <2> SUFFICES ASSUME NEW i \in 1..Len(down), down[i].kind = "release"
                 PROVE  /\ down[i].token <= mirror.token
                        /\ Exact(down[i]) => down[i].rev = mirror.rev
      BY DEF DrainIsHeard
    <2>1. CommandSound(down[i].kind, down[i].lease, down[i].token, down[i].rev)
      BY <1>1 DEF IInv, CommandsSound
    <2> QED BY <2>1 DEF CommandSound, Fits, Reached, Holds, Exact
  <1> QED BY <1>1, Invariance, PTL
-----------------------------------------------------------------------------
(* What no step does *)

\* A lease that is over is never taken up again, a lease never changes its token and
\* the device never goes back to an older token or revision, through every crash,
\* replayed command and late answer.
AuthorityMovesOn ==
    /\ \A l \in 1..Len(leases) :
          /\ l \in 1..Len(leases') /\ leases'[l].token = leases[l].token
          /\ leases[l].state \in OverStates => leases'[l].state = leases[l].state
    /\ mirror.token <= mirror'.token /\ mirror.rev <= mirror'.rev /\ view <= view'
    /\ fenced \subseteq fenced'

LEMMA SetStateMoves ==
    ASSUME IInv, NEW l \in Active, NEW s \in HeldStates \cup OverStates, SetState(l, s),
           lastToken' = lastToken
    PROVE  LeasesMove
  <1>1. s \in ActiveStates \cup OverStates
    BY DEF ActiveStates
  <1> QED BY <1>1, SetStateEffect DEF IInv

LEMMA LeasesStill ==
    ASSUME IInv, leases' = leases, lastToken' = lastToken \/ lastToken' = lastToken + 1
    PROVE  LeasesMove
  BY Types DEF IInv, LeasesMove

LEMMA RequestMoves ==
    ASSUME IInv, NEW h \in Handlers, Request(h)
    PROVE  LeasesMove
  <1>1. CASE Claim(h)
    <2>1. PICK new : new = [state |-> "reserving", token |-> lastToken + 1]
      OBVIOUS
    <2>2. leases' = Append(leases, new) /\ leases \in Seq(LeaseRecords)
      BY <1>1, <2>1 DEF Claim, IInv, TypeOK
    <2>3. new \in LeaseRecords /\ lastToken \in Nat
      BY <1>1, <2>1, Types, OccupancyBounds
         DEF Claim, IInv, TypeOK, Tokens, LeaseRecords, ActiveStates
    <2>4. /\ Len(leases') = Len(leases) + 1 /\ Len(leases) \in Nat
          /\ leases'[Len(leases) + 1] = new
          /\ \A l \in 1..Len(leases) : leases'[l] = leases[l]
      BY <2>2, <2>3
    <2>5. new.token = lastToken + 1 /\ lastToken' = lastToken + 1
      BY <1>1, <2>1 DEF Claim
    <2>6. \A l \in 1..Len(leases') : l \in 1..Len(leases) \/ l = Len(leases) + 1
      BY <2>4
    <2> QED BY <2>3, <2>4, <2>5, <2>6 DEF LeasesMove
  <1>2. CASE ClaimTimesOut(h)
    <2>1. work[h].lease \in Active /\ SetState(work[h].lease, "withdrawn")
      BY <1>2 DEF ClaimTimesOut, IInv, WorksSound, WorkSound, Active, ActiveStates
    <2> QED BY <1>2, <2>1, SetStateMoves DEF ClaimTimesOut, OverStates
  <1>3. CASE Withdraw(h)
    <2>1. work[h].lease \in 1..Len(leases)
      BY <1>3 DEF Withdraw, IInv, WorksSound, WorkSound
    <2>2. CASE leases[work[h].lease].state = "reserving"
      <3>1. work[h].lease \in Active /\ SetState(work[h].lease, "withdrawn")
        BY <1>3, <2>1, <2>2 DEF Withdraw, RejectOffer, Active, ActiveStates
      <3> QED BY <1>3, <3>1, SetStateMoves DEF Withdraw, OverStates
    <2>3. CASE leases[work[h].lease].state # "reserving"
      BY <1>3, <2>3, LeasesStill DEF Withdraw, RejectOffer
    <2> QED BY <2>2, <2>3
  <1>4. CASE RequestRelease(h)
    <2>1. work[h].lease \in 1..Len(leases)
      BY <1>4 DEF RequestRelease, IInv, WorksSound, WorkSound, CommandSound
    <2>2. CASE leases[work[h].lease].state = "occupied"
      <3>1. work[h].lease \in Active
        BY <2>1, <2>2 DEF Active, ActiveStates, HeldStates
      <3>2. \/ SetState(work[h].lease, "released") \/ SetState(work[h].lease, "draining")
        BY <1>4, <2>2 DEF RequestRelease
      <3> QED BY <1>4, <3>1, <3>2, SetStateMoves DEF RequestRelease, OverStates, HeldStates
    <2>3. CASE leases[work[h].lease].state # "occupied"
      BY <1>4, <2>3, LeasesStill DEF RequestRelease
    <2> QED BY <2>2, <2>3
  <1>5. CASE ForceEnd(h)
    <2>1. work[h].lease \in 1..Len(leases)
      BY <1>5 DEF ForceEnd, IInv, WorksSound, WorkSound, Fits, Reached
    <2>2. CASE leases[work[h].lease].state = "overdue"
      <3>1. work[h].lease \in Active /\ SetState(work[h].lease, "forced")
        BY <1>5, <2>1, <2>2 DEF ForceEnd, Active, ActiveStates, HeldStates
      <3> QED BY <1>5, <3>1, SetStateMoves DEF ForceEnd, OverStates
    <2>3. CASE leases[work[h].lease].state # "overdue"
      BY <1>5, <2>3, LeasesStill DEF ForceEnd
    <2> QED BY <2>2, <2>3
  <1>6. CASE \/ ClaimAgain(h) \/ ReadView(h) \/ AppendCommand(h) \/ HandlerDies(h)
             \/ ClaimAnswered(h) \/ Release(h) \/ ForceRelease(h) \/ Mint(h)
    BY <1>6, LeasesStill DEF ClaimAgain, ReadView, AppendCommand, HandlerDies,
                             ClaimAnswered, Release, ForceRelease, Mint, server
  <1> QED BY <1>1, <1>2, <1>3, <1>4, <1>5, <1>6 DEF Request

LEMMA LeasesStep == ASSUME IInv, [Next]_vars PROVE LeasesMove
  <1>1. CASE DrainComplete
    <2>0. CASE leases' = leases
      BY <1>1, <2>0, LeasesStill DEF DrainComplete
    <2>1. leases \in Seq(LeaseRecords) /\ DOMAIN leases = 1..Len(leases) /\ Len(leases) \in Nat
          /\ \A l \in 1..Len(leases) : leases[l] \in LeaseRecords
      BY DEF IInv, TypeOK
    <2> SUFFICES ASSUME leases' = [l \in 1..Len(leases) |->
                                     IF leases[l].state = "draining"
                                     THEN [leases[l] EXCEPT !.state = "drained"] ELSE leases[l]]
                 PROVE  LeasesMove
      BY <1>1, <2>0, <2>1 DEF DrainComplete
    <2>2. \A l \in 1..Len(leases) :
              leases'[l] = IF leases[l].state = "draining"
                           THEN [leases[l] EXCEPT !.state = "drained"] ELSE leases[l]
      OBVIOUS
    <2>3. Len(leases') = Len(leases)
      BY <2>1
    <2>4. \A l \in 1..Len(leases) :
              /\ leases'[l].token = leases[l].token
              /\ leases'[l].state = leases[l].state \/ leases[l].state = "draining"
      BY <2>1, <2>2 DEF LeaseRecords
    <2> QED BY <1>1, <2>1, <2>3, <2>4, Types DEF LeasesMove, DrainComplete, OverStates, IInv
  <1>2. CASE MarkRecovery
    BY <1>2, SetStateMoves, LeasesStill DEF MarkRecovery, HeldStates
  <1>3. CASE Settle
    BY <1>3, SettleEffect, SetStateMoves, LeasesStill DEF Settle, OverStates
  <1>4. CASE DeadlinePasses
    BY <1>4, SetStateMoves DEF DeadlinePasses, HeldStates
  <1>5. ASSUME NEW sessions \in 0..MaxSessions, Heartbeat(sessions) PROVE LeasesMove
    BY <1>5, LeasesStill DEF Heartbeat
  <1>6. CASE \/ SweepOffline \/ SweepDies \/ ApplyCommand \/ RefuseLocked
             \/ ReportWorkers \/ ObserveRevision \/ ExchangeDies \/ UNCHANGED vars
    BY <1>6, LeasesStill DEF SweepOffline, SweepDies, ApplyCommand,
             RefuseLocked, ReportWorkers, ObserveRevision, ExchangeDies, vars, server
  <1> QED BY <1>1, <1>2, <1>3, <1>4, <1>5, <1>6, RequestMoves DEF Next

LEMMA MirrorStep ==
    ASSUME IInv, [Next]_vars
    PROVE  MirrorMoves /\ view <= view' /\ fenced \subseteq fenced'
  <1>0. view \in Nat
    BY Types DEF IInv
  <1>1. CASE ApplyCommand
    <2>1. mirror' = Installed(Head(down)) /\ down # <<>> /\ view' = view
      BY <1>1 DEF ApplyCommand, Commit, server
    <2>2. MirrorMoves
      BY <2>1, InstalledEffect DEF MirrorMoves
    <2>3. fenced \subseteq fenced'
      BY <1>1 DEF ApplyCommand, Commit
    <2> QED BY <1>0, <2>1, <2>2, <2>3
  <1>2. CASE RefuseLocked
    <2>1. mirror' = mirror /\ view' = view /\ fenced \subseteq fenced'
      BY <1>2 DEF RefuseLocked, Commit, server
    <2> QED BY <1>0, <2>1 DEF MirrorMoves
  <1>3. CASE ObserveRevision
    <2>1. Head(up).rev \in Nat
      BY <1>3, FirstAnswer DEF ObserveRevision
    <2> QED BY <1>0, <1>3, <2>1 DEF ObserveRevision, Larger, MirrorMoves
  <1>4. ASSUME NEW h \in Handlers, Request(h)
        PROVE  UNCHANGED <<mirror, view, fenced>>
    BY <1>4 DEF Request, Claim, ClaimAgain, ReadView, AppendCommand, HandlerDies,
           ClaimAnswered, ClaimTimesOut, Release, Withdraw, RequestRelease, ForceRelease,
           ForceEnd, Mint, server
  <1>5. CASE \/ \E sessions \in 0..MaxSessions : Heartbeat(sessions)
             \/ DrainComplete \/ SweepOffline \/ MarkRecovery \/ SweepDies \/ DeadlinePasses
             \/ ReportWorkers \/ Settle \/ ExchangeDies \/ UNCHANGED vars
    <2>1. UNCHANGED <<mirror, view, fenced>>
      BY <1>5 DEF Heartbeat, DrainComplete, SweepOffline, MarkRecovery, SweepDies, DeadlinePasses,
                  ReportWorkers, Settle, ExchangeDies, vars, server
    <2> QED BY <1>0, <2>1 DEF MirrorMoves
  <1> QED BY <1>0, <1>1, <1>2, <1>3, <1>4, <1>5 DEF Next, MirrorMoves

\* No step of any thread revives a lease that is over, changes a token or moves the
\* device's mirror, the server's view of it or the fences it has consumed backwards.
THEOREM AuthorityIsMonotone == Spec => [][AuthorityMovesOn]_vars
  <1>1. ASSUME IInv, IInv', [Next]_vars PROVE AuthorityMovesOn
    <2>1. LeasesMove /\ MirrorMoves /\ view <= view' /\ fenced \subseteq fenced'
      BY <1>1, LeasesStep, MirrorStep
    <2>2. Len(leases) \in Nat /\ Len(leases') \in Nat
      BY <1>1, Types DEF IInv, TypeOK
    <2>3. mirror.token \in Nat /\ mirror.rev \in Nat /\ mirror'.token \in Nat
      BY <1>1, Types, OccupancyBounds DEF IInv, TypeOK, Tokens
    <2>4. mirror.token <= mirror'.token /\ mirror.rev <= mirror'.rev
      BY <2>1, <2>3 DEF MirrorMoves
    <2> QED BY <2>1, <2>2, <2>4 DEF AuthorityMovesOn, LeasesMove
  <1>2. IInv /\ IInv' /\ [Next]_vars => [AuthorityMovesOn]_vars
    BY <1>1
  <1> QED BY <1>2, Invariance, PTL DEF Spec
=============================================================================
