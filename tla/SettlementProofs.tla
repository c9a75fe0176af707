-------------------------- MODULE SettlementProofs --------------------------
(***************************************************************************)
(* AppliedIsSettled, proved for every number of applications, leases,      *)
(* launches and commands: no applied result is lost.                       *)
(***************************************************************************)
EXTENDS SettlementInvariant, ApplicationProofs, TLAPS

(***************************************************************************)
(* Streams and plans                                                       *)
(***************************************************************************)
\* A stream without its head.
LEMMA TailAt ==
    ASSUME NEW S, NEW s \in Seq(S), s # <<>>
    PROVE  /\ Len(s) \in Nat /\ 1 \in 1..Len(s) /\ Head(s) = s[1] /\ Len(Tail(s)) = Len(s) - 1
           /\ \A i \in 1..Len(Tail(s)) : i + 1 \in 1..Len(s) /\ Tail(s)[i] = s[i + 1]
           /\ \A i \in 1..Len(s) : i # 1 => i - 1 \in 1..Len(Tail(s)) /\ Tail(s)[i - 1] = s[i]
  <1>1. /\ Len(s) \in Nat /\ Len(s) > 0 /\ Head(s) = s[1] /\ Len(Tail(s)) = Len(s) - 1
        /\ \A i \in 1..Len(Tail(s)) : Tail(s)[i] = s[i + 1]
    OBVIOUS
  <1>2. \A i \in 1..Len(s) : i # 1 => i - 1 \in 1..Len(Tail(s)) /\ (i - 1) + 1 = i
    BY <1>1
  <1> QED BY <1>1, <1>2

\* A stream with a new frame.
LEMMA AppendAt ==
    ASSUME NEW S, NEW s \in Seq(S), NEW x
    PROVE  /\ Len(s) \in Nat /\ Len(Append(s, x)) = Len(s) + 1 /\ Append(s, x)[Len(s) + 1] = x
           /\ \A i \in 1..Len(s) : i \in 1..Len(Append(s, x)) /\ Append(s, x)[i] = s[i]
           /\ \A i \in 1..Len(Append(s, x)) : i \in 1..Len(s) \/ i = Len(s) + 1
  OBVIOUS

\* What is left of a plan after its first step.
LEMMA InRest ==
    ASSUME NEW plan \in Seq(Steps), plan # <<>>, NEW s, In(s, plan), s # Head(plan)
    PROVE  In(s, Tail(plan)) /\ Tail(plan) # <<>>
  <1>1. PICK i \in 1..Len(plan) : plan[i] = s
    BY DEF In
  <1>2. i # 1
    BY <1>1, TailAt
  <1>3. i - 1 \in 1..Len(Tail(plan)) /\ Tail(plan)[i - 1] = s
    BY <1>1, <1>2, TailAt
  <1>4. Tail(plan) # <<>>
    <2>1. 1..Len(<<>>) = {}
      OBVIOUS
    <2> QED BY <1>3, <2>1
  <1> QED BY <1>3, <1>4 DEF In

LEMMA InRight ==
    ASSUME NEW p \in Seq(Steps), NEW q \in Seq(Steps), NEW s, In(s, q)
    PROVE  In(s, p \o q)
  <1>1. PICK i \in 1..Len(q) : q[i] = s
    BY DEF In
  <1>2. Len(p) \in Nat /\ Len(q) \in Nat /\ Len(p \o q) = Len(p) + Len(q)
    OBVIOUS
  <1>3. Len(p) + i \in 1..Len(p \o q) /\ (p \o q)[Len(p) + i] = q[i]
    BY <1>2
  <1> QED BY <1>1, <1>3 DEF In

LEMMA InLeft ==
    ASSUME NEW p \in Seq(Steps), NEW q \in Seq(Steps), NEW s, In(s, p)
    PROVE  In(s, p \o q)
  <1>1. PICK i \in 1..Len(p) : p[i] = s
    BY DEF In
  <1>2. Len(p) \in Nat /\ Len(q) \in Nat /\ Len(p \o q) = Len(p) + Len(q)
    OBVIOUS
  <1>3. i \in 1..Len(p \o q) /\ (p \o q)[i] = p[i]
    BY <1>2
  <1> QED BY <1>1, <1>3 DEF In

\* A report is the first step of its plan, or not in it.
LEMMA SayTail ==
    ASSUME NEW plan \in Seq(Steps), plan # <<>>, SayFirst(plan)
    PROVE  ~In("say", Tail(plan)) /\ SayFirst(Tail(plan)) /\ (In("say", plan) => Head(plan) = "say")
  <1>1. \A i \in 1..Len(Tail(plan)) : Tail(plan)[i] # "say"
    <2> SUFFICES ASSUME NEW i \in 1..Len(Tail(plan)), Tail(plan)[i] = "say" PROVE FALSE
      OBVIOUS
    <2>1. i + 1 \in 1..Len(plan) /\ plan[i + 1] = "say" /\ Len(Tail(plan)) \in Nat
      BY TailAt
    <2>2. i + 1 = 1
      BY <2>1 DEF SayFirst
    <2> QED BY <2>1, <2>2
  <1>2. In("say", plan) => Head(plan) = "say"
    BY TailAt DEF In, SayFirst
  <1> QED BY <1>1, <1>2 DEF In, SayFirst

LEMMA NoSay == ASSUME NEW plan, ~In("say", plan) PROVE SayFirst(plan)
  BY DEF In, SayFirst

LEMMA SayJoin ==
    ASSUME NEW p \in Seq(Steps), NEW q \in Seq(Steps), SayFirst(p), ~In("say", q)
    PROVE  SayFirst(p \o q)
  <1>1. Len(p) \in Nat /\ Len(q) \in Nat /\ Len(p \o q) = Len(p) + Len(q)
    OBVIOUS
  <1> SUFFICES ASSUME NEW i \in 1..Len(p \o q), (p \o q)[i] = "say" PROVE i = 1
    BY DEF SayFirst
  <1>2. CASE i \in 1..Len(p)
    BY <1>1, <1>2 DEF SayFirst
  <1>3. CASE i \notin 1..Len(p)
    <2>1. i - Len(p) \in 1..Len(q)
      BY <1>1, <1>3
    <2>2. (p \o q)[i] = q[i - Len(p)]
      BY <1>1, <1>3
    <2> QED BY <2>1, <2>2 DEF In
  <1> QED BY <1>2, <1>3

\* The plans that begin with a report.
LEMMA SayPlans ==
    ASSUME NEW move \in {<<>>, <<"transition">>}, NEW plan \in Seq(Steps), ~In("say", plan)
    PROVE  /\ SayFirst(<<"say">> \o move \o <<"consume">>)
           /\ In("say", <<"say">> \o move \o <<"consume">>)
           /\ SayFirst(<<"say", "mark">> \o move \o plan)
           /\ In("say", <<"say", "mark">> \o move \o plan)
           /\ \A s : In(s, plan) => In(s, <<"say", "mark">> \o move \o plan)
           /\ SayFirst(<<"say", "consume">>) /\ SayFirst(<<"say", "mark", "consume">>)
  <1>1. /\ <<"say">> \in Seq(Steps) /\ <<"say", "mark">> \in Seq(Steps)
        /\ <<"consume">> \in Seq(Steps) /\ move \in Seq(Steps)
    BY StepNames, PlanTypes
  <1>2. <<"say">> \o move \in Seq(Steps) /\ <<"say", "mark">> \o move \in Seq(Steps)
    BY <1>1, ConcatProperties
  <1>3. ~In("say", move) /\ ~In("say", <<"consume">>)
    BY InEmpty, InOne
  <1>4. SayFirst(<<"say">>) /\ SayFirst(<<"say", "mark">>)
    BY DEF SayFirst
  <1>5. In("say", <<"say">>) /\ In("say", <<"say", "mark">>)
    BY InOne, InTwo
  <1>6. SayFirst(<<"say">> \o move) /\ SayFirst(<<"say", "mark">> \o move)
    BY <1>1, <1>3, <1>4, SayJoin
  <1>7. SayFirst(<<"say">> \o move \o <<"consume">>) /\ SayFirst(<<"say", "mark">> \o move \o plan)
    BY <1>1, <1>2, <1>3, <1>6, SayJoin
  <1>8. In("say", <<"say">> \o move) /\ In("say", <<"say", "mark">> \o move)
    BY <1>1, <1>5, InLeft
  <1>9. /\ In("say", <<"say">> \o move \o <<"consume">>)
        /\ In("say", <<"say", "mark">> \o move \o plan)
    BY <1>1, <1>2, <1>8, InLeft
  <1>10. \A s : In(s, plan) => In(s, <<"say", "mark">> \o move \o plan)
    BY <1>2, InRight
  <1>11. SayFirst(<<"say", "consume">>) /\ SayFirst(<<"say", "mark", "consume">>)
    BY DEF SayFirst
  <1> QED BY <1>7, <1>9, <1>10, <1>11
-----------------------------------------------------------------------------
(***************************************************************************)
(* What a step touches                                                     *)
(***************************************************************************)
LEMMA Numbers ==
    ASSUME IInv
    PROVE  /\ lease \in Nat /\ minted \in Nat /\ mirror \in Nat /\ prepared.epoch \in Nat
           /\ \A a \in Apps : /\ row[a] \in Rows /\ journal[a] \in Entries
                              /\ row[a].retry \in Nat /\ row[a].original \in Nat
                              /\ journal[a].original \in Nat /\ journal[a].reported \in Nat
           /\ \A i \in 1..Len(down) : /\ down[i].epoch \in Nat
                                      /\ down[i].kind = "apply" => down[i].app \in Apps
           /\ \A i \in 1..Len(up) : up[i].kind \in {"result", "reconciled"} =>
                                       up[i].epoch \in Nat /\ up[i].app \in Apps
  <1>1. ServerTypes /\ StreamTypes /\ DeviceTypes
    BY TypesSplit DEF IInv
  <1>2. \A e \in Epochs : e \in Nat
    BY ApplicationBounds DEF Epochs
  <1>3. lease \in Nat /\ minted \in Nat /\ mirror \in Nat /\ prepared.epoch \in Nat
    BY <1>1, <1>2 DEF ServerTypes, DeviceTypes
  <1>4. ASSUME NEW a \in Apps
        PROVE  /\ row[a] \in Rows /\ journal[a] \in Entries
               /\ row[a].retry \in Nat /\ row[a].original \in Nat
               /\ journal[a].original \in Nat /\ journal[a].reported \in Nat
    <2>1. row[a] \in Rows /\ journal[a] \in Entries
      BY <1>1 DEF ServerTypes, DeviceTypes
    <2> QED BY <1>2, <2>1 DEF Rows, Entries
  <1>5. ASSUME NEW i \in 1..Len(down)
        PROVE  down[i].epoch \in Nat /\ (down[i].kind = "apply" => down[i].app \in Apps)
    <2>1. down[i] \in Commands
      BY <1>1 DEF StreamTypes
    <2> QED BY <1>2, <2>1 DEF Commands
  <1>6. ASSUME NEW i \in 1..Len(up), up[i].kind \in {"result", "reconciled"}
        PROVE  up[i].epoch \in Nat /\ up[i].app \in Apps
    <2>1. up[i] \in Frames
      BY <1>1 DEF StreamTypes
    <2>2. \A f \in Frames : f.kind \in {"result", "reconciled"} => f.epoch \in Epochs /\ f.app \in Apps
      BY DEF Frames
    <2> QED BY <1>2, <1>6, <2>1, <2>2
  <1> QED BY <1>3, <1>4, <1>5, <1>6

LEMMA NumbersNext ==
    ASSUME IInv'
    PROVE  /\ lease' \in Nat /\ mirror' \in Nat
           /\ \A a \in Apps : /\ row'[a].retry \in Nat /\ row'[a].original \in Nat
                              /\ journal'[a].original \in Nat /\ journal'[a].reported \in Nat
  <1>1. /\ lease' \in Epochs /\ mirror' \in Epochs
        /\ row' \in [Apps -> Rows] /\ journal' \in [Apps -> Entries]
    BY DEF IInv, TypesSound, TypeOK
  <1>2. \A e \in Epochs : e \in Nat
    BY ApplicationBounds DEF Epochs
  <1> QED BY <1>1, <1>2 DEF Rows, Entries

LEMMA RequestEffects ==
    ASSUME Requests
    PROVE  /\ UNCHANGED <<mirror, journal, work, up, seen>>
           /\ row' = row \/ \E a \in Apps : Publish(a)
           /\ \/ Claim \/ Release \/ PrepareApply \/ (\E a \in Apps : Publish(a))
              \/ UNCHANGED <<lease, minted, prepared, down, row>>
  BY DEF Requests, Claim, Release, PrepareApply, Publish, Discard, device

LEMMA ExchangeEffects ==
    ASSUME Exchange, HalfwaySound
    PROVE  /\ UNCHANGED <<lease, minted, prepared, down, mirror, journal, work>>
           /\ (up' = up /\ seen' = seen) \/ (up # <<>> /\ up' = Tail(up))
           /\ row' = row \/ SettleRow \/ NoteOutcome
           /\ seen' = seen \/ SettleRow \/ PassOver
  BY DEF Exchange, TakeHello, TakeAck, RecordReceipt, SettleRow, ServerFails, NoteOutcome,
         PassOver, device, Incoming, HalfwaySound

LEMMA UserEffects ==
    ASSUME User
    PROVE  UNCHANGED <<lease, minted, prepared, down, row, seen, mirror, journal, work, up>>
  BY DEF User, CommitToBranch, RewindBranch, EditWorkingTree, server, device

LEMMA RelaunchEffects ==
    ASSUME Relaunch
    PROVE  UNCHANGED <<lease, minted, prepared, down, row, seen, mirror, journal, up>>
  BY DEF Relaunch, server

\* What a step of the daemon writes into the journal.
Journals ==
    \/ (\E a \in Apps : Recover(a)) \/ Mark \/ FinishFound \/ AskForDecision \/ Start
    \/ BeginAttempt \/ NotStarted \/ FinishAttempt

LEMMA HandlingEffects ==
    ASSUME Handling
    PROVE  /\ UNCHANGED <<lease, minted, prepared, row, seen>>
           /\ mirror' = mirror \/ TakeOffer
           /\ down' = down \/ Consume \/ RefuseOffer \/ RefuseCommand
           /\ up' = up \/ SendAck \/ SendHello \/ Say \/ Answer
           /\ journal' = journal \/ Journals
  <1>1. CASE TakeOffer \/ SendAck \/ SendHello \/ EndReport \/ Say \/ Mark \/ Transition
    BY <1>1 DEF TakeOffer, SendAck, SendHello, EndReport, Say, Mark, Transition, server, Journals
  <1>2. CASE \E a \in Apps : Recover(a) \/ Defer(a) \/ Report(a)
    BY <1>2 DEF Recover, Defer, Report, server, Journals
  <1>3. CASE \/ Consume \/ RefuseOffer \/ RefuseCommand \/ ReplayFinished \/ FinishFound
             \/ AskForDecision \/ Start
    BY <1>3 DEF Consume, RefuseOffer, RefuseCommand, ReplayFinished, FinishFound, AskForDecision,
                Start, server, device, Journals
  <1>4. CASE StartTerminal \/ BeginAttempt \/ NotStarted \/ BaseStale \/ Integrate
    BY <1>4 DEF StartTerminal, BeginAttempt, NotStarted, BaseStale, Integrate, server, Journals
  <1>5. CASE MoveBranch \/ RefuseMove \/ Cleanup \/ FinishAttempt \/ Answer
    BY <1>5 DEF MoveBranch, RefuseMove, Cleanup, FinishAttempt, Answer, server, Journals
  <1> QED BY <1>1, <1>2, <1>3, <1>4, <1>5 DEF Handling
-----------------------------------------------------------------------------
(***************************************************************************)
(* Leases, permissions and commands                                        *)
(***************************************************************************)
\* An approval keeps its lease, and its permission to try again only moves on.
RowsGrow ==
    \A a \in Apps : row[a].granted =>
        /\ row'[a].granted /\ row'[a].original = row[a].original /\ row[a].retry <= row'[a].retry

LEMMA PublishedRow ==
    ASSUME IInv, NEW a \in Apps, RetrySound(a), Publish(a)
    PROVE  /\ row' = [row EXCEPT ![a] = Granted(a)] /\ Granted(a) \in Rows /\ Granted(a).granted
           /\ row[a].granted => /\ Granted(a).original = row[a].original
                                /\ Granted(a).result = row[a].result
                                /\ row[a].retry <= Granted(a).retry
           /\ Granted(a).retry \in {row[a].retry, 0, prepared.epoch}
           /\ Granted(a).retry \in Nat
  <1>1. row[a] \in Rows /\ row[a].retry \in Nat /\ prepared.epoch \in Nat
        /\ row[a].retry <= prepared.epoch
    BY Numbers DEF Publish, RetrySound
  <1>2. row' = [row EXCEPT ![a] = Granted(a)] /\ prepared.epoch \in Epochs /\ 0 \in Epochs
    BY TypesSplit, ApplicationBounds DEF Publish, IInv, ServerTypes, Epochs
  <1>3. Granted(a) \in Rows
    BY <1>1, <1>2 DEF Granted, Rows, NoRow, Results
  <1>4. Granted(a).granted /\ Granted(a).retry \in {row[a].retry, 0, prepared.epoch}
    BY <1>1 DEF Granted, Rows, NoRow
  <1>5. row[a].granted => /\ Granted(a).original = row[a].original
                          /\ Granted(a).result = row[a].result
                          /\ row[a].retry <= Granted(a).retry
    BY <1>1 DEF Granted, Rows
  <1>6. Granted(a).retry \in Nat
    BY <1>1, <1>4
  <1> QED BY <1>2, <1>3, <1>4, <1>5, <1>6

\* Settling an application leaves its approval alone.
LEMMA SettledRow ==
    ASSUME IInv, SettleRow \/ NoteOutcome, NEW a \in Apps
    PROVE  /\ row'[a].granted = row[a].granted /\ row'[a].original = row[a].original
           /\ row'[a].retry = row[a].retry
           /\ a # Frame.app \/ NoteOutcome => row'[a].result = row[a].result
  <1>1. row \in [Apps -> Rows] /\ row[a] \in Rows
    BY TypesSplit DEF IInv, ServerTypes
  <1>2. CASE SettleRow
    <2>1. PICK f : f = Frame
      OBVIOUS
    <2>2. row' = row \/ row' = [row EXCEPT ![f.app].result = f.verdict, ![f.app].outcome = f.verdict]
      BY <1>2, <2>1 DEF SettleRow
    <2>3. ~NoteOutcome
      BY <1>2 DEF SettleRow, NoteOutcome, HalfwaySound, IInv, Notes, Final, FramesSound
    <2> QED BY <1>1, <2>1, <2>2, <2>3 DEF Rows
  <1>3. CASE NoteOutcome
    <2>1. PICK f : f = Frame
      OBVIOUS
    <2>2. row' = row \/ row' = [row EXCEPT ![f.app].outcome = f.verdict]
      BY <1>3, <2>1 DEF NoteOutcome
    <2> QED BY <1>1, <2>1, <2>2 DEF Rows
  <1> QED BY <1>2, <1>3

LEMMA RowsStep ==
    ASSUME IInv, \A a \in Apps : RetrySound(a), [Next]_vars
    PROVE  RowsGrow
  <1>0. \A a \in Apps : row[a].retry \in Nat
    BY Numbers
  <1>1. CASE row' = row
    BY <1>0, <1>1 DEF RowsGrow
  <1>2. ASSUME NEW b \in Apps, Publish(b) PROVE RowsGrow
    <2>1. row \in [Apps -> Rows]
      BY TypesSplit DEF IInv, ServerTypes
    <2> HIDE DEF Granted
    <2> QED BY <1>0, <1>2, <2>1, PublishedRow DEF RowsGrow
  <1>3. CASE SettleRow \/ NoteOutcome
    BY <1>0, <1>3, SettledRow DEF RowsGrow
  <1>4. UNCHANGED vars => row' = row
    BY DEF vars, server
  <1> QED BY <1>1, <1>2, <1>3, <1>4, RequestEffects, ExchangeEffects, UserEffects, RelaunchEffects,
             HandlingEffects DEF Next, IInv

LEMMA LeasesStep ==
    ASSUME IInv, LeasesSound, [Next]_vars
    PROVE  LeasesSound' /\ mirror <= mirror'
  <1>0. /\ down \in Seq(Commands) /\ lease \in Nat /\ minted \in Nat /\ mirror \in Nat
        /\ prepared.epoch \in Nat
        /\ \A i \in 1..Len(down) : down[i].epoch \in Nat
    BY Numbers DEF IInv, TypesSound
  <1>1. CASE UNCHANGED <<lease, minted, mirror, prepared, down>>
    BY <1>0, <1>1 DEF LeasesSound
  <1>2. CASE Claim
    <2>1. PICK c : c = [kind |-> "offer", epoch |-> minted + 1]
      OBVIOUS
    <2>2. /\ minted' = minted + 1 /\ lease' = minted + 1 /\ down' = Append(down, c)
          /\ UNCHANGED <<mirror, prepared>> /\ c.epoch = minted + 1
      BY <1>2, <2>1 DEF Claim, device
    <2>3. /\ Len(down) \in Nat /\ Len(down') = Len(down) + 1 /\ down'[Len(down) + 1] = c
          /\ \A i \in 1..Len(down) : down'[i] = down[i]
          /\ \A i \in 1..Len(down') : i \in 1..Len(down) \/ i = Len(down) + 1
      BY <1>0, <2>2, AppendAt
    <2>4. ASSUME NEW i \in 1..Len(down'), down'[i].kind = "offer"
          PROVE  /\ mirror <= down'[i].epoch /\ down'[i].epoch <= minted'
                 /\ \A j \in 1..Len(down') : i < j /\ down'[j].kind = "offer" =>
                       down'[i].epoch <= down'[j].epoch
      BY <1>0, <2>2, <2>3, <2>4 DEF LeasesSound
    <2> QED BY <1>0, <2>2, <2>4 DEF LeasesSound
  <1>3. CASE Release \/ PrepareApply
    BY <1>0, <1>3 DEF Release, PrepareApply, device, LeasesSound
  <1>4. ASSUME NEW a \in Apps, Publish(a) PROVE LeasesSound' /\ mirror <= mirror'
    <2>1. PICK c : /\ down' = Append(down, c) /\ c.kind = "apply"
                   /\ UNCHANGED <<mirror, lease, minted>> /\ prepared'.epoch = 0
      BY <1>4 DEF Publish, device, NoRequest
    <2>3. /\ Len(down) \in Nat /\ Len(down') = Len(down) + 1 /\ down'[Len(down) + 1] = c
          /\ \A i \in 1..Len(down) : down'[i] = down[i]
          /\ \A i \in 1..Len(down') : i \in 1..Len(down) \/ i = Len(down) + 1
      BY <1>0, <2>1, AppendAt
    <2>4. ASSUME NEW i \in 1..Len(down'), down'[i].kind = "offer"
          PROVE  /\ mirror <= down'[i].epoch /\ down'[i].epoch <= minted'
                 /\ \A j \in 1..Len(down') : i < j /\ down'[j].kind = "offer" =>
                       down'[i].epoch <= down'[j].epoch
      BY <1>0, <2>1, <2>3, <2>4 DEF LeasesSound
    <2> QED BY <1>0, <2>1, <2>4 DEF LeasesSound
  <1>5. CASE TakeOffer
    <2>1. /\ UNCHANGED <<lease, minted, prepared, down>> /\ mirror' = down[1].epoch
          /\ down[1].kind = "offer" /\ 1 \in 1..Len(down) /\ Len(down) \in Nat
      BY <1>0, <1>5, TailAt DEF TakeOffer, server
    <2>2. mirror <= mirror' /\ mirror' <= minted /\ mirror' \in Nat
      BY <1>0, <2>1 DEF LeasesSound
    <2>3. \A i \in 1..Len(down) : down[i].kind = "offer" => mirror' <= down[i].epoch
      BY <1>0, <2>1 DEF LeasesSound
    <2> QED BY <1>0, <2>1, <2>2, <2>3 DEF LeasesSound
  <1>6. CASE Consume \/ RefuseOffer \/ RefuseCommand
    <2>1. /\ UNCHANGED <<lease, minted, prepared, mirror>> /\ down' = Tail(down)
      BY <1>6 DEF Consume, RefuseOffer, RefuseCommand, server, device
    <2>2. down # <<>>
      <3>1. CASE Consume
        <4>1. work.plan \in Seq(Steps) /\ Within("consume")
          BY <3>1, InHead, TypesSplit DEF IInv, DeviceTypes, Works, Consume, At, Within
        <4> QED BY <4>1 DEF IInv, WorkSound, ConsumeSound
      <3> QED BY <1>6, <3>1 DEF RefuseOffer, RefuseCommand, Commanded
    <2>3. /\ Len(down) \in Nat /\ Len(down') = Len(down) - 1
          /\ \A i \in 1..Len(down') : i + 1 \in 1..Len(down) /\ down'[i] = down[i + 1]
      BY <1>0, <2>1, <2>2, TailAt
    <2>4. ASSUME NEW i \in 1..Len(down'), down'[i].kind = "offer"
          PROVE  /\ mirror <= down'[i].epoch /\ down'[i].epoch <= minted'
                 /\ \A j \in 1..Len(down') : i < j /\ down'[j].kind = "offer" =>
                       down'[i].epoch <= down'[j].epoch
      BY <1>0, <2>1, <2>3, <2>4 DEF LeasesSound
    <2> QED BY <1>0, <2>1, <2>4 DEF LeasesSound
  <1>7. UNCHANGED vars => UNCHANGED <<lease, minted, mirror, prepared, down>>
    BY DEF vars, server, device
  <1> QED BY <1>1, <1>2, <1>3, <1>4, <1>5, <1>6, <1>7, RequestEffects, ExchangeEffects, UserEffects,
             RelaunchEffects, HandlingEffects DEF Next, IInv

LEMMA RetryStep ==
    ASSUME IInv, LeasesSound, \A a \in Apps : RetrySound(a), [Next]_vars, NEW a \in Apps
    PROVE  RetrySound(a)'
  <1>0. /\ row[a].retry \in Nat /\ lease \in Nat /\ minted \in Nat /\ prepared.epoch \in Nat
        /\ row \in [Apps -> Rows] /\ RetrySound(a)
        /\ row[a].retry <= minted /\ prepared.epoch <= minted
    BY Numbers, TypesSplit DEF IInv, ServerTypes, RetrySound, LeasesSound
  <1>1. ASSUME UNCHANGED <<minted, prepared>>, row'[a].retry = row[a].retry PROVE RetrySound(a)'
    BY <1>0, <1>1 DEF RetrySound
  <1>2. CASE Claim
    BY <1>0, <1>2 DEF Claim, RetrySound
  <1>3. CASE Release
    BY <1>1, <1>3 DEF Release
  <1>4. CASE PrepareApply
    <2>1. lease = minted /\ prepared'.epoch = lease /\ row' = row /\ minted' = minted
      BY <1>4 DEF PrepareApply, LeasesSound
    <2> QED BY <1>0, <2>1 DEF RetrySound
  <1>5. ASSUME NEW b \in Apps, Publish(b) PROVE RetrySound(a)'
    <2>1. prepared' = NoRequest /\ minted' = minted
      BY <1>5 DEF Publish
    <2>2. row'[a].retry <= minted
      <3> HIDE DEF Granted
      <3>1. row' = [row EXCEPT ![b] = Granted(b)]
            /\ Granted(b).retry \in {row[b].retry, 0, prepared.epoch}
        BY <1>5, PublishedRow
      <3>2. a = b => row'[a].retry \in {row[a].retry, 0, prepared.epoch}
        BY <1>0, <3>1
      <3>3. a # b => row'[a] = row[a]
        BY <1>0, <3>1
      <3> QED BY <1>0, <3>2, <3>3
    <2> QED BY <2>1, <2>2 DEF RetrySound
  <1>6. CASE SettleRow \/ NoteOutcome
    BY <1>1, <1>6, SettledRow DEF SettleRow, NoteOutcome
  <1>7. UNCHANGED vars => UNCHANGED <<minted, prepared, row>>
    BY DEF vars, server
  <1> QED BY <1>1, <1>2, <1>3, <1>4, <1>5, <1>6, <1>7, RequestEffects, ExchangeEffects, UserEffects,
             RelaunchEffects, HandlingEffects DEF Next, IInv

\* A command outlives every step.
LEMMA CommandStays ==
    ASSUME IInv, IInv', RowsGrow, NEW i \in 1..Len(down), CommandSound(down[i]),
           NEW c, c = down[i]
    PROVE  CommandSound(c)'
  <1>1. c.epoch \in Nat /\ (c.kind = "apply" => c.app \in Apps)
    BY Numbers
  <1>2. c.kind = "apply" => row[c.app].retry \in Nat /\ row'[c.app].retry \in Nat
    BY <1>1, Numbers, NumbersNext
  <1> QED BY <1>1, <1>2 DEF CommandSound, RowsGrow

LEMMA CommandsStep ==
    ASSUME IInv, IInv', CommandsSound, RowsGrow, \A a \in Apps : RetrySound(a), [Next]_vars
    PROVE  CommandsSound'
  <1>0. down \in Seq(Commands)
    BY DEF IInv, TypesSound
  <1>1. ASSUME NEW i \in 1..Len(down), NEW c, c = down[i] PROVE CommandSound(c)'
    BY <1>1, CommandStays DEF CommandsSound
  <1>2. ASSUME \A i \in 1..Len(down') : (\E j \in 1..Len(down) : down'[i] = down[j])
                                        \/ (\E c : c = down'[i] /\ CommandSound(c)')
        PROVE  CommandsSound'
    <2> SUFFICES ASSUME NEW i \in 1..Len(down') PROVE CommandSound(down[i])'
      BY DEF CommandsSound
    <2>1. PICK c : c = down'[i] /\ CommandSound(c)'
      BY <1>1, <1>2
    <2> QED BY <2>1 DEF CommandSound
  <1>3. CASE down' = down
    BY <1>2, <1>3
  <1>4. CASE Claim
    <2>1. PICK c : down' = Append(down, c) /\ c.kind = "offer"
      BY <1>4 DEF Claim
    <2>2. CommandSound(c)'
      BY <2>1 DEF CommandSound
    <2> QED BY <1>0, <1>2, <2>1, <2>2, AppendAt
  <1>5. ASSUME NEW a \in Apps, Publish(a) PROVE CommandsSound'
    <2>1. PICK c : /\ down' = Append(down, c) /\ c.kind = "apply" /\ c.app = a
                   /\ c.epoch = prepared.epoch
                   /\ c.retry => row'[a].retry = prepared.epoch
      <3>0. PICK exact \in BOOLEAN : down' = Append(down,
               [kind |-> "apply", app |-> a, epoch |-> prepared.epoch,
                instance |-> prepared.instance, exact |-> exact,
                retry |-> row'[a].outcome = "retry_authorized" /\ row'[a].retry = prepared.epoch])
        BY <1>5 DEF Publish
      <3>1. PICK c : c = [kind |-> "apply", app |-> a, epoch |-> prepared.epoch,
                          instance |-> prepared.instance, exact |-> exact,
                          retry |-> row'[a].outcome = "retry_authorized"
                                    /\ row'[a].retry = prepared.epoch]
        OBVIOUS
      <3>2. down' = Append(down, c)
        BY <3>0, <3>1, Zenon
      <3>3. c.kind = "apply" /\ c.app = a /\ c.epoch = prepared.epoch
        BY <3>1
      <3>4. c.retry => row'[a].retry = prepared.epoch
        BY <3>1, Zenon
      <3> QED BY <3>2, <3>3, <3>4
    <2>2. row'[a].granted
      <3> HIDE DEF Granted
      <3> QED BY <1>5, PublishedRow, TypesSplit DEF IInv, ServerTypes
    <2>3. CommandSound(c)'
      <3>1. row'[a].retry \in Nat /\ prepared.epoch \in Nat
        BY Numbers, NumbersNext
      <3> QED BY <2>1, <2>2, <3>1 DEF CommandSound
    <2> QED BY <1>0, <1>2, <2>1, <2>3, AppendAt
  <1>6. CASE Consume \/ RefuseOffer \/ RefuseCommand
    <2>1. down' = Tail(down)
      BY <1>6 DEF Consume, RefuseOffer, RefuseCommand
    <2>2. down # <<>>
      <3>1. CASE Consume
        <4>1. work.plan \in Seq(Steps) /\ Within("consume")
          BY <3>1, InHead, TypesSplit DEF IInv, DeviceTypes, Works, Consume, At, Within
        <4> QED BY <4>1 DEF IInv, WorkSound, ConsumeSound
      <3> QED BY <1>6, <3>1 DEF RefuseOffer, RefuseCommand, Commanded
    <2> QED BY <1>0, <1>2, <2>1, <2>2, TailAt
  <1>7. (UNCHANGED vars => down' = down) /\ (Release \/ PrepareApply => down' = down)
    BY DEF vars, Release, PrepareApply
  <1> QED BY <1>3, <1>4, <1>5, <1>6, <1>7, RequestEffects, ExchangeEffects, UserEffects,
             RelaunchEffects, HandlingEffects DEF Next, IInv
-----------------------------------------------------------------------------
(***************************************************************************)
(* Entries of the journal                                                  *)
(***************************************************************************)
\* An entry that is written stays, with the lease it was started under.
EntriesGrow ==
    \A a \in Apps :
        /\ journal[a].started => journal'[a].started /\ journal'[a].original = journal[a].original
        /\ journal[a].finished # "none" => journal'[a].finished = journal[a].finished

\* The step writes the entry e of b.
Written(b, e) ==
    /\ journal' = [journal EXCEPT ![b] = e] /\ mirror' = mirror
    /\ journal[b].started => e.started /\ e.original = journal[b].original
    /\ e.started => row[b].granted
    /\ e.original <= mirror /\ e.reported <= mirror
    /\ journal[b].finished # "none" => e.finished = journal[b].finished

LEMMA EntryParts ==
    ASSUME NEW e \in Entries, NEW v
    PROVE  /\ Finish(e, v).started = e.started /\ Finish(e, v).original = e.original
           /\ Finish(e, v).finished = v /\ Finish(e, v).reported \in {0, e.reported}
           /\ e.finished = "none" => Finish(e, v).reported = 0
           /\ Note(e, v).started = e.started /\ Note(e, v).original = e.original
           /\ Note(e, v).finished = e.finished /\ Note(e, v).reported \in {0, e.reported}
           /\ Begin(e).started = e.started /\ Begin(e).original = e.original
           /\ Begin(e).finished = e.finished /\ Begin(e).reported = e.reported
           /\ [e EXCEPT !.reported = v].started = e.started
           /\ [e EXCEPT !.reported = v].original = e.original
           /\ [e EXCEPT !.reported = v].finished = e.finished
           /\ [e EXCEPT !.reported = v].reported = v
  BY DEF Finish, Note, Begin, Entries

LEMMA AtWithin ==
    ASSUME IInv, NEW s, At(s)
    PROVE  /\ Within(s) /\ work.plan \in Seq(Steps) /\ work.plan # <<>> /\ Head(work.plan) = s
           /\ work.todo = {}
  BY InHead, TypesSplit DEF IInv, DeviceTypes, Works, At, Within

\* The application an attempt is about.
LEMMA AttemptStarted ==
    ASSUME IInv, Attempting
    PROVE  work.app \in Apps /\ journal[work.app].started
  <1>1. WorkSound /\ \A a \in Apps : EntrySound(a)
    BY DEF IInv
  <1>2. \A a : a \in Unfinished => a \in Apps /\ journal[a].started
    BY DEF Unfinished
  <1>3. CASE Within("begin") \/ Within("attempt") \/ Within("publish")
    BY <1>1, <1>2, <1>3 DEF WorkSound, BeginSound, AttemptSound, PublishSound, Open
  <1>4. CASE Within("cleanup") \/ Within("finish")
    BY <1>1, <1>2, <1>4 DEF WorkSound, FinishSound, Open
  <1>5. CASE Within("answer")
    <2>1. CASE work.plan = Cleaning
      <3>1. Within("cleanup")
        BY <2>1, InHead, PlanTypes, Heads, Tails DEF Within
      <3> QED BY <1>4, <3>1
    <2>2. CASE work.plan = Ending
      <3>1. Within("finish")
        BY <2>2, InHead, PlanTypes, Heads, Tails DEF Within
      <3> QED BY <1>4, <3>1
    <2>3. CASE work.plan = Answering
      <3>1. work.plan # Cleaning /\ work.plan # Ending
        BY <2>3, Heads
      <3>2. work.app \in Apps /\ journal[work.app].finished \in Final
        BY <1>1, <1>5, <3>1 DEF WorkSound, AnswerSound
      <3> QED BY <1>1, <3>2 DEF EntrySound, Final
    <2> QED BY <1>1, <1>5, <2>1, <2>2, <2>3 DEF WorkSound, AnswerSound
  <1> QED BY <1>3, <1>4, <1>5 DEF Attempting

LEMMA WrittenStep ==
    ASSUME IInv, CommandsSound, \A a \in Apps : EntryTimely(a), Journals
    PROVE  \E b \in Apps : \E e : Written(b, e)
  <1>0. /\ WorkSound /\ mirror \in Nat /\ journal \in [Apps -> Entries] /\ work.todo \subseteq Apps
        /\ \A a \in Apps : /\ EntrySound(a) /\ journal[a] \in Entries
                           /\ journal[a].original \in Nat /\ journal[a].reported \in Nat
    BY Numbers, TypesSplit DEF IInv, DeviceTypes, Works
  <1>1. ASSUME NEW b \in Apps, NEW e, journal' = [journal EXCEPT ![b] = e], mirror' = mirror,
               e.started = journal[b].started, e.original = journal[b].original,
               e.reported \in {0, mirror, journal[b].reported},
               journal[b].finished # "none" => e.finished = journal[b].finished
        PROVE  Written(b, e)
    BY <1>0, <1>1 DEF Written, EntryTimely
  <1>2. ASSUME NEW a \in Apps, Recover(a) PROVE \E b \in Apps : \E e : Written(b, e)
    <2>1. PICK e : e = IF Observed(a) = "applied" THEN Finish(journal[a], "applied")
                                                  ELSE Note(journal[a], Observed(a))
      OBVIOUS
    <2>2. journal' = [journal EXCEPT ![a] = e] /\ mirror' = mirror /\ a \in work.todo
      BY <1>2, <2>1 DEF Recover
    <2>3. journal[a].finished = "none"
      BY <1>0, <2>2 DEF WorkSound, JudgeSound, Unfinished
    <2>4. e.started = journal[a].started /\ e.original = journal[a].original
          /\ e.reported \in {0, journal[a].reported}
      <3> HIDE DEF Finish, Note, Observed
      <3> QED BY <1>0, <2>1, EntryParts
    <2> QED BY <1>1, <2>2, <2>3, <2>4
  <1>3. CASE Mark
    <2>1. PICK b : b = work.app
      OBVIOUS
    <2>2. b \in Apps
      BY <1>0, <1>3, <2>1, AtWithin DEF Mark, WorkSound, MarkSound
    <2>3. PICK e : e = [journal[b] EXCEPT !.reported = mirror]
      OBVIOUS
    <2>4. journal' = [journal EXCEPT ![b] = e] /\ mirror' = mirror
      BY <1>3, <2>1, <2>3 DEF Mark
    <2>5. /\ e.started = journal[b].started /\ e.original = journal[b].original
          /\ e.finished = journal[b].finished /\ e.reported = mirror
      BY <1>0, <2>2, <2>3, EntryParts
    <2> QED BY <1>1, <2>2, <2>4, <2>5
  <1>4. CASE FinishFound \/ AskForDecision
    <2>1. PICK a : a = Head(down).app
      OBVIOUS
    <2>2. PICK e : e \in {Finish(journal[a], "applied"), Note(journal[a], Observed(a))}
                   /\ journal' = [journal EXCEPT ![a] = e]
      BY <1>4, <2>1 DEF FinishFound, AskForDecision
    <2>3. mirror' = mirror /\ a \in Apps /\ journal[a].finished = "none"
      BY <1>4, <2>1 DEF FinishFound, AskForDecision, Unfinished
    <2>4. e.started = journal[a].started /\ e.original = journal[a].original
          /\ e.reported \in {0, journal[a].reported}
      <3> HIDE DEF Finish, Note, Observed
      <3> QED BY <1>0, <2>2, <2>3, EntryParts
    <2> QED BY <1>1, <2>2, <2>3, <2>4
  <1>5. CASE Start
    <2>1. PICK c : c = Head(down)
      OBVIOUS
    <2>2. PICK a : a = c.app
      OBVIOUS
    <2>3. /\ down # <<>> /\ c.kind = "apply" /\ c.epoch = mirror /\ mirror' = mirror
      BY <1>5, <2>1 DEF Start, Commanded, Current
    <2>4. a \in Apps /\ row[a].granted
      <3>1. down \in Seq(Commands)
        BY DEF IInv, TypesSound
      <3>2. 1 \in 1..Len(down) /\ c = down[1]
        BY <2>1, <2>3, <3>1, TailAt
      <3>3. CommandSound(c) /\ c.app \in Apps
        BY <2>3, <3>2, Numbers DEF CommandsSound
      <3> QED BY <2>2, <2>3, <3>3 DEF CommandSound
    <2>5. CASE journal[a].started
      <3>1. journal' = journal
        BY <1>5, <2>1, <2>2, <2>5 DEF Start
      <3>2. journal' = [journal EXCEPT ![a] = journal[a]]
        BY <1>0, <2>4, <3>1
      <3> QED BY <1>1, <2>3, <2>4, <3>2
    <2>6. CASE ~journal[a].started
      <3>1. PICK e : e = [NoEntry EXCEPT !.started = TRUE, !.original = c.epoch]
        OBVIOUS
      <3>2. journal' = [journal EXCEPT ![a] = e]
        BY <1>5, <2>1, <2>2, <2>6, <3>1 DEF Start
      <3>3. e.original = mirror /\ e.reported = 0 /\ journal[a].finished = "none"
        BY <1>0, <2>3, <2>4, <2>6, <3>1 DEF NoEntry, EntrySound
      <3>4. Written(a, e)
        BY <1>0, <2>3, <2>4, <2>6, <3>2, <3>3 DEF Written
      <3> QED BY <2>4, <3>4
    <2> QED BY <2>5, <2>6
  <1>6. CASE BeginAttempt \/ NotStarted \/ FinishAttempt
    <2>1. PICK b : b = work.app
      OBVIOUS
    <2>2. Attempting
      BY <1>6, AtWithin DEF BeginAttempt, NotStarted, FinishAttempt, Attempting
    <2>3. b \in Apps
      BY <2>1, <2>2, AttemptStarted
    <2>4. PICK e : /\ e \in {Begin(journal[b]), Note(journal[b], "not_started"),
                             Finish(journal[b], work.verdict)}
                   /\ FinishAttempt \/ e # Finish(journal[b], work.verdict)
                      \/ e.finished = journal[b].finished
                   /\ journal' = [journal EXCEPT ![b] = e]
      <3> HIDE DEF Begin, Note, Finish
      <3> QED BY <1>0, <1>6, <2>1, <2>3, EntryParts DEF BeginAttempt, NotStarted, FinishAttempt
    <2>5. mirror' = mirror
      BY <1>6 DEF BeginAttempt, NotStarted, FinishAttempt
    <2>6. FinishAttempt => journal[b].finished = "none"
      BY <1>0, <2>1, AtWithin DEF FinishAttempt, WorkSound, FinishSound, Open, Unfinished
    <2>7. /\ e.started = journal[b].started /\ e.original = journal[b].original
          /\ e.reported \in {0, journal[b].reported}
          /\ journal[b].finished # "none" => e.finished = journal[b].finished
      <3> HIDE DEF Begin, Note, Finish
      <3> QED BY <1>0, <2>3, <2>4, <2>6, EntryParts
    <2> QED BY <1>1, <2>3, <2>4, <2>5, <2>7
  <1> QED BY <1>2, <1>3, <1>4, <1>5, <1>6 DEF Journals

\* Who writes into the journal.
LEMMA JournalStep ==
    ASSUME IInv, CommandsSound, \A a \in Apps : EntryTimely(a), [Next]_vars
    PROVE  journal' = journal \/ (row' = row /\ seen' = seen /\ \E b \in Apps : \E e : Written(b, e))
  <1>1. UNCHANGED vars => journal' = journal
    BY DEF vars, device
  <1> QED BY <1>1, WrittenStep, RequestEffects, ExchangeEffects, UserEffects, RelaunchEffects,
             HandlingEffects DEF Next, IInv

LEMMA EntriesStep ==
    ASSUME IInv, CommandsSound, \A a \in Apps : EntryTimely(a), [Next]_vars
    PROVE  EntriesGrow
  <1>1. CASE journal' = journal
    BY <1>1 DEF EntriesGrow
  <1>2. ASSUME NEW b \in Apps, NEW e, Written(b, e) PROVE EntriesGrow
    <2>1. journal \in [Apps -> Entries]
      BY TypesSplit DEF IInv, DeviceTypes
    <2> QED BY <1>2, <2>1 DEF Written, EntriesGrow
  <1> QED BY <1>1, <1>2, JournalStep

\* A result the server answers is one the device has journalled.
LEMMA SeenStep ==
    ASSUME IInv, [Next]_vars, NEW a \in Apps, a \in seen', a \notin seen
    PROVE  /\ SettleRow \/ PassOver
           /\ up # <<>> /\ ResultOf(up[1], a) /\ 1 \in 1..Len(up) /\ up' = Tail(up)
           /\ journal[a].finished \in Final
  <1>1. UNCHANGED vars => seen' = seen
    BY DEF vars, server
  <1>2. SettleRow \/ PassOver
    BY <1>1, RequestEffects, ExchangeEffects, UserEffects, RelaunchEffects,
             HandlingEffects DEF Next, IInv
  <1>3. up # <<>> /\ up' = Tail(up) /\ Frame.kind = "result" /\ Frame.app = a
    BY <1>2 DEF SettleRow, PassOver, HalfwaySound, IInv, Answered, Incoming
  <1>4. 1 \in 1..Len(up) /\ Frame = up[1]
    BY <1>3, TailAt DEF IInv, TypesSound, Frame
  <1>5. journal[a].finished \in Final
    BY <1>3, <1>4 DEF IInv, FramesSound, FrameSound
  <1> QED BY <1>2, <1>3, <1>4, <1>5 DEF ResultOf

LEMMA EntryStep ==
    ASSUME IInv, IInv', CommandsSound, RowsGrow, EntriesGrow, \A a \in Apps : EntryTimely(a),
           mirror <= mirror', [Next]_vars, NEW a \in Apps
    PROVE  EntryTimely(a)'
  <1>0. /\ mirror \in Nat /\ mirror' \in Nat /\ journal[a].original \in Nat
        /\ journal[a].reported \in Nat /\ journal \in [Apps -> Entries]
    BY Numbers, NumbersNext, TypesSplit DEF IInv, DeviceTypes
  <1>1. a \in seen' => journal'[a].finished # "none"
    BY SeenStep DEF EntryTimely, EntriesGrow, Final
  <1>2. CASE journal'[a] = journal[a]
    BY <1>0, <1>1, <1>2 DEF EntryTimely, RowsGrow
  <1>3. ASSUME NEW b \in Apps, NEW e, Written(b, e), row' = row PROVE EntryTimely(a)'
    <2>1. CASE a = b
      <3>1. journal'[a] = e
        BY <1>0, <1>3, <2>1 DEF Written
      <3> QED BY <1>1, <1>3, <2>1, <3>1 DEF Written, EntryTimely
    <2>2. CASE a # b
      BY <1>0, <1>2, <1>3, <2>2 DEF Written
    <2> QED BY <2>1, <2>2
  <1> QED BY <1>2, <1>3, JournalStep
-----------------------------------------------------------------------------
(***************************************************************************)
(* Frames                                                                  *)
(***************************************************************************)
\* A lease that settles an application goes on doing so.
LEMMA CoversStays ==
    ASSUME IInv, IInv', RowsGrow, EntriesGrow, NEW a \in Apps, journal[a].started, row[a].granted,
           NEW e \in Nat, Covers(e, a)
    PROVE  Covers(e, a)'
  <1>1. row[a].retry \in Nat /\ row'[a].retry \in Nat
    BY Numbers, NumbersNext
  <1> QED BY <1>1 DEF Covers, RowsGrow, EntriesGrow

LEMMA FrameKept ==
    ASSUME IInv, IInv', RowsGrow, EntriesGrow, \A a \in Apps : EntryTimely(a), mirror <= mirror',
           NEW i \in 1..Len(up), NEW f, f = up[i], FrameTimely(f)
    PROVE  FrameTimely(f)'
  <1>1. mirror \in Nat /\ mirror' \in Nat
    BY Numbers, NumbersNext
  <1>2. CASE f.kind = "result"
    <2>1. f.epoch \in Nat /\ f.app \in Apps /\ journal[f.app].finished \in Final
      BY <1>2, Numbers DEF IInv, FramesSound, FrameSound
    <2>2. journal[f.app].started /\ row[f.app].granted /\ journal[f.app].original \in Nat
      BY <2>1, Numbers DEF IInv, EntrySound, EntryTimely, Final
    <2>3. Covers(f.epoch, f.app)'
      BY <1>2, <2>1, <2>2, CoversStays DEF FrameTimely
    <2>4. journal'[f.app].original = journal[f.app].original
      BY <2>1, <2>2 DEF EntriesGrow
    <2> QED BY <1>1, <1>2, <2>1, <2>2, <2>3, <2>4 DEF FrameTimely
  <1>3. CASE f.kind = "reconciled"
    <2>1. f.app \in Apps
      BY <1>3, Numbers
    <2> QED BY <1>3, <2>1 DEF FrameTimely, EntriesGrow
  <1> QED BY <1>2, <1>3 DEF FrameTimely

\* No frame is added.
LEMMA FramesKept ==
    ASSUME IInv, IInv', RowsGrow, EntriesGrow, \A a \in Apps : EntryTimely(a), mirror <= mirror',
           FramesTimely, up' = up \/ (up # <<>> /\ up' = Tail(up))
    PROVE  FramesTimely'
  <1>1. \A i \in 1..Len(up') : \E k \in 1..Len(up) : up'[i] = up[k]
    <2>1. up \in Seq(Frames)
      BY DEF IInv, TypesSound
    <2>2. CASE up' = up
      BY <2>2
    <2>3. CASE up # <<>> /\ up' = Tail(up)
      BY <2>1, <2>3, TailAt
    <2> QED BY <2>2, <2>3
  <1>2. ASSUME NEW i \in 1..Len(up') PROVE FrameTimely(up[i])'
    <2>1. PICK k \in 1..Len(up) : up'[i] = up[k]
      BY <1>1
    <2>2. PICK f : f = up[k]
      OBVIOUS
    <2>3. FrameTimely(f)'
      BY <2>2, FrameKept DEF FramesTimely
    <2> QED BY <2>1, <2>2, <2>3 DEF FrameTimely, Covers
  <1>3. ASSUME NEW i \in 1..Len(up'), NEW j \in 1..Len(up'), up'[i].kind = "result",
               up'[j].kind = "result", up'[j].app = up'[i].app
        PROVE  up'[i].epoch = up'[j].epoch
    <2>1. PICK k \in 1..Len(up) : up'[i] = up[k]
      BY <1>1
    <2>2. PICK l \in 1..Len(up) : up'[j] = up[l]
      BY <1>1
    <2> QED BY <1>3, <2>1, <2>2 DEF FramesTimely, ResultOf
  <1> QED BY <1>2, <1>3 DEF FramesTimely, ResultOf

\* A frame is added.
LEMMA FramesSent ==
    ASSUME IInv, IInv', RowsGrow, EntriesGrow, \A a \in Apps : EntryTimely(a), mirror <= mirror',
           FramesTimely, NEW f, up' = Append(up, f), FrameTimely(f)',
           f.kind = "result" =>
               \A i \in 1..Len(up) : ResultOf(up[i], f.app) => up[i].epoch = f.epoch
    PROVE  FramesTimely'
  <1>1. /\ Len(up) \in Nat /\ up'[Len(up) + 1] = f
        /\ \A i \in 1..Len(up') : (i \in 1..Len(up) /\ up'[i] = up[i]) \/ i = Len(up) + 1
    BY AppendAt DEF IInv, TypesSound
  <1>2. ASSUME NEW i \in 1..Len(up') PROVE FrameTimely(up[i])'
    <2>1. CASE i = Len(up) + 1
      BY <1>1, <2>1 DEF FrameTimely, Covers
    <2>2. CASE i \in 1..Len(up) /\ up'[i] = up[i]
      <3>1. PICK g : g = up[i]
        OBVIOUS
      <3>2. FrameTimely(g)'
        BY <2>2, <3>1, FrameKept DEF FramesTimely
      <3> QED BY <2>2, <3>1, <3>2 DEF FrameTimely, Covers
    <2> QED BY <1>1, <2>1, <2>2
  <1>3. ASSUME NEW i \in 1..Len(up'), NEW j \in 1..Len(up'), up'[i].kind = "result",
               up'[j].kind = "result", up'[j].app = up'[i].app
        PROVE  up'[i].epoch = up'[j].epoch
    BY <1>1, <1>3 DEF FramesTimely, ResultOf
  <1> QED BY <1>2, <1>3 DEF FramesTimely, ResultOf

LEMMA FramesStep ==
    ASSUME IInv, IInv', RowsGrow, EntriesGrow, \A a \in Apps : EntryTimely(a), mirror <= mirror',
           WorkTimely, FramesTimely, [Next]_vars
    PROVE  FramesTimely'
  <1>0. mirror \in Nat /\ mirror' \in Nat /\ WorkSound
    BY Numbers, NumbersNext DEF IInv
  <1>1. CASE up' = up \/ (up # <<>> /\ up' = Tail(up))
    BY <1>1, FramesKept
  <1>2. CASE SendAck
    <2>1. PICK f : f = [kind |-> "ack", epoch |-> mirror]
      OBVIOUS
    <2>2. f.kind = "ack" /\ up' = Append(up, f)
      BY <1>2, <2>1 DEF SendAck
    <2>3. FrameTimely(f)'
      BY <2>2 DEF FrameTimely
    <2> QED BY <2>2, <2>3, FramesSent
  <1>3. CASE SendHello
    <2>1. PICK f : f = [kind |-> "hello", instance |-> instance]
      OBVIOUS
    <2>2. f.kind = "hello" /\ up' = Append(up, f)
      BY <1>3, <2>1 DEF SendHello
    <2>3. FrameTimely(f)'
      BY <2>2 DEF FrameTimely
    <2> QED BY <2>2, <2>3, FramesSent
  <1>4. CASE Say
    <2>1. PICK f : f = [kind |-> "reconciled", app |-> work.app, epoch |-> mirror,
                        original |-> journal[work.app].original, verdict |-> work.verdict]
      OBVIOUS
    <2>2. /\ f.kind = "reconciled" /\ f.app = work.app
          /\ f.original = journal[work.app].original /\ up' = Append(up, f)
      BY <1>4, <2>1 DEF Say
    <2>3. work.app \in Apps /\ journal[work.app].started
      BY <1>0, <1>4, AtWithin DEF Say, WorkSound, SaySound, WorkTimely
    <2>4. FrameTimely(f)'
      BY <2>2, <2>3 DEF FrameTimely, EntriesGrow
    <2> QED BY <2>2, <2>4, FramesSent
  <1>5. CASE Answer
    <2>1. PICK f : f = [kind |-> "result", app |-> work.app, epoch |-> mirror,
                        verdict |-> work.verdict]
      OBVIOUS
    <2>2. /\ f.kind = "result" /\ f.app = work.app /\ f.epoch = mirror /\ up' = Append(up, f)
          /\ mirror' = mirror
      BY <1>5, <2>1 DEF Answer
    <2>3. Within("answer") /\ Attempting /\ work.plan = Answering
      BY <1>0, <1>5, AtWithin, Heads DEF Answer, Attempting, WorkSound, AnswerSound
    <2>4. /\ work.app \in Apps /\ journal[work.app].started /\ row[work.app].granted
          /\ journal[work.app].original \in Nat /\ journal[work.app].original <= mirror
      BY <2>3, AttemptStarted, Numbers DEF EntryTimely
    <2>5. Covers(f.epoch, f.app)'
      <3>1. Covers(f.epoch, f.app)
        BY <2>2, <2>3 DEF WorkTimely
      <3> QED BY <1>0, <2>2, <2>4, <3>1, CoversStays
    <2>6. FrameTimely(f)'
      BY <1>0, <2>2, <2>4, <2>5 DEF FrameTimely, EntriesGrow
    <2>7. ASSUME NEW i \in 1..Len(up), ResultOf(up[i], f.app) PROVE up[i].epoch = f.epoch
      <3>1. CASE Untold(work.app)
        BY <2>2, <2>7, <3>1 DEF Untold
      <3>2. CASE journal[work.app].original = mirror
        <4>1. up[i].epoch \in Nat
          BY <2>7, Numbers DEF ResultOf
        <4>2. journal[work.app].original <= up[i].epoch /\ up[i].epoch <= mirror
          BY <2>2, <2>7 DEF ResultOf, FramesTimely, FrameTimely
        <4> QED BY <1>0, <2>2, <3>2, <4>1, <4>2
      <3> QED BY <2>3, <3>1, <3>2 DEF WorkTimely
    <2> QED BY <2>2, <2>6, <2>7, FramesSent
  <1>6. UNCHANGED vars => up' = up
    BY DEF vars
  <1> QED BY <1>1, <1>2, <1>3, <1>4, <1>5, <1>6, RequestEffects, ExchangeEffects, UserEffects,
             RelaunchEffects, HandlingEffects DEF Next, IInv
-----------------------------------------------------------------------------
(***************************************************************************)
(* Plans                                                                   *)
(***************************************************************************)
AttemptSteps == {"begin", "attempt", "publish", "cleanup", "finish", "answer"}

\* An application that is under way has sent no result.
LEMMA UnfinishedUntold ==
    ASSUME IInv, NEW a \in Unfinished, EntryTimely(a)
    PROVE  Untold(a)
  <1>1. a \in Apps /\ journal[a].finished = "none"
    BY DEF Unfinished
  <1>2. ASSUME NEW i \in 1..Len(up), ResultOf(up[i], a) PROVE FALSE
    BY <1>1, <1>2 DEF IInv, FramesSound, FrameSound, ResultOf, Final
  <1> QED BY <1>1, <1>2 DEF Untold, EntryTimely

LEMMA UntoldStays ==
    ASSUME IInv, [Next]_vars, NEW a \in Apps, Untold(a),
           up' = up \/ (up # <<>> /\ up' = Tail(up))
    PROVE  Untold(a)'
  <1>1. a \notin seen'
    BY SeenStep DEF Untold
  <1>2. up \in Seq(Frames)
    BY DEF IInv, TypesSound
  <1>3. ASSUME NEW i \in 1..Len(up'), ResultOf(up'[i], a) PROVE FALSE
    <2>1. CASE up' = up
      BY <1>3, <2>1 DEF Untold
    <2>2. CASE up # <<>> /\ up' = Tail(up)
      BY <1>2, <1>3, <2>2, TailAt DEF Untold
    <2> QED BY <2>1, <2>2
  <1> QED BY <1>1, <1>3 DEF Untold, ResultOf

\* A handler begins.
LEMMA TimelyFresh ==
    ASSUME NEW plan, NEW a, work'.plan = plan, work'.app = a,
           work'.todo \subseteq work'.due, \A b \in work'.due : journal'[b].started,
           SayFirst(plan), In("say", plan) => journal'[a].started,
           (\E s \in AttemptSteps : In(s, plan)) =>
               mirror' = journal'[a].original \/ mirror' <= row'[a].retry,
           plan = Answering => journal'[a].original = mirror'
    PROVE  WorkTimely'
  <1>1. Attempting' => \E s \in AttemptSteps : In(s, plan)
    BY WithinNext DEF Attempting, AttemptSteps
  <1>2. SayFirst(work.plan)'
    BY DEF SayFirst
  <1>3. Attempting' => Covers(mirror, work.app)'
    BY <1>1 DEF Covers
  <1>4. (Within("say") => journal[work.app].started)'
    BY WithinNext
  <1> QED BY <1>2, <1>3, <1>4 DEF WorkTimely

\* The plan of the handler stays.
LEMMA TimelyStill ==
    ASSUME IInv, IInv', RowsGrow, EntriesGrow, \A a \in Apps : EntryTimely(a), WorkTimely,
           [Next]_vars, mirror' = mirror, work'.plan = work.plan, work'.app = work.app,
           work'.todo \subseteq work'.due, work'.due \subseteq work.due,
           up' = up \/ (up # <<>> /\ up' = Tail(up))
    PROVE  WorkTimely'
  <1>0. mirror \in Nat /\ work.due \subseteq Apps /\ work.app \in Apps \cup {NoApp}
    BY Numbers, TypesSplit DEF IInv, DeviceTypes, Works
  <1>1. \A b \in work'.due : journal'[b].started
    BY <1>0 DEF WorkTimely, EntriesGrow
  <1>2. SayFirst(work.plan)'
    BY DEF WorkTimely, SayFirst
  <1>3. \A s : Within(s)' <=> Within(s)
    BY WithinNext DEF Within
  <1>4. (Within("say") => journal[work.app].started)'
    <2>1. Within("say") => work.app \in Apps
      BY DEF IInv, WorkSound, SaySound
    <2> QED BY <1>3, <2>1 DEF WorkTimely, EntriesGrow
  <1>5. Attempting' => Covers(mirror, work.app)'
    <2> SUFFICES ASSUME Attempting' PROVE Covers(mirror, work.app)'
      OBVIOUS
    <2>1. Attempting
      BY <1>3 DEF Attempting
    <2>2. PICK m, b : m = mirror /\ b = work.app
      OBVIOUS
    <2>3. b \in Apps /\ journal[b].started /\ row[b].granted /\ Covers(m, b)
      BY <2>1, <2>2, AttemptStarted DEF EntryTimely, WorkTimely
    <2>4. Covers(m, b)'
      BY <1>0, <2>2, <2>3, CoversStays
    <2> QED BY <2>2, <2>4 DEF Covers
  <1>6. ASSUME work'.plan = Answering
        PROVE  journal'[work'.app].original = mirror' \/ Untold(work.app)'
    <2>1. Within("answer") /\ Attempting
      BY <1>6, InHead, PlanTypes, Heads, Tails DEF Within, Attempting
    <2>2. PICK b \in Apps : b = work.app /\ journal[b].started
      BY <2>1, AttemptStarted
    <2>3. journal[b].original = mirror \/ Untold(b)
      BY <1>6, <2>2 DEF WorkTimely
    <2>4. Untold(b) => Untold(b)'
      BY UntoldStays
    <2>5. Untold(b)' => Untold(work.app)'
      BY <2>2 DEF Untold
    <2> QED BY <2>2, <2>3, <2>4, <2>5 DEF EntriesGrow
  <1> QED BY <1>1, <1>2, <1>4, <1>5, <1>6 DEF WorkTimely

\* The handler goes on with its plan.
LEMMA TimelyRest ==
    ASSUME IInv, IInv', RowsGrow, EntriesGrow, \A a \in Apps : EntryTimely(a), WorkTimely,
           [Next]_vars, mirror' = mirror, work.plan # <<>>, work.todo = {}, work' = Rest,
           work.plan = Ending => up' = up
    PROVE  WorkTimely'
  <1>0. /\ mirror \in Nat /\ work.due \subseteq Apps /\ work \in Works /\ work.plan \in Seq(Steps)
    BY Numbers, TypesSplit DEF IInv, DeviceTypes, Works
  <1>1. work'.todo = {} /\ work'.due \subseteq work.due
    BY <1>0 DEF Rest, Proceed, Idle, Works
  <1>2. CASE work'.plan = <<>>
    <2>1. \A s : ~Within(s)'
      BY <1>2, InEmpty, WithinNext
    <2>2. SayFirst(work.plan)'
      BY <1>2 DEF SayFirst
    <2>3. work'.plan # Answering
      BY <1>2, Tails
    <2> QED BY <1>0, <1>1, <2>1, <2>2, <2>3 DEF WorkTimely, EntriesGrow, Attempting
  <1>3. CASE /\ work'.plan = Tail(work.plan) /\ Tail(work.plan) # <<>> /\ work'.app = work.app
    <2>1. \A s : Within(s)' => Within(s)
      BY <1>0, <1>3, InTail, WithinNext DEF Within
    <2>2. ~In("say", work'.plan)
      BY <1>0, <1>3, SayTail DEF WorkTimely
    <2>3. SayFirst(work.plan)' /\ ~Within("say")'
      BY <2>2, WithinNext DEF SayFirst, In
    <2>4. Attempting' => Covers(mirror, work.app)'
      <3> SUFFICES ASSUME Attempting' PROVE Covers(mirror, work.app)'
        OBVIOUS
      <3>1. Attempting
        BY <2>1 DEF Attempting
      <3>2. PICK m, b : m = mirror /\ b = work.app
        OBVIOUS
      <3>3. b \in Apps /\ journal[b].started /\ row[b].granted /\ Covers(m, b)
        BY <3>1, <3>2, AttemptStarted DEF EntryTimely, WorkTimely
      <3>4. Covers(m, b)'
        BY <1>0, <3>2, <3>3, CoversStays
      <3> QED BY <1>3, <3>2, <3>4 DEF Covers
    <2>5. ASSUME work'.plan = Answering PROVE Untold(work.app)'
      <3>1. Within("answer")
        BY <2>1, <2>5, InHead, PlanTypes, Heads, Tails, WithinNext
      <3>2. work.plan = Ending
        <4>1. work.plan \in {Cleaning, Ending, Answering}
          BY <3>1 DEF IInv, WorkSound, AnswerSound
        <4>2. Ending # Answering
          BY Heads
        <4>3. <<"transition", "consume">> # Answering
          BY Heads
        <4> QED BY <1>3, <2>5, <4>1, <4>2, <4>3, Tails
      <3>3. Within("finish")
        BY <3>2, InHead, PlanTypes, Heads, Tails DEF Within
      <3>4. work.app \in Unfinished
        BY <3>3 DEF IInv, WorkSound, FinishSound, Open
      <3>5. PICK b \in Apps : b = work.app /\ b \in Unfinished
        BY <3>4 DEF Unfinished
      <3>6. Untold(b)'
        BY <3>2, <3>5, UnfinishedUntold, UntoldStays
      <3> QED BY <1>3, <3>5, <3>6 DEF Untold
    <2> QED BY <1>0, <1>1, <2>3, <2>4, <2>5 DEF WorkTimely, EntriesGrow
  <1> QED BY <1>0, <1>2, <1>3, RestWork

\* What becomes of a plan when the daemon reports an application.
LEMMA ReportPlan ==
    ASSUME IInv, SayFirst(work.plan), NEW a \in Apps, Report(a)
    PROVE  /\ work'.app = a /\ work'.todo = {} /\ work'.due = work.due \ {a}
           /\ journal[a].finished = "applied" => work'.verdict = "applied"
           /\ a \in work.due /\ journal[a].reported # mirror
           /\ SayFirst(work'.plan) /\ Within("say")' /\ ~Within("say") /\ ~Within("ack")
           /\ \A s : Within(s) => Within(s)'
           /\ \A s : Within(s)' => s \in {"say", "mark", "transition", "report", "consume"}
           /\ work.plan # Answering
  <1> DEFINE e == journal[a]
             verdict == IF e.finished = "applied" THEN "applied"
                        ELSE IF e.recovery # "none" THEN e.recovery ELSE Inspect(a)
             move == IF verdict = "applied" THEN <<"transition">> ELSE <<>>
             plan == <<"say", "mark">> \o move \o work.plan
  <1>1. work \in Works
    BY DEF IInv, TypesSound
  <1>2. work.plan \in Seq(Steps) /\ work.plan # <<>> /\ Head(work.plan) = "report"
        /\ work.todo = {} /\ Ordered(work.plan)
    BY <1>1 DEF Works, Report, At, IInv, WorkSound, OrderSound
  <1>3. work' = [Serve(plan, a, verdict) EXCEPT !.due = @ \ {a}] /\ Due(a)
        /\ (e.finished = "applied" => verdict = "applied")
    BY DEF Report
  <1>4. move \in {<<>>, <<"transition">>}
    OBVIOUS
  <1>5. journal[a].finished = "applied" => e.finished = "applied"
    OBVIOUS
  <1> HIDE DEF verdict, move, plan, e
  <1>6. /\ work'.plan = plan /\ work'.app = a /\ work'.verdict = verdict /\ work'.todo = {}
        /\ work'.due = work.due \ {a}
    BY <1>1, <1>2, <1>3 DEF Serve, Works
  <1>7. \A s : In(s, work.plan) => s \in {"report", "consume"}
    BY <1>2, AtReport
  <1>8. ~In("say", work.plan)
    BY <1>7
  <1>9. /\ SayFirst(plan) /\ In("say", plan) /\ \A s : In(s, work.plan) => In(s, plan)
    BY <1>2, <1>4, <1>8, SayPlans DEF plan
  <1>10. \A s : In(s, plan) => s \in {"say", "mark", "transition"} \/ In(s, work.plan)
    BY <1>2, <1>4, ReplayPlans DEF plan
  <1>11. work.plan # Answering
    BY <1>2, Heads
  <1>12. \A s : Within(s)' <=> In(s, plan)
    BY <1>6, WithinNext
  <1> QED BY <1>3, <1>5, <1>6, <1>7, <1>9, <1>10, <1>11, <1>12 DEF Within, Due

\* How a finished application is replayed.
LEMMA ReplayPlan ==
    ASSUME IInv, work = Idle, NEW a \in Apps, NEW result \in Final, work' = Replay(a, result)
    PROVE  /\ work'.app = a /\ work'.todo = {} /\ work'.due = {}
           /\ SayFirst(work'.plan)
           /\ \A s : Within(s)' => s \in {"say", "transition", "consume", "answer"}
           /\ \/ /\ journal[a].original # mirror /\ Within("say")' /\ ~Within("answer")'
                 /\ result = "applied" => work'.verdict = "applied"
              \/ /\ journal[a].original = mirror /\ Pending(a)
                 /\ ~Within("say")' /\ ~Within("answer")'
              \/ /\ journal[a].original = mirror /\ ~Pending(a) /\ work'.plan = Answering
                 /\ ~Within("say")'
  <1> DEFINE move == IF result = "applied" THEN <<"transition">> ELSE <<>>
             verdict == IF result = "applied" THEN result ELSE Inspect(a)
             plan == <<"say">> \o move \o <<"consume">>
  <1>1. work \in Works /\ work.todo = {} /\ work.due = {}
    BY DEF IInv, TypesSound, Idle
  <1>2. move \in {<<>>, <<"transition">>}
    OBVIOUS
  <1>3. \/ journal[a].original # mirror /\ work' = Serve(plan, a, verdict)
        \/ /\ journal[a].original = mirror /\ Pending(a)
           /\ work' = Serve(<<"transition", "consume">>, a, result)
        \/ /\ journal[a].original = mirror /\ ~Pending(a) /\ work' = Serve(Answering, a, result)
    BY DEF Replay, Answering
  <1>4. result = "applied" => verdict = "applied"
    OBVIOUS
  <1> HIDE DEF move, verdict, plan
  <1>5. work'.app = a /\ work'.todo = {} /\ work'.due = {}
    BY <1>1, <1>3 DEF Serve, Works
  <1>6. CASE journal[a].original # mirror /\ work' = Serve(plan, a, verdict)
    <2>1. work'.plan = plan /\ work'.verdict = verdict
      BY <1>1, <1>6, ServeWork
    <2>2. \A s : In(s, plan) => s \in {"say", "transition", "consume"}
      BY <1>2, ReplayPlans, PlanTypes DEF plan
    <2>3. SayFirst(plan) /\ In("say", plan)
      BY <1>2, SayPlans, PlanTypes, InEmpty DEF plan
    <2> QED BY <1>4, <1>5, <1>6, <2>1, <2>2, <2>3, WithinNext
  <1>7. CASE /\ journal[a].original = mirror /\ Pending(a)
             /\ work' = Serve(<<"transition", "consume">>, a, result)
    <2>1. work'.plan = <<"transition", "consume">>
      BY <1>1, <1>7, ServeWork
    <2>2. \A s : Within(s)' => s \in {"transition", "consume"}
      BY <2>1, InTwo, WithinNext
    <2>3. SayFirst(work'.plan)
      BY <2>2, NoSay, WithinNext
    <2> QED BY <1>5, <1>7, <2>1, <2>2, <2>3
  <1>8. CASE /\ journal[a].original = mirror /\ ~Pending(a) /\ work' = Serve(Answering, a, result)
    <2>1. work'.plan = Answering
      BY <1>1, <1>8, ServeWork
    <2>2. \A s : Within(s)' => s \in {"answer", "transition", "consume"}
      BY <2>1, InEnding, WithinNext
    <2>3. SayFirst(work'.plan)
      BY <2>2, NoSay, WithinNext
    <2> QED BY <1>5, <1>8, <2>1, <2>2, <2>3
  <1> QED BY <1>3, <1>6, <1>7, <1>8

\* A handler that neither reports nor attempts anything.
LEMMA TimelyQuiet ==
    ASSUME work'.todo \subseteq work'.due, \A b \in work'.due : journal'[b].started,
           \A s : Within(s)' => s \in {"ack", "hello", "report", "consume", "dead"}
    PROVE  WorkTimely'
  <1>1. \A s : In(s, work'.plan) => s \in {"ack", "hello", "report", "consume", "dead"}
    BY WithinNext
  <1>2. ~In("say", work'.plan) /\ SayFirst(work'.plan)
    BY <1>1, NoSay
  <1>3. work'.plan # Answering
    BY <1>1, InHead, PlanTypes, Heads, Tails
  <1>4. ~(\E s \in AttemptSteps : In(s, work'.plan))
    BY <1>1 DEF AttemptSteps
  <1>5. PICK p, b : p = work'.plan /\ b = work'.app
    OBVIOUS
  <1> QED BY <1>2, <1>3, <1>4, <1>5, TimelyFresh

\* The steps of the daemon that go on with a plan.
Continues ==
    \/ SendHello \/ EndReport \/ Say \/ Mark \/ Transition \/ Consume \/ Cleanup
    \/ FinishAttempt \/ Answer

LEMMA ContinuesEffects ==
    ASSUME IInv, Continues
    PROVE  /\ mirror' = mirror /\ work.plan # <<>> /\ work.plan \in Seq(Steps) /\ work.todo = {}
           /\ work' = Rest
           /\ work.plan = Ending => up' = up
  <1>1. /\ mirror' = mirror /\ work' = Rest /\ (up' = up \/ SendHello \/ Say \/ Answer)
    BY DEF Continues, SendHello, EndReport, Say, Mark, Transition, Consume, Cleanup,
           FinishAttempt, Answer
  <1>2. \E s : At(s)
    BY DEF Continues, SendHello, EndReport, Say, Mark, Transition, Consume, Cleanup,
           FinishAttempt, Answer
  <1>3. SendHello \/ Say \/ Answer => work.plan # Ending
    BY AtWithin, Heads DEF SendHello, Say, Answer
  <1> QED BY <1>1, <1>2, <1>3, AtWithin

LEMMA TimelyStep ==
    ASSUME IInv, IInv', CommandsSound, RowsGrow, EntriesGrow, \A a \in Apps : EntryTimely(a),
           WorkTimely, [Next]_vars
    PROVE  WorkTimely'
  <1>0. /\ mirror \in Nat /\ work \in Works /\ work.plan \in Seq(Steps) /\ work.due \subseteq Apps
        /\ work.todo \subseteq Apps /\ WorkSound /\ \A a \in Apps : EntrySound(a)
        /\ work.todo \subseteq work.due /\ down \in Seq(Commands)
    BY Numbers, TypesSplit DEF IInv, DeviceTypes, StreamTypes, Works, WorkTimely
  <1>s. \A b \in work.due : journal'[b].started
    BY <1>0 DEF WorkTimely, EntriesGrow
  <1>1. ASSUME UNCHANGED <<mirror, work>>, up' = up \/ (up # <<>> /\ up' = Tail(up))
        PROVE  WorkTimely'
    BY <1>0, <1>1, TimelyStill
  <1>2. CASE Continues
    BY <1>2, TimelyRest, ContinuesEffects
  <1>3. ASSUME NEW a \in Apps, Recover(a) \/ Defer(a) PROVE WorkTimely'
    <2>1. /\ mirror' = mirror /\ up' = up /\ work'.plan = work.plan /\ work'.app = work.app
          /\ work'.todo = work.todo \ {a} /\ work'.due \in {work.due, work.due \ {a}}
      BY <1>0, <1>3 DEF Recover, Defer, Works
    <2>2. work'.todo \subseteq work'.due
      <3>1. CASE Recover(a)
        BY <1>0, <3>1 DEF Recover, Works
      <3>2. CASE Defer(a)
        BY <1>0, <3>2 DEF Defer, Works
      <3> QED BY <1>3, <3>1, <3>2
    <2>3. work'.due \subseteq work.due
      BY <2>1
    <2> QED BY <2>1, <2>2, <2>3, TimelyStill
  <1>4. CASE Relaunch
    <2>1. /\ work'.plan = <<"hello", "report">> /\ work'.todo = Unfinished /\ journal' = journal
          /\ work'.due = {a \in Apps : journal[a].started}
      BY <1>4 DEF Relaunch, Idle
    <2>2. \A s : Within(s)' => s \in {"hello", "report"}
      BY <2>1, InTwo, WithinNext
    <2> QED BY <2>1, <2>2, TimelyQuiet DEF Unfinished
  <1>5. CASE TakeOffer
    <2>1. work'.plan = <<"ack", "report", "consume">> /\ work'.todo = {} /\ work'.due = {}
      BY <1>5 DEF TakeOffer, Idle
    <2>2. \A s : Within(s)' => s \in {"ack", "report", "consume"}
      BY <2>1, InThree, WithinNext
    <2> QED BY <2>1, <2>2, TimelyQuiet
  <1>6. CASE SendAck
    <2>1. At("ack") /\ journal' = journal
          /\ work' = [Rest EXCEPT !.todo = Unfinished, !.due = {a \in Apps : journal[a].started}]
      BY <1>6 DEF SendAck
    <2>2. work.plan = <<"ack", "report", "consume">>
      BY <1>0, <2>1, AtWithin DEF WorkSound, AckSound
    <2>3. Tail(work.plan) = <<"report", "consume">>
      BY <2>2
    <2>4. /\ work'.plan = <<"report", "consume">> /\ work'.todo = Unfinished
          /\ work'.due = {a \in Apps : journal[a].started}
      <3>1. Tail(work.plan) # <<>>
        BY <2>3
      <3>2. Rest = [work EXCEPT !.plan = <<"report", "consume">>]
        BY <2>3, <3>1 DEF Rest, Proceed
      <3> QED BY <1>0, <2>1, <3>2 DEF Works
    <2>5. \A s : Within(s)' => s \in {"report", "consume"}
      BY <2>4, InTwo, WithinNext
    <2> QED BY <2>1, <2>4, <2>5, TimelyQuiet DEF Unfinished
  <1>7. CASE StartTerminal
    <2>1. work'.plan = <<"dead">> /\ work'.todo = {} /\ work'.due = {}
      BY <1>7 DEF StartTerminal, Idle
    <2>2. \A s : Within(s)' => s = "dead"
      BY <2>1, InOne, WithinNext
    <2> QED BY <2>1, <2>2, TimelyQuiet
  <1>8. ASSUME NEW a \in Apps, Report(a) PROVE WorkTimely'
    <2>1. /\ work'.app = a /\ work'.todo = {} /\ work'.due = work.due \ {a} /\ a \in work.due
          /\ SayFirst(work'.plan)
          /\ \A s : Within(s)' => s \in {"say", "mark", "transition", "report", "consume"}
      BY <1>8, ReportPlan DEF WorkTimely
    <2>2. PICK p : p = work'.plan
      OBVIOUS
    <2>3. \A s : In(s, p) => s \in {"say", "mark", "transition", "report", "consume"}
      BY <2>1, <2>2, WithinNext
    <2>4. p # Answering
      BY <2>3, InHead, PlanTypes, Heads, Tails
    <2>5. ~(\E s \in AttemptSteps : In(s, p))
      BY <2>3 DEF AttemptSteps
    <2> QED BY <1>s, <2>1, <2>2, <2>4, <2>5, TimelyFresh
  <1>9. CASE ReplayFinished \/ FinishFound
    <2>1. PICK a : a = Head(down).app
      OBVIOUS
    <2>2. /\ work = Idle /\ down # <<>> /\ Head(down).kind = "apply" /\ mirror' = mirror
          /\ (journal[a].finished # "none" \/ a \in Unfinished)
      BY <1>9, <2>1 DEF ReplayFinished, FinishFound, Commanded
    <2>3. a \in Apps
      BY <2>1, <2>2, HeadTypes DEF IInv
    <2>4. journal[a].started
      BY <1>0, <2>2, <2>3 DEF EntrySound, Unfinished
    <2>5. PICK r \in Final : work' = Replay(a, r)
      <3>1. CASE FinishFound
        BY <2>1, <3>1 DEF FinishFound, Final
      <3>2. CASE ReplayFinished
        <4>1. journal[a].finished \in Final
          BY <2>1, <2>3, <3>2, Numbers DEF ReplayFinished, Entries, Results, Final
        <4> QED BY <2>1, <3>2, <4>1 DEF ReplayFinished
      <3> QED BY <1>9, <3>1, <3>2
    <2>6. journal'[a].started /\ journal'[a].original = journal[a].original
      BY <2>3, <2>4 DEF EntriesGrow
    <2>7. PICK p : p = work'.plan
      OBVIOUS
    <2>8. /\ work'.app = a /\ work'.todo = {} /\ work'.due = {} /\ SayFirst(p)
          /\ \A s : In(s, p) => s \in {"say", "transition", "consume", "answer"}
          /\ In("answer", p) => journal[a].original = mirror
      BY <2>2, <2>3, <2>5, <2>7, ReplayPlan, WithinNext
    <2>9. p = Answering => In("answer", p)
      BY InHead, PlanTypes, Heads, Tails
    <2>10. (\E s \in AttemptSteps : In(s, p)) => In("answer", p)
      BY <2>8 DEF AttemptSteps
    <2> QED BY <2>2, <2>6, <2>7, <2>8, <2>9, <2>10, TimelyFresh
  <1>10. CASE AskForDecision \/ NotStarted
    <2>1. PICK a, v, p : /\ work' = Serve(p, a, v)
                         /\ a = IF AskForDecision THEN Head(down).app ELSE work.app
                         /\ p \in {<<"say", "consume">>, <<"say", "mark", "consume">>}
      BY <1>10 DEF AskForDecision, NotStarted
    <2>2. a \in Apps /\ journal[a].started
      <3>1. CASE AskForDecision
        BY <2>1, <3>1 DEF AskForDecision, Unfinished
      <3>2. CASE ~AskForDecision
        BY <1>10, <2>1, <3>2, AtWithin, AttemptStarted DEF NotStarted, Attempting
      <3> QED BY <3>1, <3>2
    <2>3. work.todo = {}
      BY <1>10, AtWithin, IdleWork DEF AskForDecision, NotStarted, Commanded
    <2>4. work'.plan = p /\ work'.app = a /\ work'.todo = {} /\ work'.due = work.due
      BY <1>0, <2>1, <2>3 DEF Serve, Works
    <2>5. \A s : In(s, p) => s \in {"say", "mark", "consume"}
      BY <2>1, InTwo, InThree
    <2>6. SayFirst(p)
      BY <2>1, SayPlans, PlanTypes, InEmpty
    <2>7. p # Answering
      BY <2>5, InHead, PlanTypes, Heads, Tails
    <2>8. ~(\E s \in AttemptSteps : In(s, p))
      BY <2>5 DEF AttemptSteps
    <2>9. journal'[a].started
      BY <2>2 DEF EntriesGrow
    <2> QED BY <1>s, <2>4, <2>6, <2>7, <2>8, <2>9, TimelyFresh
  <1>11. CASE Start
    <2>1. PICK c, a : c = Head(down) /\ a = c.app
      OBVIOUS
    <2>2. /\ work = Idle /\ down # <<>> /\ c.kind = "apply" /\ c.epoch = mirror /\ mirror' = mirror
          /\ work' = Serve(<<"begin">>, a, "none") /\ row' = row
      BY <1>11, <2>1 DEF Start, Commanded, Current, server
    <2>3. a \in Apps /\ CommandSound(c)
      <3>1. 1 \in 1..Len(down) /\ c = down[1]
        BY <1>0, <2>1, <2>2, TailAt
      <3> QED BY <2>1, <2>2, <3>1, Numbers DEF CommandsSound
    <2>4. mirror' = journal'[a].original \/ mirror' <= row'[a].retry
      <3>1. CASE ~journal[a].started
        <4>1. PICK e : e = [NoEntry EXCEPT !.started = TRUE, !.original = c.epoch]
          OBVIOUS
        <4>2. journal' = [journal EXCEPT ![a] = e] /\ e.original = mirror
          BY <1>11, <2>1, <2>2, <3>1, <4>1 DEF Start, NoEntry
        <4>3. journal \in [Apps -> Entries]
          BY TypesSplit DEF IInv, DeviceTypes
        <4> QED BY <2>2, <2>3, <4>2, <4>3
      <3>2. CASE journal[a].started
        <4>1. c.retry
          BY <1>11, <2>1, <3>2 DEF Start, MayRetry
        <4> QED BY <2>1, <2>2, <2>3, <4>1 DEF CommandSound
      <3> QED BY <3>1, <3>2
    <2>5. work'.plan = <<"begin">> /\ work'.app = a /\ work'.todo = {} /\ work'.due = {}
      BY <1>0, <2>2 DEF Serve, Works, Idle
    <2>6. \A s : In(s, <<"begin">>) => s = "begin"
      BY InOne
    <2>7. SayFirst(<<"begin">>) /\ ~In("say", <<"begin">>)
      BY <2>6, NoSay
    <2>8. <<"begin">> # Answering
      BY Heads
    <2> QED BY <2>4, <2>5, <2>7, <2>8, TimelyFresh
  <1>12. CASE BeginAttempt \/ BaseStale \/ Integrate \/ MoveBranch \/ RefuseMove
    <2>1. Attempting /\ work.todo = {} /\ mirror' = mirror
      BY <1>12, AtWithin DEF BeginAttempt, BaseStale, Integrate, MoveBranch, RefuseMove, Attempting
    <2>2. PICK p : /\ p \in {<<"attempt">>, <<"publish">>, Ending, Cleaning}
                   /\ \/ work' = Proceed(p)
                      \/ \E v : work' = Serve(p, work.app, v)
      BY <1>12, Tails DEF BeginAttempt, BaseStale, Integrate, MoveBranch, RefuseMove
    <2>3. p # <<>>
      BY <2>2, Tails, Heads
    <2>4. work'.plan = p /\ work'.app = work.app /\ work'.todo = {} /\ work'.due = work.due
      BY <1>0, <2>1, <2>2, <2>3 DEF Proceed, Serve, Works
    <2>5. ~In("say", p)
      BY <2>2, InOne, InEnding
    <2>6. p # Answering
      BY <2>2, Heads
    <2>7. PICK b \in Apps : b = work.app /\ journal[b].started /\ row[b].granted /\ Covers(mirror, b)
      BY <2>1, AttemptStarted DEF EntryTimely, WorkTimely
    <2>8. PICK m : m = mirror
      OBVIOUS
    <2>9. Covers(m, b)'
      BY <1>0, <2>7, <2>8, CoversStays
    <2>10. mirror' = journal'[b].original \/ mirror' <= row'[b].retry
      BY <2>1, <2>8, <2>9 DEF Covers
    <2> QED BY <1>s, <2>4, <2>5, <2>6, <2>7, <2>10, NoSay, TimelyFresh
  <1>13. UNCHANGED vars => UNCHANGED <<mirror, work, up>>
    BY DEF vars, device
  <1>14. RefuseOffer \/ RefuseCommand => UNCHANGED <<mirror, work, up>>
    BY DEF RefuseOffer, RefuseCommand, device
  <1>15. CASE Handling
    BY <1>15, <1>1, <1>2, <1>3, <1>5, <1>6, <1>7, <1>8, <1>9, <1>10, <1>11, <1>12, <1>14
       DEF Handling, Continues
  <1> QED BY <1>1, <1>4, <1>13, <1>15, RequestEffects, ExchangeEffects, UserEffects DEF Next, IInv
-----------------------------------------------------------------------------
(***************************************************************************)
(* Who tells the server: steps of the server                               *)
(***************************************************************************)
\* The server knows.
LEMMA TellSettled ==
    ASSUME NEW a, row'[a].result = "applied"
    PROVE  TellSound(a)'
  BY DEF TellSound, Told

\* A step that is not about the application, its frames or the plan.
LEMMA TellServer ==
    ASSUME NEW a, TellSound(a), UNCHANGED <<lease, mirror, journal, work, up, seen>>,
           row'[a].original = row[a].original, row'[a].result = row[a].result
    PROVE  TellSound(a)'
  <1>1. (Waiting(a)' <=> Waiting(a)) /\ (Told(a)' <=> Told(a))
    BY DEF Waiting, Told, Tells
  <1>2. \A s : Within(s)' <=> Within(s)
    BY DEF Within, In
  <1>3. (WillTell(a)' <=> WillTell(a)) /\ (SaysApplied(a)' <=> SaysApplied(a))
    BY <1>2 DEF WillTell, SaysApplied
  <1> QED BY <1>1, <1>2, <1>3 DEF TellSound

LEMMA TellRequests ==
    ASSUME IInv, LeasesSound, NEW a \in Apps, RetrySound(a), EntryTimely(a), TellSound(a), Requests
    PROVE  TellSound(a)'
  <1>1. UNCHANGED <<mirror, journal, work, up, seen>>
    BY RequestEffects
  <1>2. CASE Claim
    <2>1. lease' = minted + 1 /\ mirror <= minted /\ minted \in Nat /\ mirror \in Nat
      BY <1>2, Numbers DEF Claim, LeasesSound
    <2>2. ~Waiting(a)'
      BY <1>1, <2>1 DEF Waiting
    <2> QED BY <2>2 DEF TellSound
  <1>3. CASE Release
    <2>1. ~Waiting(a)'
      BY <1>3 DEF Release, Waiting
    <2> QED BY <2>1 DEF TellSound
  <1>4. CASE PrepareApply \/ Discard
    BY <1>1, <1>4, TellServer DEF PrepareApply, Discard
  <1>5. ASSUME NEW b \in Apps, Publish(b) PROVE TellSound(a)'
    <2>1. lease' = lease /\ row \in [Apps -> Rows]
      BY <1>5, TypesSplit DEF Publish, IInv, ServerTypes
    <2>2. CASE a # b
      <3>1. row'[a] = row[a]
        BY <1>5, <2>1, <2>2 DEF Publish
      <3> QED BY <1>1, <2>1, <3>1, TellServer
    <2>3. CASE a = b /\ journal[a].finished = "applied"
      <3>1. row[a].granted
        BY <2>3 DEF IInv, EntrySound, EntryTimely
      <3>2. row'[a].original = row[a].original /\ row'[a].result = row[a].result
        <4> HIDE DEF Granted
        <4> QED BY <1>5, <2>1, <2>3, <3>1, PublishedRow
      <3> QED BY <1>1, <2>1, <3>2, TellServer
    <2>4. CASE journal[a].finished # "applied"
      <3>1. ~Waiting(a)'
        BY <1>1, <2>4 DEF Waiting
      <3> QED BY <3>1 DEF TellSound
    <2> QED BY <2>2, <2>3, <2>4
  <1> QED BY <1>2, <1>3, <1>4, <1>5 DEF Requests

\* The head of the stream is taken, and it told nothing about the application.
LEMMA TellTail ==
    ASSUME up \in Seq(Frames), up # <<>>, up' = Tail(up), NEW a, TellSound(a),
           UNCHANGED <<lease, mirror, journal, work>>, ~Tells(up[1], a),
           row'[a].original = row[a].original, row'[a].result = row[a].result,
           \/ a \in seen' <=> a \in seen
           \/ /\ \A i \in 1..Len(up) : ResultOf(up[i], a) => up[i].epoch # mirror
              /\ journal[a].original # mirror
    PROVE  TellSound(a)'
  <1>1. Waiting(a)' <=> Waiting(a)
    BY DEF Waiting
  <1>2. Told(a) => Told(a)'
    <2> SUFFICES ASSUME NEW i \in 1..Len(up), Tells(up[i], a) PROVE Told(a)'
      BY DEF Told
    <2>1. i # 1
      OBVIOUS
    <2>2. i - 1 \in 1..Len(up') /\ up'[i - 1] = up[i]
      BY <2>1, TailAt
    <2>3. PICK f : f = up[i]
      OBVIOUS
    <2>4. Tells(f, a)'
      BY <2>3 DEF Tells, ResultOf
    <2> QED BY <2>2, <2>3, <2>4 DEF Told, Tells
  <1>3. \A s : Within(s)' <=> Within(s)
    BY DEF Within, In
  <1>4. (WillTell(a)' <=> WillTell(a)) /\ (SaysApplied(a)' <=> SaysApplied(a))
    BY <1>3 DEF WillTell, SaysApplied
  <1> QED BY <1>1, <1>2, <1>3, <1>4 DEF TellSound

\* A frame that brings an applied result is not passed over.
LEMMA TellerSettles ==
    ASSUME IInv, LeasesSound, FramesTimely, NEW a \in Apps, RetrySound(a), Waiting(a),
           up # <<>>, NEW f, f = up[1], Tells(f, a), row[a].result # "applied"
    PROVE  Settles(f) /\ receipt[a] \in {"none", f.verdict}
  <1>1. 1 \in 1..Len(up)
    BY TailAt DEF IInv, TypesSound
  <1>2. /\ journal[a].finished = "applied" /\ journal[a].original = row[a].original
        /\ lease = mirror /\ lease # 0 /\ f.epoch = mirror /\ f.app = a /\ f.verdict = "applied"
    BY DEF Waiting, Tells
  <1>3. receipt[a] \in {"none", "applied"} /\ row[a].result = "none"
    <2>1. receipt[a] \in Results /\ row[a].result \in Results
      BY TypesSplit DEF IInv, ServerTypes, Rows
    <2> QED BY <1>2, <2>1 DEF IInv, RecordSound, Results
  <1>4. CASE f.kind = "reconciled"
    <2>1. f.original = journal[a].original
      BY <1>1, <1>2, <1>4 DEF FramesTimely, FrameTimely
    <2> QED BY <1>2, <1>3, <1>4, <2>1 DEF Settles, Recognised
  <1>5. CASE f.kind = "result"
    <2>1. Covers(f.epoch, a) /\ a \notin seen
      BY <1>1, <1>2, <1>5 DEF FramesTimely, FrameTimely, Tells
    <2>2. row[a].retry \in Nat /\ minted \in Nat /\ row[a].retry <= minted /\ lease = minted
      BY <1>2, Numbers DEF RetrySound, LeasesSound
    <2>3. f.epoch \in {row[a].original, row[a].retry}
      BY <1>2, <2>1, <2>2 DEF Covers
    <2> QED BY <1>2, <1>3, <1>5, <2>1, <2>3 DEF Settles, Authorised
  <1> QED BY <1>4, <1>5 DEF Tells

LEMMA TellExchange ==
    ASSUME IInv, LeasesSound, FramesTimely, NEW a \in Apps, RetrySound(a), TellSound(a), Exchange
    PROVE  TellSound(a)'
  <1>0. UNCHANGED <<lease, mirror, journal, work>> /\ up \in Seq(Frames)
    BY ExchangeEffects DEF IInv, TypesSound
  <1>h. up # <<>> => 1 \in 1..Len(up) /\ Frame = up[1]
    BY <1>0, TailAt DEF Frame
  <1>1. CASE RecordReceipt \/ ServerFails
    BY <1>0, <1>1, TellServer DEF RecordReceipt, ServerFails
  <1>2. CASE TakeHello \/ TakeAck
    <2>1. up # <<>> /\ up' = Tail(up) /\ Frame.kind \in {"hello", "ack"} /\ UNCHANGED <<row, seen>>
      BY <1>2 DEF TakeHello, TakeAck, Incoming
    <2>2. ~Tells(up[1], a)
      BY <1>h, <2>1 DEF Tells
    <2> QED BY <1>0, <2>1, <2>2, TellTail
  <1>3. CASE NoteOutcome
    <2>1. up # <<>> /\ up' = Tail(up) /\ Frame.verdict # "applied" /\ seen' = seen
      BY <1>3 DEF NoteOutcome, Incoming, Notes
    <2>2. ~Tells(up[1], a)
      BY <1>h, <2>1 DEF Tells
    <2>3. row'[a].original = row[a].original /\ row'[a].result = row[a].result
      BY <1>3, SettledRow
    <2> QED BY <1>0, <2>1, <2>2, <2>3, TellTail
  <1>4. CASE ~Waiting(a)
    <2>1. row'[a].original = row[a].original
      BY SettledRow, ExchangeEffects DEF IInv
    <2>2. ~Waiting(a)'
      BY <1>0, <1>4, <2>1 DEF Waiting
    <2> QED BY <2>2 DEF TellSound
  <1>5. CASE SettleRow /\ Waiting(a)
    <2>1. /\ up # <<>> /\ up' = Tail(up) /\ seen' = Answered /\ Frame.verdict \in Final
          /\ receipt[Frame.app] = Frame.verdict
      BY <1>5 DEF SettleRow, IInv, HalfwaySound
    <2>2. CASE Frame.app # a
      <3>1. ~Tells(up[1], a) /\ (a \in seen' <=> a \in seen)
        BY <1>h, <2>1, <2>2 DEF Tells, Answered
      <3>2. row'[a].original = row[a].original /\ row'[a].result = row[a].result
        BY <1>5, <2>2, SettledRow
      <3> QED BY <1>0, <2>1, <3>1, <3>2, TellTail
    <2>3. CASE Frame.app = a
      <3>1. receipt[a] = "applied" /\ Frame.verdict = "applied"
        BY <1>5, <2>1, <2>3 DEF IInv, RecordSound, Waiting, Final
      <3>2. row[a].result \in {"none", "applied"} /\ row \in [Apps -> Rows]
        BY <3>1, TypesSplit DEF IInv, RecordSound, ServerTypes
      <3>3. row' = [row EXCEPT ![a].result = "applied", ![a].outcome = "applied"]
        BY <1>5, <2>3, <3>1, <3>2 DEF SettleRow
      <3>4. row'[a].result = "applied"
        BY <3>2, <3>3 DEF Rows
      <3> QED BY <3>4, TellSettled
    <2> QED BY <2>2, <2>3
  <1>6. CASE PassOver /\ Waiting(a)
    <2>1. /\ up # <<>> /\ up' = Tail(up) /\ seen' = Answered /\ row' = row
          /\ ~(Settles(Frame) /\ receipt[Frame.app] \in {"none", Frame.verdict})
      BY <1>6 DEF PassOver, Incoming
    <2>2. CASE row[a].result = "applied"
      BY <2>1, <2>2, TellSettled
    <2>3. CASE row[a].result # "applied"
      <3>1. ~Tells(up[1], a)
        <4>1. PICK f : f = up[1] /\ f = Frame
          BY <1>h, <2>1
        <4>2. Tells(f, a) => Settles(f) /\ receipt[a] \in {"none", f.verdict} /\ f.app = a
          BY <1>6, <2>1, <2>3, <4>1, TellerSettles DEF Tells
        <4> QED BY <2>1, <4>1, <4>2
      <3>2. CASE a \in seen' <=> a \in seen
        BY <1>0, <2>1, <3>1, <3>2, TellTail
      <3>3. CASE a \in seen' /\ a \notin seen
        <4>1. ResultOf(up[1], a) /\ 1 \in 1..Len(up)
          BY <1>h, <2>1, <3>3 DEF Answered, ResultOf
        <4>2. up[1].verdict = "applied"
          BY <1>6, <4>1 DEF IInv, FramesSound, FrameSound, ResultOf, Waiting
        <4>3. up[1].epoch # mirror
          BY <3>1, <3>3, <4>1, <4>2 DEF Tells, ResultOf
        <4>4. \A i \in 1..Len(up) : ResultOf(up[i], a) => up[i].epoch # mirror
          BY <4>1, <4>3 DEF FramesTimely, ResultOf
        <4>5. journal[a].original # mirror
          <5>1. /\ journal[a].original <= up[1].epoch /\ up[1].epoch <= mirror
            BY <4>1 DEF FramesTimely, FrameTimely, ResultOf
          <5>2. up[1].epoch \in Nat /\ mirror \in Nat
            BY <4>1, Numbers DEF ResultOf
          <5> QED BY <4>3, <5>1, <5>2
        <4> QED BY <1>0, <2>1, <3>1, <4>4, <4>5, TellTail
      <3>4. a \in seen => a \in seen'
        BY <2>1 DEF Answered
      <3> QED BY <3>2, <3>3, <3>4
    <2> QED BY <2>2, <2>3
  <1> QED BY <1>1, <1>2, <1>3, <1>4, <1>5, <1>6 DEF Exchange
-----------------------------------------------------------------------------
(***************************************************************************)
(* Who tells the server: steps of the daemon                               *)
(***************************************************************************)
\* The step of the daemon may send a frame, and leaves the result of a alone.
Calm(a) ==
    /\ UNCHANGED <<lease, mirror, row, seen>> /\ (up' = up \/ \E f : up' = Append(up, f))
    /\ journal'[a].finished = journal[a].finished /\ journal'[a].original = journal[a].original

LEMMA ToldStays ==
    ASSUME IInv, NEW a, Calm(a)
    PROVE  (Waiting(a)' <=> Waiting(a)) /\ (Told(a) => Told(a)')
  <1>1. Waiting(a)' <=> Waiting(a)
    BY DEF Calm, Waiting
  <1>2. ASSUME Told(a) PROVE Told(a)'
    <2>1. CASE row[a].result = "applied"
      BY <2>1 DEF Calm, Told
    <2>2. ASSUME NEW i \in 1..Len(up), Tells(up[i], a) PROVE Told(a)'
      <3>1. i \in 1..Len(up') /\ up'[i] = up[i]
        <4>1. up \in Seq(Frames)
          BY DEF IInv, TypesSound
        <4> QED BY <4>1, AppendAt DEF Calm
      <3>2. PICK f : f = up[i]
        OBVIOUS
      <3>3. Tells(f, a)'
        BY <2>2, <3>2 DEF Tells, Calm
      <3> QED BY <3>1, <3>2, <3>3 DEF Told, Tells
    <2> QED BY <1>2, <2>1, <2>2 DEF Told
  <1> QED BY <1>1, <1>2

\* If the server is told, the rest of the plan does not matter.
LEMMA TellIdle ==
    ASSUME IInv, NEW a, TellSound(a), Calm(a), Waiting(a) => Told(a) \/ Told(a)'
    PROVE  TellSound(a)'
  <1>1. Waiting(a)' => Waiting(a) /\ Told(a)'
    BY ToldStays
  <1>2. Waiting(a)' /\ a \in seen' /\ journal'[a].original = mirror' => row'[a].result = "applied"
    BY <1>1 DEF Calm, TellSound
  <1> QED BY <1>1, <1>2 DEF TellSound

\* A handler that will not tell the server is one that need not.
LEMMA NoTell ==
    ASSUME NEW a, TellSound(a), Waiting(a), work.plan # Answering \/ work.app # a,
           ~Within("say"), ~Within("ack"), ~Within("report")
    PROVE  Told(a)
  BY DEF TellSound, WillTell, SaysApplied

\* The result is new: nobody has heard of it.
LEMMA TellFresh ==
    ASSUME NEW a, a \notin seen', Waiting(a)' => journal'[a].reported # mirror',
           ~In("mark", work'.plan), Waiting(a)' => WillTell(a)'
    PROVE  TellSound(a)'
  <1>1. ~Within("mark")'
    BY WithinNext
  <1> QED BY <1>1 DEF TellSound

LEMMA TellNever ==
    ASSUME NEW a, journal'[a].finished # "applied" PROVE TellSound(a)'
  BY DEF TellSound, Waiting

\* Every application is about to be reported.
LEMMA TellLater ==
    ASSUME IInv, NEW a, TellSound(a), Calm(a), journal'[a].reported = journal[a].reported,
           In("report", work'.plan), ~In("mark", work'.plan),
           journal[a].finished = "applied" => a \in work'.due
    PROVE  TellSound(a)'
  <1>1. CASE journal[a].reported = mirror
    BY <1>1, TellIdle DEF TellSound
  <1>2. CASE journal[a].reported # mirror /\ Waiting(a)
    <2>1. Within("report")' /\ ~Within("mark")'
      BY WithinNext
    <2>2. WillTell(a)' /\ journal'[a].reported # mirror'
      BY <1>2, <2>1 DEF WillTell, Waiting, Calm
    <2>3. a \in seen' /\ journal'[a].original = mirror' => row'[a].result = "applied"
      BY <1>2 DEF Calm, TellSound
    <2> QED BY <2>1, <2>2, <2>3 DEF TellSound
  <1>3. CASE ~Waiting(a)
    BY <1>3, TellIdle
  <1> QED BY <1>1, <1>2, <1>3

\* What the daemon was about to do for the application it still is.
LEMMA TellGoesOn ==
    ASSUME IInv, NEW a, TellSound(a), Calm(a), journal'[a].reported = journal[a].reported,
           Waiting(a) /\ ~Told(a) => WillTell(a)',
           Waiting(a) /\ ~Told(a) /\ In("mark", work'.plan) /\ work'.app = a => SaysApplied(a)'
    PROVE  TellSound(a)'
  <1>1. CASE ~Waiting(a) \/ Told(a)
    BY <1>1, TellIdle
  <1>2. CASE Waiting(a) /\ ~Told(a)
    <2>1. journal'[a].reported # mirror'
      BY <1>2 DEF TellSound, Calm
    <2>2. a \in seen' /\ journal'[a].original = mirror' => row'[a].result = "applied"
      BY <1>2 DEF Calm, TellSound
    <2>3. Within("mark")' <=> In("mark", work'.plan)
      BY WithinNext
    <2> QED BY <1>2, <2>1, <2>2, <2>3 DEF TellSound
  <1> QED BY <1>1, <1>2

\* A step of a plan that neither sends nor finishes nor begins a report.
LEMMA TellRest ==
    ASSUME IInv, NEW a, TellSound(a), Calm(a), journal'[a].reported = journal[a].reported,
           ~SaysApplied(a), work.plan # <<>>,
           Head(work.plan) \notin {"answer", "ack", "report"}, work' = Rest
    PROVE  TellSound(a)'
  <1>1. work \in Works /\ work.plan \in Seq(Steps)
    BY TypesSplit DEF IInv, DeviceTypes, Works
  <1>2. ASSUME NEW s \in {"ack", "report"}, Within(s)
        PROVE  Within(s)' /\ work'.due = work.due
    <2>1. In(s, Tail(work.plan)) /\ Tail(work.plan) # <<>>
      BY <1>1, <1>2, InRest DEF Within
    <2>2. work'.plan = Tail(work.plan) /\ work'.due = work.due
      BY <1>1, <2>1 DEF Rest, Proceed, Works
    <2> QED BY <2>1, <2>2, WithinNext
  <1>3. ASSUME Waiting(a), ~Told(a) PROVE WillTell(a)'
    <2>1. work.plan # Answering
      BY Heads
    <2>2. /\ journal[a].reported # mirror
          /\ Within("ack") \/ (Within("report") /\ a \in work.due)
      BY <1>3, <2>1 DEF TellSound, WillTell
    <2>3. Within("ack")' \/ (Within("report")' /\ a \in work'.due)
      BY <1>2, <2>2
    <2> QED BY <2>2, <2>3 DEF WillTell, Calm
  <1>4. ASSUME Waiting(a), In("mark", work'.plan), work'.app = a PROVE Told(a)
    <2>1. work'.plan = Tail(work.plan) /\ work'.app = work.app
      BY <1>1, <1>4, RestWork, InEmpty
    <2>2. Within("mark")
      BY <1>1, <1>4, <2>1, InTail DEF Within
    <2> QED BY <1>4, <2>1, <2>2 DEF TellSound
  <1> QED BY <1>3, <1>4, TellGoesOn

\* Only a plan that begins with a report says anything.
LEMMA SaysFirst ==
    ASSUME IInv, SayFirst(work.plan), work.plan # <<>>, Head(work.plan) # "say", NEW a
    PROVE  ~SaysApplied(a)
  BY SayTail, TypesSplit DEF IInv, DeviceTypes, Works, SaysApplied, Within

\* The daemon sends a frame that tells the server.
LEMMA TellSent ==
    ASSUME IInv, NEW a, TellSound(a), Calm(a), NEW f, up' = Append(up, f),
           Waiting(a) => /\ f.kind \in {"result", "reconciled"} /\ f.app = a
                         /\ f.verdict = "applied" /\ f.epoch = mirror
                         /\ f.kind = "result" => a \notin seen
    PROVE  TellSound(a)'
  <1>1. CASE Waiting(a)
    <2>1. Tells(f, a)'
      BY <1>1 DEF Tells, Calm
    <2>2. Len(up) + 1 \in 1..Len(up') /\ up'[Len(up) + 1] = f
      <3>1. up \in Seq(Frames)
        BY DEF IInv, TypesSound
      <3>2. Len(up) \in Nat /\ Len(up') = Len(up) + 1 /\ up'[Len(up) + 1] = f
        BY <3>1, AppendAt
      <3> QED BY <3>2
    <2>3. Told(a)'
      BY <2>1, <2>2 DEF Told, Tells
    <2> QED BY <2>3, TellIdle
  <1>2. CASE ~Waiting(a)
    BY <1>2, TellIdle
  <1> QED BY <1>1, <1>2

\* A plan of which only the answer tells anything, and of another application.
LEMMA AttemptPlans ==
    ASSUME IInv, Attempting
    PROVE  ~Within("say") /\ ~Within("ack") /\ ~Within("report") /\ ~Within("mark")
  <1>1. WorkSound
    BY DEF IInv
  <1>2. work.plan \in {<<"begin">>, <<"attempt">>, <<"publish">>, Cleaning, Ending, Answering}
    BY <1>1 DEF Attempting, WorkSound, BeginSound, AttemptSound, PublishSound, FinishSound,
                AnswerSound
  <1> QED BY <1>2, InOne, InEnding DEF Within

LEMMA TellContinues ==
    ASSUME IInv, WorkTimely, NEW a \in Apps, EntryTimely(a), TellSound(a), Continues
    PROVE  TellSound(a)'
  <1>0. /\ mirror' = mirror /\ work.plan # <<>> /\ work.plan \in Seq(Steps) /\ work.todo = {}
        /\ work' = Rest /\ SayFirst(work.plan) /\ journal \in [Apps -> Entries]
        /\ journal[a] \in Entries
    BY ContinuesEffects, TypesSplit DEF WorkTimely, IInv, DeviceTypes
  <1>1. UNCHANGED <<lease, mirror, row, seen>>
    BY HandlingEffects, <1>0 DEF Continues, Handling
  <1>2. CASE SendHello \/ Transition \/ Consume \/ Cleanup
    <2>1. Calm(a) /\ journal' = journal
      BY <1>1, <1>2 DEF SendHello, Transition, Consume, Cleanup, Calm
    <2>2. Head(work.plan) \in {"hello", "transition", "consume", "cleanup"}
      BY <1>2 DEF SendHello, Transition, Consume, Cleanup, At
    <2>3. ~SaysApplied(a)
      BY <1>0, <2>2, SaysFirst
    <2> QED BY <1>0, <2>1, <2>2, <2>3, TellRest
  <1>3. CASE EndReport
    <2>1. Calm(a) /\ Head(work.plan) = "report" /\ ~Due(a)
      BY <1>1, <1>3 DEF EndReport, Calm, At
    <2>2. ~SaysApplied(a) /\ work.plan # Answering
      BY <1>0, <2>1, SaysFirst, Heads
    <2>3. ~Within("ack")
      BY <2>1 DEF IInv, WorkSound, AckSound
    <2>4. Waiting(a) => Told(a)
      <3>1. Waiting(a) => mirror # 0
        BY DEF Waiting
      <3> QED BY <2>1, <2>2, <2>3, <3>1 DEF TellSound, WillTell, Due
    <2> QED BY <2>1, <2>4, TellIdle
  <1>4. CASE Say
    <2>1. PICK f : /\ f = [kind |-> "reconciled", app |-> work.app, epoch |-> mirror,
                           original |-> journal[work.app].original, verdict |-> work.verdict]
      OBVIOUS
    <2>2. up' = Append(up, f) /\ Head(work.plan) = "say" /\ journal' = journal
      BY <1>4, <2>1 DEF Say, At
    <2>3. Calm(a)
      BY <1>1, <2>2 DEF Calm
    <2>4. f.kind = "reconciled" /\ f.app = work.app /\ f.verdict = work.verdict /\ f.epoch = mirror
      BY <2>1
    <2>5. CASE SaysApplied(a)
      BY <2>2, <2>3, <2>4, <2>5, TellSent DEF SaysApplied
    <2>6. CASE ~SaysApplied(a)
      BY <1>0, <2>2, <2>3, <2>6, TellRest
    <2> QED BY <2>5, <2>6
  <1>5. CASE Mark
    <2>1. /\ journal' = [journal EXCEPT ![work.app].reported = mirror] /\ Within("mark")
          /\ Head(work.plan) = "mark" /\ up' = up
      BY <1>5, AtWithin DEF Mark
    <2>2. ~SaysApplied(a)
      BY <1>0, <2>1, SaysFirst
    <2>3. Calm(a)
      BY <1>0, <1>1, <2>1 DEF Calm, Entries
    <2>4. CASE work.app = a
      BY <2>1, <2>2, <2>3, <2>4, TellIdle DEF TellSound
    <2>5. CASE work.app # a
      <3>1. journal'[a] = journal[a]
        BY <1>0, <2>1, <2>5
      <3> QED BY <1>0, <2>1, <2>2, <2>3, <3>1, TellRest
    <2> QED BY <2>4, <2>5
  <1>6. CASE FinishAttempt
    <2>1. /\ Within("finish") /\ Head(work.plan) = "finish" /\ up' = up
          /\ journal' = [journal EXCEPT ![work.app] = Finish(@, work.verdict)]
      BY <1>6, AtWithin DEF FinishAttempt
    <2>2. Open(work.app) /\ work.plan = Ending /\ work.app \in Unfinished
      BY <2>1, Heads DEF IInv, WorkSound, FinishSound, Open
    <2>3. CASE work.app # a
      <3>1. journal'[a] = journal[a]
        BY <1>0, <2>1, <2>3
      <3>2. Calm(a)
        BY <1>1, <2>1, <3>1 DEF Calm
      <3>3. Attempting
        BY <2>1 DEF Attempting
      <3> QED BY <2>3, <3>2, <3>3, AttemptPlans, NoTell, TellIdle
    <2>4. CASE work.app = a
      <3>1. PICK e, v : e = journal[a] /\ v = work.verdict
        OBVIOUS
      <3>2. e \in Entries /\ e.finished = "none" /\ a \notin seen
        BY <1>0, <2>2, <2>4, <3>1 DEF Unfinished, EntryTimely
      <3>3. journal'[a].reported = 0
        <4> HIDE DEF Finish
        <4>1. journal'[a] = Finish(e, v)
          BY <1>0, <2>1, <2>4, <3>1
        <4> QED BY <3>2, <4>1, EntryParts
      <3>4. work'.plan = Answering /\ work'.app = a
        <4>1. work \in Works /\ Tail(work.plan) = Answering /\ Answering # <<>>
          BY <2>2, Tails DEF IInv, TypesSound
        <4> QED BY <1>0, <2>4, <4>1 DEF Rest, Proceed, Works
      <3>5. ~In("mark", work'.plan)
        BY <3>4, InEnding
      <3>6. WillTell(a)'
        BY <3>4 DEF WillTell, Answering
      <3>7. Waiting(a)' => journal'[a].reported # mirror'
        BY <3>3 DEF Waiting
      <3> QED BY <1>1, <3>2, <3>5, <3>6, <3>7, TellFresh
    <2> QED BY <2>3, <2>4
  <1>7. CASE Answer
    <2>1. PICK f : f = [kind |-> "result", app |-> work.app, epoch |-> mirror,
                        verdict |-> work.verdict]
      OBVIOUS
    <2>2. up' = Append(up, f) /\ Head(work.plan) = "answer" /\ journal' = journal /\ Within("answer")
      BY <1>7, <2>1, AtWithin DEF Answer
    <2>3. Calm(a)
      BY <1>1, <2>2 DEF Calm
    <2>4. f.kind = "result" /\ f.app = work.app /\ f.verdict = work.verdict /\ f.epoch = mirror
      BY <2>1
    <2>5. work.plan = Answering /\ journal[work.app].finished = work.verdict
      BY <2>2, Heads DEF IInv, WorkSound, AnswerSound
    <2>6. CASE work.app # a
      BY <2>2, <2>3, <2>6, AttemptPlans, NoTell, TellIdle DEF Attempting
    <2>7. CASE work.app = a /\ a \notin seen
      BY <2>2, <2>3, <2>4, <2>5, <2>7, TellSent DEF Waiting
    <2>8. CASE work.app = a /\ a \in seen
      <3>1. journal[a].original = mirror
        BY <2>5, <2>8 DEF WorkTimely, Untold
      <3> QED BY <2>3, <2>8, <3>1, TellIdle DEF TellSound, Told
    <2> QED BY <2>6, <2>7, <2>8
  <1> QED BY <1>2, <1>3, <1>4, <1>5, <1>6, <1>7 DEF Continues

\* The daemon judges an application or leaves it aside; its plan stays.
LEMMA TellJudge ==
    ASSUME IInv, WorkTimely, NEW a \in Apps, EntryTimely(a), TellSound(a), NEW b \in Apps,
           Recover(b) \/ Defer(b)
    PROVE  TellSound(a)'
  <1>0. /\ work \in Works /\ journal \in [Apps -> Entries] /\ journal[b] \in Entries
        /\ work.todo \subseteq Unfinished
        /\ (work.todo # {} => work.plan \in {<<"hello", "report">>, <<"report", "consume">>})
    BY TypesSplit DEF IInv, DeviceTypes, WorkSound, JudgeSound
  <1>1. UNCHANGED <<lease, mirror, row, seen, up>>
    BY DEF Recover, Defer, server
  <1>2. /\ work'.plan = work.plan /\ work'.app = work.app /\ work'.verdict = work.verdict
        /\ work'.due \in {work.due, work.due \ {b}} /\ (Recover(b) => work'.due = work.due)
    BY <1>0 DEF Recover, Defer, Works
  <1>3. \A s : Within(s)' <=> Within(s)
    BY <1>2, WithinNext DEF Within
  <1>4. CASE a # b
    <2>1. journal'[a] = journal[a]
      BY <1>0, <1>4 DEF Recover, Defer
    <2>2. Calm(a)
      BY <1>1, <2>1 DEF Calm
    <2>3. SaysApplied(a)' <=> SaysApplied(a)
      BY <1>2, <1>3 DEF SaysApplied
    <2>4. WillTell(a) => WillTell(a)'
      BY <1>1, <1>2, <1>3, <1>4, <2>1, <2>3 DEF WillTell, Answering
    <2>5. Within("mark") <=> In("mark", work'.plan)
      BY <1>3, WithinNext
    <2> QED BY <1>2, <2>1, <2>2, <2>3, <2>4, <2>5, TellGoesOn DEF TellSound
  <1>5. CASE a = b /\ Recover(b) /\ Observed(b) = "applied"
    <2>1. PICK e : e = journal[b]
      OBVIOUS
    <2>2. e \in Entries /\ e.finished = "none" /\ a \notin seen /\ a \in work.todo
      BY <1>0, <1>5, <2>1 DEF Unfinished, EntryTimely, Recover
    <2>3. journal'[a].reported = 0
      <3> HIDE DEF Finish
      <3>1. journal'[a] = Finish(e, "applied")
        BY <1>0, <1>5, <2>1 DEF Recover
      <3> QED BY <2>2, <3>1, EntryParts
    <2>4. Within("report") /\ ~In("mark", work'.plan) /\ a \in work'.due
      BY <1>0, <1>2, <1>5, <2>2, InTwo DEF Within, WorkTimely
    <2>5. Waiting(a)' => journal'[a].reported # mirror'
      BY <2>3 DEF Waiting
    <2>6. Waiting(a)' => WillTell(a)'
      BY <1>3, <2>4, <2>5 DEF WillTell
    <2> QED BY <1>1, <2>2, <2>4, <2>5, <2>6, TellFresh
  <1>6. CASE a = b /\ Recover(b) /\ Observed(b) # "applied"
    <2>1. PICK e, v : e = journal[b] /\ v = Observed(b)
      OBVIOUS
    <2>2. e \in Entries /\ e.finished = "none"
      BY <1>0, <1>6, <2>1 DEF Unfinished, Recover
    <2>3. journal'[a].finished = "none"
      <3> HIDE DEF Note, Observed
      <3>1. journal'[a] = Note(e, v)
        BY <1>0, <1>6, <2>1 DEF Recover
      <3> QED BY <2>2, <3>1, EntryParts
    <2> QED BY <2>3, TellNever
  <1>7. CASE a = b /\ Defer(b)
    <2>1. journal'[a].finished # "applied"
      BY <1>0, <1>7 DEF Defer, Unfinished
    <2> QED BY <2>1, TellNever
  <1> QED BY <1>4, <1>5, <1>6, <1>7

LEMMA TellReport ==
    ASSUME IInv, WorkTimely, NEW a \in Apps, TellSound(a), NEW b \in Apps, Report(b)
    PROVE  TellSound(a)'
  <1>1. /\ work'.app = b /\ work'.due = work.due \ {b}
        /\ journal[b].finished = "applied" => work'.verdict = "applied"
        /\ Within("say")' /\ ~Within("say") /\ ~Within("ack") /\ work.plan # Answering
        /\ \A s : Within(s) => Within(s)'
    BY ReportPlan DEF WorkTimely
  <1>2. Calm(a) /\ journal' = journal
    BY DEF Report, Calm, server
  <1>3. CASE a = b
    <2>1. Waiting(a) => SaysApplied(a)'
      BY <1>1, <1>3 DEF SaysApplied, Waiting
    <2>2. Waiting(a) => WillTell(a)'
      BY <2>1 DEF WillTell, SaysApplied
    <2> QED BY <1>2, <2>1, <2>2, TellGoesOn
  <1>4. CASE a # b
    <2>1. Waiting(a) /\ ~Told(a) =>
             journal[a].reported # mirror /\ Within("report") /\ a \in work.due
      BY <1>1 DEF TellSound, WillTell, SaysApplied
    <2>2. Waiting(a) /\ ~Told(a) => WillTell(a)'
      BY <1>1, <1>2, <1>4, <2>1 DEF WillTell, Calm
    <2> QED BY <1>1, <1>2, <1>4, <2>2, TellGoesOn
  <1> QED BY <1>3, <1>4

\* A new occupancy: everything is to be reported under it.
LEMMA TellOffer ==
    ASSUME IInv, IInv', LeasesSound, mirror <= mirror', NEW a \in Apps, EntryTimely(a),
           TellSound(a), TakeOffer
    PROVE  TellSound(a)'
  <1>1. /\ UNCHANGED <<lease, row, seen, up, journal>> /\ work = Idle
        /\ work'.plan = <<"ack", "report", "consume">>
    BY DEF TakeOffer, server, Idle
  <1>2. CASE mirror' = mirror
    <2>1. Calm(a)
      BY <1>1, <1>2 DEF Calm
    <2>2. Waiting(a) => Told(a)
      <3>1. work.plan # Answering
        BY <1>1, IdleWork, Tails
      <3> QED BY <1>1, <3>1, IdleWork, NoTell
    <2> QED BY <2>1, <2>2, TellIdle
  <1>3. CASE mirror' # mirror
    <2>1. mirror \in Nat /\ mirror' \in Nat /\ journal[a].reported \in Nat
          /\ journal[a].original \in Nat
      BY Numbers, NumbersNext
    <2>2. journal'[a].reported # mirror' /\ journal'[a].original # mirror'
      BY <1>1, <1>3, <2>1 DEF EntryTimely
    <2>3. Within("ack")' /\ ~Within("mark")'
      BY <1>1, InThree, WithinNext
    <2>4. WillTell(a)'
      BY <2>2, <2>3 DEF WillTell
    <2> QED BY <2>2, <2>3, <2>4 DEF TellSound
  <1> QED BY <1>2, <1>3

LEMMA TellLaunch ==
    ASSUME IInv, NEW a \in Apps, TellSound(a), SendAck \/ Relaunch
    PROVE  TellSound(a)'
  <1>0. work \in Works
    BY DEF IInv, TypesSound
  <1>1. Calm(a) /\ journal' = journal
    BY DEF SendAck, Relaunch, Calm, server
  <1>2. journal[a].finished = "applied" => a \in {b \in Apps : journal[b].started}
    BY DEF IInv, EntrySound
  <1>3. /\ work'.plan \in {<<"hello", "report">>, <<"report", "consume">>}
        /\ work'.due = {b \in Apps : journal[b].started}
    <2>1. CASE Relaunch
      BY <2>1 DEF Relaunch, Idle
    <2>2. CASE SendAck
      <3>1. At("ack") /\ work' = [Rest EXCEPT !.todo = Unfinished,
                                              !.due = {b \in Apps : journal[b].started}]
        BY <2>2 DEF SendAck
      <3>2. work.plan = <<"ack", "report", "consume">>
        BY <3>1, AtWithin DEF IInv, WorkSound, AckSound
      <3>3. Tail(work.plan) = <<"report", "consume">> /\ Tail(work.plan) # <<>>
        BY <3>2
      <3>4. Rest = [work EXCEPT !.plan = <<"report", "consume">>]
        BY <3>3 DEF Rest, Proceed
      <3> QED BY <1>0, <3>1, <3>4 DEF Works
    <2> QED BY <2>1, <2>2
  <1>4. In("report", work'.plan) /\ ~In("mark", work'.plan)
    BY <1>3, InTwo
  <1> QED BY <1>1, <1>2, <1>3, <1>4, TellLater

LEMMA TellCommand ==
    ASSUME IInv, NEW a \in Apps, EntryTimely(a), TellSound(a),
           ReplayFinished \/ FinishFound \/ AskForDecision \/ Start \/ StartTerminal
    PROVE  TellSound(a)'
  <1>0. /\ UNCHANGED <<lease, mirror, row, seen, up>> /\ journal \in [Apps -> Entries]
        /\ work = Idle /\ down # <<>> /\ Head(down).kind = "apply"
    BY TypesSplit DEF ReplayFinished, FinishFound, AskForDecision, Start, StartTerminal,
                      Commanded, server, IInv, DeviceTypes
  <1>1. PICK b \in Apps : b = Head(down).app
    BY <1>0, HeadTypes DEF IInv
  <1>2. Waiting(a) => Told(a)
    <2>1. work.plan # Answering
      BY <1>0, IdleWork, Tails
    <2> QED BY <1>0, <2>1, IdleWork, NoTell
  <1>3. ASSUME journal'[a] = journal[a] PROVE TellSound(a)'
    BY <1>0, <1>2, <1>3, TellIdle DEF Calm
  <1>4. CASE ReplayFinished \/ StartTerminal
    BY <1>3, <1>4 DEF ReplayFinished, StartTerminal
  <1>5. CASE a # b
    BY <1>0, <1>1, <1>3, <1>5 DEF ReplayFinished, FinishFound, AskForDecision, Start, StartTerminal
  <1>6. CASE a = b /\ AskForDecision
    <2>1. PICK e, v : e = journal[b] /\ v = Observed(b)
      OBVIOUS
    <2>2. e \in Entries /\ e.finished = "none"
      BY <1>0, <1>1, <1>6, <2>1 DEF Unfinished, AskForDecision
    <2>3. journal'[a].finished = "none"
      <3> HIDE DEF Note, Observed
      <3>1. journal'[a] = Note(e, v)
        BY <1>0, <1>1, <1>6, <2>1 DEF AskForDecision
      <3> QED BY <2>2, <3>1, EntryParts
    <2> QED BY <2>3, TellNever
  <1>7. CASE a = b /\ Start
    <2>1. PICK n : n = [NoEntry EXCEPT !.started = TRUE, !.original = Head(down).epoch]
      OBVIOUS
    <2>2. journal' = journal \/ journal' = [journal EXCEPT ![b] = n]
      BY <1>1, <1>7, <2>1 DEF Start
    <2>3. CASE journal' = journal
      BY <1>3, <2>3
    <2>4. CASE journal' = [journal EXCEPT ![b] = n]
      <3>1. n.finished = "none"
        BY <2>1 DEF NoEntry
      <3>2. journal'[a].finished = "none"
        BY <1>0, <1>7, <2>4, <3>1
      <3> QED BY <3>2, TellNever
    <2> QED BY <2>2, <2>3, <2>4
  <1>8. CASE a = b /\ FinishFound
    <2>1. PICK e : e = journal[b]
      OBVIOUS
    <2>2. e \in Entries /\ e.finished = "none" /\ a \notin seen /\ a \in Unfinished
          /\ work' = Replay(a, "applied")
      BY <1>0, <1>1, <1>8, <2>1 DEF Unfinished, EntryTimely, FinishFound
    <2>3. journal'[a].reported = 0
      <3> HIDE DEF Finish, Replay
      <3>1. journal'[a] = Finish(e, "applied")
        BY <1>0, <1>1, <1>8, <2>1 DEF FinishFound
      <3> QED BY <2>2, <3>1, EntryParts
    <2>4. ~Pending(a)
      <3>1. Untold(a)
        BY <2>2, UnfinishedUntold
      <3>2. up \in Seq(Frames)
        BY DEF IInv, TypesSound
      <3>3. DOMAIN up = 1..Len(up)
        BY <3>2
      <3> QED BY <3>1, <3>3 DEF Untold, Pending, ResultOf
    <2>5. /\ work'.app = a
          /\ \A s : Within(s)' => s \in {"say", "transition", "consume", "answer"}
          /\ (Within("say")' /\ work'.verdict = "applied") \/ work'.plan = Answering
      <3>1. "applied" \in Final
        BY DEF Final
      <3> HIDE DEF Replay
      <3> QED BY <1>0, <2>2, <2>4, <3>1, ReplayPlan
    <2>6. WillTell(a)'
      BY <2>5 DEF WillTell, SaysApplied, Answering
    <2>7. ~In("mark", work'.plan)
      BY <2>5, WithinNext
    <2>8. Waiting(a)' => journal'[a].reported # mirror'
      BY <2>3 DEF Waiting
    <2> QED BY <1>0, <2>2, <2>6, <2>7, <2>8, TellFresh
  <1> QED BY <1>4, <1>5, <1>6, <1>7, <1>8

\* During an attempt the server has been told of everything that is applied.
LEMMA TellAttempt ==
    ASSUME IInv, NEW a \in Apps, TellSound(a),
           BeginAttempt \/ NotStarted \/ BaseStale \/ Integrate \/ MoveBranch \/ RefuseMove
    PROVE  TellSound(a)'
  <1>0. /\ UNCHANGED <<lease, mirror, row, seen, up>> /\ journal \in [Apps -> Entries]
        /\ journal[a] \in Entries
    BY TypesSplit DEF BeginAttempt, NotStarted, BaseStale, Integrate, MoveBranch, RefuseMove,
                      server, IInv, DeviceTypes
  <1>1. PICK s \in {"begin", "attempt", "publish"} : At(s)
    BY DEF BeginAttempt, NotStarted, BaseStale, Integrate, MoveBranch, RefuseMove
  <1>2. Attempting /\ work.plan # Answering
    BY <1>1, AtWithin, Heads DEF Attempting
  <1>3. Waiting(a) => Told(a)
    BY <1>2, AttemptPlans, NoTell
  <1>4. Calm(a)
    <2>1. \/ journal' = journal \/ journal' = [journal EXCEPT ![work.app] = Begin(@)]
          \/ journal' = [journal EXCEPT ![work.app] = Note(@, "not_started")]
      BY DEF BeginAttempt, NotStarted, BaseStale, Integrate, MoveBranch, RefuseMove
    <2>2. PICK e : e = journal[a]
      OBVIOUS
    <2> HIDE DEF Begin, Note
    <2>3. journal'[a] \in {e, Begin(e), Note(e, "not_started")}
      BY <1>0, <2>1, <2>2
    <2> QED BY <1>0, <2>2, <2>3, EntryParts DEF Calm
  <1> QED BY <1>3, <1>4, TellIdle

LEMMA TellStep ==
    ASSUME IInv, IInv', LeasesSound, mirror <= mirror', FramesTimely, WorkTimely, [Next]_vars,
           NEW a \in Apps, RetrySound(a), EntryTimely(a), TellSound(a)
    PROVE  TellSound(a)'
  <1>1. CASE Handling
    <2>1. CASE Continues
      BY <2>1, TellContinues
    <2>2. CASE RefuseOffer \/ RefuseCommand
      BY <2>2, TellServer DEF RefuseOffer, RefuseCommand, server, device
    <2>3. CASE \E b \in Apps : Recover(b) \/ Defer(b) \/ Report(b)
      BY <2>3, TellJudge, TellReport
    <2>4. CASE TakeOffer \/ SendAck
      BY <2>4, TellOffer, TellLaunch
    <2>5. CASE ReplayFinished \/ FinishFound \/ AskForDecision \/ Start \/ StartTerminal
      BY <2>5, TellCommand
    <2>6. CASE BeginAttempt \/ NotStarted \/ BaseStale \/ Integrate \/ MoveBranch \/ RefuseMove
      BY <2>6, TellAttempt
    <2> QED BY <1>1, <2>1, <2>2, <2>3, <2>4, <2>5, <2>6 DEF Handling, Continues
  <1>2. CASE User \/ UNCHANGED vars
    <2>1. UNCHANGED <<lease, row, seen, mirror, journal, work, up>>
      BY <1>2, UserEffects DEF vars, server, device
    <2> QED BY <2>1, TellServer
  <1> QED BY <1>1, <1>2, TellRequests, TellExchange, TellLaunch DEF Next
-----------------------------------------------------------------------------
(***************************************************************************)
(* The theorems                                                            *)
(***************************************************************************)
LEMMA InitSettled == ASSUME Init PROVE SInv
  <1>1. /\ lease = 0 /\ minted = 0 /\ mirror = 0 /\ prepared = NoRequest /\ seen = {}
        /\ row = [a \in Apps |-> NoRow] /\ journal = [a \in Apps |-> NoEntry]
        /\ down = <<>> /\ up = <<>> /\ work = Idle
    BY DEF Init
  <1>2. 1..Len(down) = {} /\ 1..Len(up) = {}
    BY <1>1
  <1>3. LeasesSound /\ CommandsSound /\ FramesTimely
    BY <1>1, <1>2 DEF LeasesSound, CommandsSound, FramesTimely, NoRequest
  <1>4. WorkTimely
    <2>1. work.plan = <<>> /\ work.todo = {} /\ work.due = {} /\ \A s : ~Within(s)
      BY <1>1, IdleWork DEF Idle
    <2>2. work.plan # Answering /\ SayFirst(work.plan)
      BY <2>1, Tails, InEmpty, NoSay
    <2> QED BY <2>1, <2>2 DEF WorkTimely, Attempting
  <1>5. ASSUME NEW a \in Apps PROVE RetrySound(a) /\ EntryTimely(a) /\ TellSound(a)
    <2>1. row[a] = NoRow /\ journal[a] = NoEntry
      BY <1>1
    <2>2. RetrySound(a)
      BY <1>1, <2>1 DEF RetrySound, NoRow
    <2>3. EntryTimely(a)
      BY <1>1, <2>1 DEF EntryTimely, NoEntry
    <2>4. ~Waiting(a)
      BY <1>1 DEF Waiting
    <2> QED BY <2>2, <2>3, <2>4 DEF TellSound
  <1> QED BY <1>3, <1>4, <1>5 DEF SInv

LEMMA SettledStep ==
    ASSUME IInv, SInv, [Next]_vars
    PROVE  IInv' /\ SInv'
  <1>1. /\ LeasesSound /\ CommandsSound /\ WorkTimely /\ FramesTimely
        /\ \A a \in Apps : RetrySound(a) /\ EntryTimely(a) /\ TellSound(a)
    BY DEF SInv
  <1>2. IInv'
    BY StepSound
  <1>3. LeasesSound' /\ mirror <= mirror'
    BY <1>1, LeasesStep
  <1>4. RowsGrow
    BY <1>1, RowsStep
  <1>5. EntriesGrow
    BY <1>1, EntriesStep
  <1>6. CommandsSound'
    BY <1>1, <1>2, <1>4, CommandsStep
  <1>7. WorkTimely'
    BY <1>1, <1>2, <1>4, <1>5, TimelyStep
  <1>8. FramesTimely'
    BY <1>1, <1>2, <1>3, <1>4, <1>5, FramesStep
  <1>9. ASSUME NEW a \in Apps PROVE RetrySound(a)' /\ EntryTimely(a)' /\ TellSound(a)'
    <2>1. RetrySound(a)'
      BY <1>1, RetryStep
    <2>2. EntryTimely(a)'
      BY <1>1, <1>2, <1>3, <1>4, <1>5, EntryStep
    <2>3. TellSound(a)'
      BY <1>1, <1>2, <1>3, TellStep
    <2> QED BY <2>1, <2>2, <2>3
  <1> QED BY <1>2, <1>3, <1>6, <1>7, <1>8, <1>9 DEF SInv

\* The inductive invariant, of the records (ApplicationInvariant) and of the
\* leases, frames and plans: every applied result is known to the server, on its
\* way in a frame, or about to be sent by the handler the daemon is in
\* (report_recovered_applications, replay_finished_application).
THEOREM SettlementInvariance == Spec => [](IInv /\ SInv)
  <1>1. Init => IInv /\ SInv
    BY InitSound, InitSettled
  <1>2. IInv /\ SInv /\ [Next]_vars => (IInv /\ SInv)'
    BY SettledStep
  <1> QED BY <1>1, <1>2, PTL DEF Spec

\* No applied result is lost, for any number of applications, leases, launches and
\* commands: once the daemon is at rest under the server's lease, what it finished
\* as applied under the approval's lease is settled at the server, wherever the
\* daemon was stopped, however often the lease changed before the result arrived,
\* and although the exchange may fail between the two transactions that settle it
\* (finish_application, report_recovered_applications, settle_candidate_apply_result,
\* settle_application_reconciled).
THEOREM NoResultIsLost == Spec => []AppliedIsSettled
  <1>1. IInv /\ SInv => AppliedIsSettled
    <2> SUFFICES ASSUME IInv, SInv, NEW a \in Apps, AtRest(a), journal[a].finished = "applied",
                        journal[a].original = row[a].original
                 PROVE  row[a].result = "applied"
      BY DEF AppliedIsSettled
    <2>1. TellSound(a) /\ Waiting(a)
      BY DEF SInv, AtRest, Waiting
    <2>2. Told(a)
      <3>1. work = Idle
        BY DEF AtRest
      <3>2. work.plan # Answering
        BY <3>1, IdleWork, Tails
      <3> QED BY <2>1, <3>1, <3>2, IdleWork, NoTell
    <2>3. \A i \in 1..Len(up) : ~Tells(up[i], a)
      <3>1. up \in Seq(Frames)
        BY DEF IInv, TypesSound
      <3>2. DOMAIN up = 1..Len(up)
        BY <3>1
      <3> QED BY <3>2 DEF AtRest, Tells
    <2> QED BY <2>2, <2>3 DEF Told
  <1> QED BY <1>1, SettlementInvariance, PTL
=============================================================================
