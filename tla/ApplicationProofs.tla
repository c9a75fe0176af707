------------------------- MODULE ApplicationProofs -------------------------
(***************************************************************************)
(* The safety of applying candidates, for every number of applications,    *)
(* leases, launches, commands and interventions of the user.               *)
(***************************************************************************)
EXTENDS ApplicationInvariant, FiniteSetTheorems, SequenceTheorems, TLAPS

(***************************************************************************)
(* Plans                                                                   *)
(***************************************************************************)
LEMMA InEmpty == ASSUME NEW s PROVE ~In(s, <<>>)
  BY DEF In

LEMMA InOne == ASSUME NEW s, NEW x PROVE In(s, <<x>>) <=> s = x
  <1>1. Len(<<x>>) = 1 /\ <<x>>[1] = x
    OBVIOUS
  <1> QED BY <1>1 DEF In

LEMMA InTwo == ASSUME NEW s, NEW x, NEW y PROVE In(s, <<x, y>>) <=> s \in {x, y}
  <1>1. Len(<<x, y>>) = 2 /\ <<x, y>>[1] = x /\ <<x, y>>[2] = y
    OBVIOUS
  <1>2. \A i \in 1..2 : i = 1 \/ i = 2
    OBVIOUS
  <1> QED BY <1>1, <1>2 DEF In

LEMMA InThree ==
    ASSUME NEW s, NEW x, NEW y, NEW z
    PROVE  In(s, <<x, y, z>>) <=> s \in {x, y, z}
  <1>1. Len(<<x, y, z>>) = 3
        /\ <<x, y, z>>[1] = x /\ <<x, y, z>>[2] = y /\ <<x, y, z>>[3] = z
    OBVIOUS
  <1>2. \A i \in 1..3 : i = 1 \/ i = 2 \/ i = 3
    OBVIOUS
  <1> QED BY <1>1, <1>2 DEF In

LEMMA InTail ==
    ASSUME NEW plan \in Seq(Steps), plan # <<>>, NEW s, In(s, Tail(plan))
    PROVE  In(s, plan)
  <1>1. PICK i \in 1..Len(Tail(plan)) : Tail(plan)[i] = s
    BY DEF In
  <1>2. Len(Tail(plan)) = Len(plan) - 1 /\ Len(plan) \in Nat
    OBVIOUS
  <1>3. i + 1 \in 1..Len(plan) /\ plan[i + 1] = s
    BY <1>1, <1>2
  <1> QED BY <1>3 DEF In

LEMMA InConcat ==
    ASSUME NEW p \in Seq(Steps), NEW q \in Seq(Steps), NEW s, In(s, p \o q)
    PROVE  In(s, p) \/ In(s, q)
  <1>1. PICK i \in 1..Len(p \o q) : (p \o q)[i] = s
    BY DEF In
  <1>2. Len(p \o q) = Len(p) + Len(q) /\ Len(p) \in Nat /\ Len(q) \in Nat
    OBVIOUS
  <1>3. CASE i <= Len(p)
    <2>1. i \in 1..Len(p) /\ (p \o q)[i] = p[i]
      BY <1>1, <1>2, <1>3
    <2> QED BY <1>1, <2>1 DEF In
  <1>4. CASE i > Len(p)
    <2>1. i - Len(p) \in 1..Len(q) /\ (p \o q)[i] = q[i - Len(p)]
      BY <1>1, <1>2, <1>4
    <2> QED BY <1>1, <2>1 DEF In
  <1> QED BY <1>2, <1>3, <1>4

LEMMA InHead ==
    ASSUME NEW plan \in Seq(Steps), plan # <<>>
    PROVE  In(Head(plan), plan)
  <1>1. 1 \in 1..Len(plan) /\ plan[1] = Head(plan)
    OBVIOUS
  <1> QED BY <1>1 DEF In

LEMMA Heads ==
    /\ Head(Cleaning) = "cleanup" /\ Head(Ending) = "finish" /\ Head(Answering) = "answer"
    /\ Head(<<"begin">>) = "begin" /\ Head(<<"attempt">>) = "attempt"
    /\ Head(<<"publish">>) = "publish"
  BY DEF Cleaning, Ending, Answering

LEMMA PlanTypes ==
    /\ Ending \in Seq(Steps) /\ Cleaning \in Seq(Steps) /\ Answering \in Seq(Steps)
    /\ <<>> \in Seq(Steps)
    /\ \A x \in Steps : <<x>> \in Seq(Steps)
    /\ \A x, y \in Steps : <<x, y>> \in Seq(Steps)
    /\ \A x, y, z \in Steps : <<x, y, z>> \in Seq(Steps)
  <1>1. "cleanup" \in Steps /\ "finish" \in Steps /\ "answer" \in Steps
        /\ "transition" \in Steps /\ "consume" \in Steps
    BY DEF Steps
  <1>2. \A x \in Steps : <<x>> \in Seq(Steps)
    OBVIOUS
  <1>3. \A x, y \in Steps : <<x, y>> \in Seq(Steps)
    OBVIOUS
  <1>4. \A x, y, z \in Steps : <<x, y, z>> \in Seq(Steps)
    OBVIOUS
  <1>5. Answering \in Seq(Steps)
    BY <1>1, <1>4 DEF Answering
  <1>6. Ending \in Seq(Steps)
    BY <1>1 DEF Ending
  <1>7. Cleaning \in Seq(Steps)
    BY <1>1 DEF Cleaning
  <1> QED BY <1>2, <1>3, <1>4, <1>5, <1>6, <1>7

LEMMA Tails ==
    /\ Tail(Cleaning) = Ending /\ Tail(Ending) = Answering
    /\ Tail(Answering) = <<"transition", "consume">>
    /\ Tail(<<"begin">>) = <<>> /\ Tail(<<"attempt">>) = <<>> /\ Tail(<<"publish">>) = <<>>
    /\ <<"cleanup">> \o Ending = Cleaning
    /\ Ending # <<>> /\ Answering # <<>> /\ Cleaning # <<>>
  <1>1. Tail(Cleaning) = Ending
    BY DEF Cleaning, Ending
  <1>2. Tail(Ending) = Answering
    BY DEF Ending, Answering
  <1>3. Tail(Answering) = <<"transition", "consume">>
    BY DEF Answering
  <1>4. Tail(<<"begin">>) = <<>> /\ Tail(<<"attempt">>) = <<>> /\ Tail(<<"publish">>) = <<>>
    OBVIOUS
  <1>5. <<"cleanup">> \o Ending = Cleaning
    <2> DEFINE p == <<"cleanup">>
               q == Ending
    <2>1. p \in Seq(Steps) /\ q \in Seq(Steps) /\ Cleaning \in Seq(Steps)
      <3>1. "cleanup" \in Steps
        BY DEF Steps
      <3> QED BY <3>1, PlanTypes
    <2>2. Len(p) = 1 /\ Len(q) = 4 /\ Len(Cleaning) = 5
      BY DEF Cleaning, Ending
    <2>3. p[1] = Cleaning[1] /\ q[1] = Cleaning[2] /\ q[2] = Cleaning[3]
          /\ q[3] = Cleaning[4] /\ q[4] = Cleaning[5]
      BY DEF Cleaning, Ending
    <2> HIDE DEF p, q
    <2>4. /\ p \o q \in Seq(Steps) /\ Len(p \o q) = 5
          /\ \A i \in 1..5 : (p \o q)[i] = IF i <= 1 THEN p[i] ELSE q[i - 1]
      <3>1. /\ p \o q \in Seq(Steps) /\ Len(p \o q) = Len(p) + Len(q)
            /\ \A i \in 1..(Len(p) + Len(q)) :
                  (p \o q)[i] = IF i <= Len(p) THEN p[i] ELSE q[i - Len(p)]
        BY <2>1, ConcatProperties
      <3> QED BY <2>2, <3>1
    <2>5. \A i \in 1..5 : (p \o q)[i] = Cleaning[i]
      <3> TAKE i \in 1..5
      <3>1. i = 1 \/ i = 2 \/ i = 3 \/ i = 4 \/ i = 5
        OBVIOUS
      <3> QED BY <2>3, <2>4, <3>1
    <2>6. p \o q = Cleaning
      BY <2>1, <2>2, <2>4, <2>5, SeqEqual
    <2> QED BY <2>6 DEF p, q
  <1>6. Ending # <<>> /\ Answering # <<>> /\ Cleaning # <<>>
    BY DEF Cleaning, Ending, Answering
  <1> QED BY <1>1, <1>2, <1>3, <1>4, <1>5, <1>6

LEMMA InEnding ==
    ASSUME NEW s
    PROVE  /\ In(s, Ending) => s \in {"finish", "answer", "transition", "consume"}
           /\ In(s, Cleaning) => s \in {"cleanup", "finish", "answer", "transition", "consume"}
           /\ In(s, Answering) => s \in {"answer", "transition", "consume"}
  <1>1. In(s, Answering) => s \in {"answer", "transition", "consume"}
    BY InThree DEF Answering
  <1>2. In(s, Ending) => s \in {"finish", "answer", "transition", "consume"}
    <2>1. Len(Ending) = 4 /\ Ending[1] = "finish" /\ Ending[2] = "answer"
          /\ Ending[3] = "transition" /\ Ending[4] = "consume"
      BY DEF Ending
    <2>2. \A i \in 1..4 : i = 1 \/ i = 2 \/ i = 3 \/ i = 4
      OBVIOUS
    <2> QED BY <2>1, <2>2 DEF In
  <1>3. In(s, Cleaning) => s \in {"cleanup", "finish", "answer", "transition", "consume"}
    <2>1. Len(Cleaning) = 5 /\ Cleaning[1] = "cleanup" /\ Cleaning[2] = "finish"
          /\ Cleaning[3] = "answer" /\ Cleaning[4] = "transition" /\ Cleaning[5] = "consume"
      BY DEF Cleaning
    <2>2. \A i \in 1..5 : i = 1 \/ i = 2 \/ i = 3 \/ i = 4 \/ i = 5
      OBVIOUS
    <2> QED BY <2>1, <2>2 DEF In
  <1> QED BY <1>1, <1>2, <1>3

LEMMA StepNames ==
    /\ {"ack", "hello", "report", "say", "mark", "transition", "begin", "attempt"} \subseteq Steps
    /\ {"publish", "cleanup", "finish", "answer", "consume", "dead"} \subseteq Steps
  BY DEF Steps

\* The plans a handler begins with.
LEMMA NewPlans ==
    /\ <<"ack", "report", "consume">> \in Seq(Steps) /\ <<"hello", "report">> \in Seq(Steps)
    /\ <<"say", "consume">> \in Seq(Steps) /\ <<"say", "mark", "consume">> \in Seq(Steps)
    /\ <<"begin">> \in Seq(Steps) /\ <<"attempt">> \in Seq(Steps)
    /\ <<"publish">> \in Seq(Steps) /\ <<"dead">> \in Seq(Steps)
    /\ <<"transition", "consume">> \in Seq(Steps)
    /\ <<"answer", "transition", "consume">> \in Seq(Steps)
    /\ <<"cleanup">> \o Ending \in Seq(Steps) /\ Ending \in Seq(Steps)
  <1>1. /\ <<"ack", "report", "consume">> \in Seq(Steps)
        /\ <<"say", "mark", "consume">> \in Seq(Steps)
        /\ <<"answer", "transition", "consume">> \in Seq(Steps)
    BY StepNames, PlanTypes
  <1>2. /\ <<"hello", "report">> \in Seq(Steps) /\ <<"say", "consume">> \in Seq(Steps)
        /\ <<"transition", "consume">> \in Seq(Steps)
    BY StepNames, PlanTypes
  <1>3. /\ <<"begin">> \in Seq(Steps) /\ <<"attempt">> \in Seq(Steps)
        /\ <<"publish">> \in Seq(Steps) /\ <<"dead">> \in Seq(Steps)
    BY StepNames, PlanTypes
  <1>4. <<"cleanup">> \o Ending \in Seq(Steps) /\ Ending \in Seq(Steps)
    BY Tails, PlanTypes
  <1> QED BY <1>1, <1>2, <1>3, <1>4

\* The plans of a replayed result and of a report.
LEMMA ReplayPlans ==
    ASSUME NEW move \in {<<>>, <<"transition">>}, NEW plan \in Seq(Steps)
    PROVE  /\ <<"say">> \o move \o <<"consume">> \in Seq(Steps)
           /\ \A s : In(s, <<"say">> \o move \o <<"consume">>) =>
                 s \in {"say", "consume"} \/ (s = "transition" /\ move # <<>>)
           /\ <<"say", "mark">> \o move \o plan \in Seq(Steps)
           /\ \A s : In(s, <<"say", "mark">> \o move \o plan) =>
                 s \in {"say", "mark"} \/ (s = "transition" /\ move # <<>>) \/ In(s, plan)
  <1>1. /\ <<"say">> \in Seq(Steps) /\ <<"say", "mark">> \in Seq(Steps)
        /\ <<"consume">> \in Seq(Steps)
        /\ <<"transition">> \in Seq(Steps) /\ <<>> \in Seq(Steps)
    BY StepNames, PlanTypes
  <1>2. move \in Seq(Steps)
    BY <1>1
  <1>3. <<"say">> \o move \in Seq(Steps) /\ <<"say", "mark">> \o move \in Seq(Steps)
    BY <1>1, <1>2, ConcatProperties
  <1>4. \A s : In(s, move) => s = "transition" /\ move # <<>>
    BY InEmpty, InOne
  <1>5. /\ <<"say">> \o move \o <<"consume">> \in Seq(Steps)
        /\ <<"say", "mark">> \o move \o plan \in Seq(Steps)
    BY <1>1, <1>3, ConcatProperties
  <1>6. ASSUME NEW s, In(s, <<"say">> \o move \o <<"consume">>)
        PROVE  s \in {"say", "consume"} \/ (s = "transition" /\ move # <<>>)
    <2>1. In(s, <<"say">> \o move) \/ In(s, <<"consume">>)
      BY <1>1, <1>3, <1>6, InConcat
    <2>2. In(s, <<"say">>) \/ In(s, move) \/ In(s, <<"consume">>)
      BY <1>1, <1>2, <2>1, InConcat
    <2> QED BY <1>4, <2>2, InOne
  <1>7. ASSUME NEW s, In(s, <<"say", "mark">> \o move \o plan)
        PROVE  s \in {"say", "mark"} \/ (s = "transition" /\ move # <<>>) \/ In(s, plan)
    <2>1. In(s, <<"say", "mark">> \o move) \/ In(s, plan)
      BY <1>1, <1>3, <1>7, InConcat
    <2>2. In(s, <<"say", "mark">>) \/ In(s, move) \/ In(s, plan)
      BY <1>1, <1>2, <2>1, InConcat
    <2> QED BY <1>4, <2>2, InTwo
  <1> QED BY <1>5, <1>6, <1>7
-----------------------------------------------------------------------------
(***************************************************************************)
(* Types                                                                   *)
(***************************************************************************)
LEMMA WorkTypes ==
    ASSUME work \in Works
    PROVE  /\ Idle \in Works
           /\ \A plan \in Seq(Steps) : Proceed(plan) \in Works
           /\ work.plan # <<>> => Rest \in Works
           /\ \A plan \in Seq(Steps), a \in Apps \cup {NoApp},
                 v \in Verdicts \cup {"none", "failed"} : Serve(plan, a, v) \in Works
  <1>1. Idle \in Works
    BY PlanTypes DEF Idle, Works, NoApp
  <1>2. \A plan \in Seq(Steps) : Proceed(plan) \in Works
    BY <1>1 DEF Proceed, Works
  <1>3. work.plan # <<>> => Rest \in Works
    <2>1. work.plan \in Seq(Steps)
      BY DEF Works
    <2>2. work.plan # <<>> => Tail(work.plan) \in Seq(Steps)
      BY <2>1
    <2> QED BY <1>2, <2>2 DEF Rest
  <1>4. \A plan \in Seq(Steps), a \in Apps \cup {NoApp},
           v \in Verdicts \cup {"none", "failed"} : Serve(plan, a, v) \in Works
    BY DEF Serve, Works
  <1> QED BY <1>1, <1>2, <1>3, <1>4

\* The head of a stream, and the stream without it.
LEMMA HeadTypes ==
    ASSUME TypesSound
    PROVE  /\ down # <<>> =>
                /\ Head(down) \in Commands /\ Tail(down) \in Seq(Commands)
                /\ Len(Tail(down)) <= MaxQueue
                /\ Head(down).kind = "offer" => Head(down).epoch \in Epochs
                /\ Head(down).kind = "apply" =>
                     Head(down).app \in Apps /\ Head(down).epoch \in Epochs
           /\ up # <<>> =>
                /\ Head(up) \in Frames /\ Tail(up) \in Seq(Frames) /\ Len(Tail(up)) <= MaxQueue
                /\ Head(up).kind = "hello" => Head(up).instance \in Instances
                /\ Head(up).kind = "result" => Head(up).app \in Apps /\ Head(up).verdict \in Final
                /\ Head(up).kind = "reconciled" =>
                     Head(up).app \in Apps /\ Head(up).verdict \in Verdicts
  <1>1. down \in Seq(Commands) /\ up \in Seq(Frames) /\ Len(down) <= MaxQueue
        /\ Len(up) <= MaxQueue /\ MaxQueue \in Nat
    BY ApplicationBounds DEF TypesSound, TypeOK
  <1>2. ASSUME down # <<>>
        PROVE  Head(down) \in Commands /\ Tail(down) \in Seq(Commands) /\ Len(Tail(down)) <= MaxQueue
    BY <1>1, <1>2
  <1>3. ASSUME up # <<>>
        PROVE  Head(up) \in Frames /\ Tail(up) \in Seq(Frames) /\ Len(Tail(up)) <= MaxQueue
    BY <1>1, <1>3
  <1>4. \A c \in Commands : /\ c.kind = "offer" => c.epoch \in Epochs
                            /\ c.kind = "apply" => c.app \in Apps /\ c.epoch \in Epochs
    BY DEF Commands
  <1>5. \A f \in Frames :
          /\ f.kind = "hello" => f.instance \in Instances
          /\ f.kind = "result" => f.app \in Apps /\ f.verdict \in Final
          /\ f.kind = "reconciled" => f.app \in Apps /\ f.verdict \in Verdicts
    BY DEF Frames
  <1> QED BY <1>2, <1>3, <1>4, <1>5

\* A stream that a frame is put on.
LEMMA SentTypes ==
    ASSUME NEW S, NEW s \in Seq(S), NEW x \in S, Len(s) < MaxQueue
    PROVE  Append(s, x) \in Seq(S) /\ Len(Append(s, x)) <= MaxQueue
  <1>1. Append(s, x) \in Seq(S) /\ Len(Append(s, x)) = Len(s) + 1 /\ Len(s) \in Nat
    OBVIOUS
  <1> QED BY <1>1, ApplicationBounds

\* What a verdict of the device may be.
LEMMA VerdictTypes ==
    ASSUME TypesSound, NEW a \in Apps
    PROVE  /\ Inspect(a) \in Verdicts /\ Observed(a) \in Verdicts
           /\ Observed(a) # "applied" => Observed(a) \in {"not_started", "outcome_unknown"}
  <1>1. Inspect(a) \in Verdicts
    BY DEF Inspect, Verdicts
  <1>2. Observed(a) \in Verdicts
    BY <1>1 DEF Observed, Verdicts
  <1> QED BY <1>1, <1>2 DEF Verdicts

LEMMA EntryTypes ==
    ASSUME NEW e \in Entries
    PROVE  /\ \A r \in Results : Finish(e, r) \in Entries
           /\ \A v \in {"not_started", "outcome_unknown"} : Note(e, v) \in Entries
           /\ Begin(e) \in Entries
           /\ \A m \in Epochs : [e EXCEPT !.reported = m] \in Entries
           /\ \A m \in Epochs : [NoEntry EXCEPT !.started = TRUE, !.original = m] \in Entries
  <1>1. 0 \in Epochs
    BY ApplicationBounds DEF Epochs
  <1> QED BY <1>1 DEF Finish, Note, Begin, NoEntry, Entries, Results

\* The parts of the type invariant.
ServerTypes ==
    /\ {lease, minted} \subseteq Epochs /\ prepared \in [epoch : Epochs, instance : Instances]
    /\ {occupied, halfway} \subseteq BOOLEAN /\ commands \in 0..MaxPublish
    /\ row \in [Apps -> Rows] /\ receipt \in [Apps -> Results]
    /\ candidate \in {"retained", "failed", "applied", "discarded"}
    /\ seen \subseteq Apps /\ known \in Instances
    /\ prepared # NoRequest => commands < MaxPublish

StreamTypes ==
    /\ down \in Seq(Commands) /\ up \in Seq(Frames)
    /\ Len(down) <= MaxQueue /\ Len(up) <= MaxQueue

DeviceTypes ==
    /\ mirror \in Epochs /\ instance \in Instances /\ journal \in [Apps -> Entries]
    /\ local \in {"retained", "failed", "applied"} /\ work \in Works

RepositoryTypes ==
    /\ branch \in [Apps -> Seq({"app", "user"})] /\ dirty \in BOOLEAN
    /\ worktree \subseteq Apps /\ published \subseteq Apps /\ touched \in 0..MaxUser

LEMMA TypesSplit ==
    TypesSound <=> ServerTypes /\ StreamTypes /\ DeviceTypes /\ RepositoryTypes
  <1>1. work \in Works =>
          /\ work.plan \in Seq(Steps) /\ work.app \in Apps \cup {NoApp}
          /\ work.verdict \in Verdicts \cup {"none", "failed"}
          /\ work.todo \subseteq Apps /\ work.due \subseteq Apps
    BY DEF Works
  <1> QED BY <1>1 DEF TypesSound, TypeOK, ServerTypes, StreamTypes, DeviceTypes, RepositoryTypes

LEMMA TypesJoin ==
    ASSUME ServerTypes', StreamTypes', DeviceTypes', RepositoryTypes'
    PROVE  TypesSound'
  <1>1. /\ work'.plan \in Seq(Steps) /\ work'.app \in Apps \cup {NoApp}
        /\ work'.verdict \in Verdicts \cup {"none", "failed"}
        /\ work'.todo \subseteq Apps /\ work'.due \subseteq Apps
    BY DEF DeviceTypes, Works
  <1> QED BY <1>1 DEF TypesSound, TypeOK, ServerTypes, StreamTypes, DeviceTypes, RepositoryTypes

LEMMA RequestTypes ==
    ASSUME TypesSound, Requests
    PROVE  TypesSound'
  <1> USE ApplicationBounds
  <1>1. ServerTypes /\ StreamTypes /\ DeviceTypes /\ RepositoryTypes
    BY TypesSplit
  <1>2. DeviceTypes' /\ RepositoryTypes'
    <2>1. UNCHANGED <<device, repository, published>>
      BY DEF Requests, Claim, Release, PrepareApply, Publish, Discard
    <2>2. touched' \in 0..MaxUser
      <3>1. touched' = touched \/ (touched' = touched + 1 /\ touched < MaxUser)
        BY DEF Requests, Claim, Release, PrepareApply, Publish, Discard
      <3> QED BY <1>1, <3>1 DEF RepositoryTypes
    <2> QED BY <1>1, <2>1, <2>2 DEF DeviceTypes, RepositoryTypes, device, repository
  <1>3. CASE Claim
    <2>1. minted + 1 \in Epochs
      BY <1>1, <1>3 DEF Claim, ServerTypes, Epochs
    <2>2. ServerTypes'
      BY <1>1, <1>3, <2>1 DEF Claim, ServerTypes
    <2>3. [kind |-> "offer", epoch |-> minted + 1] \in Commands
      BY <2>1 DEF Commands
    <2>4. StreamTypes'
      BY <1>1, <1>3, <2>3, SentTypes DEF Claim, StreamTypes
    <2> QED BY <1>2, <2>2, <2>4, TypesJoin
  <1>4. CASE Release
    <2>1. ServerTypes'
      <3>1. 0 \in Epochs
        BY DEF Epochs
      <3> QED BY <1>1, <1>4, <3>1 DEF Release, ServerTypes
    <2>2. StreamTypes'
      BY <1>1, <1>4 DEF Release, StreamTypes
    <2> QED BY <1>2, <2>1, <2>2, TypesJoin
  <1>5. CASE PrepareApply
    <2>1. ServerTypes'
      BY <1>1, <1>5 DEF PrepareApply, ServerTypes
    <2>2. StreamTypes'
      BY <1>1, <1>5 DEF PrepareApply, StreamTypes
    <2> QED BY <1>2, <2>1, <2>2, TypesJoin
  <1>6. ASSUME NEW a \in Apps, Publish(a)
        PROVE  TypesSound'
    <2>1. Granted(a) \in Rows
      <3>1. row[a] \in Rows /\ prepared.epoch \in Epochs /\ NoRow \in Rows
        BY <1>1 DEF ServerTypes, NoRow, Rows, Epochs, Results
      <3>2. [NoRow EXCEPT !.granted = TRUE, !.original = prepared.epoch] \in Rows
        BY <3>1 DEF NoRow, Rows, Epochs, Results
      <3>3. \A r \in Rows : [r EXCEPT !.outcome = "retry_authorized", !.retry = prepared.epoch]
                             \in Rows
        BY <3>1 DEF Rows
      <3> QED BY <3>1, <3>2, <3>3 DEF Granted
    <2>2. row' \in [Apps -> Rows]
      BY <1>1, <1>6, <2>1 DEF Publish, ServerTypes
    <2>3. NoRequest \in [epoch : Epochs, instance : Instances]
      BY DEF NoRequest, Epochs, Instances
    <2>4. commands + 1 \in 0..MaxPublish
      BY <1>1, <1>6 DEF Publish, ServerTypes
    <2>5. ServerTypes'
      BY <1>1, <1>6, <2>2, <2>3, <2>4 DEF Publish, ServerTypes
    <2>6. prepared.epoch \in Epochs /\ prepared.instance \in Instances
      BY <1>1 DEF ServerTypes
    <2>7. \A e, b \in BOOLEAN : [kind |-> "apply", app |-> a, epoch |-> prepared.epoch,
                                 instance |-> prepared.instance, exact |-> e, retry |-> b]
                                \in Commands
      BY <2>6 DEF Commands
    <2>8. StreamTypes'
      BY <1>1, <1>6, <2>7, SentTypes DEF Publish, StreamTypes
    <2> QED BY <1>2, <2>5, <2>8, TypesJoin
  <1>7. CASE Discard
    <2>1. ServerTypes'
      BY <1>1, <1>7 DEF Discard, ServerTypes
    <2>2. StreamTypes'
      BY <1>1, <1>7 DEF Discard, StreamTypes
    <2> QED BY <1>2, <2>1, <2>2, TypesJoin
  <1> QED BY <1>3, <1>4, <1>5, <1>6, <1>7 DEF Requests

LEMMA UserTypes ==
    ASSUME TypesSound, User
    PROVE  TypesSound'
  <1> USE ApplicationBounds
  <1>1. ServerTypes /\ StreamTypes /\ DeviceTypes /\ RepositoryTypes
    BY TypesSplit
  <1>2. ServerTypes' /\ StreamTypes' /\ DeviceTypes'
    <2>1. UNCHANGED <<server, down, up, device>>
      BY DEF User, CommitToBranch, RewindBranch, EditWorkingTree
    <2>2. ServerTypes'
      BY <1>1, <2>1 DEF ServerTypes, server
    <2> QED BY <1>1, <2>1, <2>2 DEF StreamTypes, DeviceTypes, device
  <1>3. ASSUME NEW a \in Apps, CommitToBranch(a) \/ RewindBranch(a)
        PROVE  RepositoryTypes'
    <2>1. branch[a] \in Seq({"app", "user"})
      BY <1>1 DEF RepositoryTypes
    <2>2. Append(branch[a], "user") \in Seq({"app", "user"}) /\ <<>> \in Seq({"app", "user"})
      BY <2>1
    <2>3. branch' \in [Apps -> Seq({"app", "user"})]
      BY <1>1, <1>3, <2>2 DEF RepositoryTypes, CommitToBranch, RewindBranch
    <2> QED BY <1>1, <1>3, <2>3 DEF RepositoryTypes, CommitToBranch, RewindBranch
  <1>4. CASE EditWorkingTree
    <2>1. RepositoryTypes'
      BY <1>1, <1>4 DEF RepositoryTypes, EditWorkingTree
    <2> QED BY <1>2, <2>1, TypesJoin
  <1> QED BY <1>2, <1>3, <1>4, TypesJoin DEF User

LEMMA ExchangeTypes ==
    ASSUME TypesSound, HalfwaySound, Exchange
    PROVE  TypesSound'
  <1> USE ApplicationBounds
  <1>1. ServerTypes /\ StreamTypes /\ DeviceTypes /\ RepositoryTypes
    BY TypesSplit
  <1>2. UNCHANGED <<down, device, repository, published, touched>>
    BY DEF Exchange, TakeHello, TakeAck, RecordReceipt, SettleRow, ServerFails, NoteOutcome,
           PassOver
  <1>3. DeviceTypes' /\ RepositoryTypes'
    BY <1>1, <1>2 DEF DeviceTypes, RepositoryTypes, device, repository
  <1>4. StreamTypes'
    <2>1. up' = up \/ (up # <<>> /\ up' = Tail(up))
      BY DEF Exchange, TakeHello, TakeAck, RecordReceipt, SettleRow, ServerFails, NoteOutcome,
             PassOver, Incoming, HalfwaySound
    <2> QED BY <1>1, <1>2, <2>1, HeadTypes DEF StreamTypes
  <1>5. SUFFICES ServerTypes'
    BY <1>3, <1>4, TypesJoin
  <1>6. \A f \in Apps, v \in Final \cup Verdicts :
          /\ [row EXCEPT ![f].outcome = v] \in [Apps -> Rows]
          /\ v \in Final => [row EXCEPT ![f].result = v, ![f].outcome = v] \in [Apps -> Rows]
    <2>1. row \in [Apps -> Rows]
      BY <1>1 DEF ServerTypes
    <2>2. \A r \in Rows, v \in Final \cup Verdicts :
            /\ [r EXCEPT !.outcome = v] \in Rows
            /\ v \in Final => [r EXCEPT !.result = v] \in Rows
      BY DEF Rows, Final, Verdicts, Results
    <2> QED BY <2>1, <2>2
  <1>7. CASE TakeHello
    BY <1>1, <1>7, HeadTypes DEF TakeHello, Incoming, Frame, ServerTypes
  <1>8. CASE TakeAck
    <2>1. occupied' \in BOOLEAN
      BY <1>1, <1>8 DEF TakeAck, ServerTypes
    <2> QED BY <1>1, <1>8, <2>1 DEF TakeAck, ServerTypes
  <1>9. CASE RecordReceipt
    <2>1. Frame.app \in Apps /\ Frame.verdict \in Final
      BY <1>9, HeadTypes DEF RecordReceipt, Settles, Frame, Incoming, Final
    <2> QED BY <1>1, <1>9, <2>1 DEF RecordReceipt, ServerTypes, Final, Results
  <1>10. CASE SettleRow
    <2>1. up # <<>> /\ Frame.app \in Apps /\ Frame.verdict \in Final
      BY <1>10, HeadTypes DEF SettleRow, HalfwaySound, Frame
    <2>2. row' \in [Apps -> Rows]
      BY <1>1, <1>6, <1>10, <2>1 DEF SettleRow, ServerTypes
    <2> QED BY <1>1, <1>10, <2>1, <2>2 DEF SettleRow, ServerTypes, Answered
  <1>11. CASE ServerFails
    BY <1>1, <1>11 DEF ServerFails, ServerTypes
  <1>12. CASE NoteOutcome
    <2>1. Frame.app \in Apps /\ Frame.verdict \in Verdicts
      BY <1>12, HeadTypes DEF NoteOutcome, Frame, Incoming
    <2>2. row' \in [Apps -> Rows]
      BY <1>1, <1>6, <1>12, <2>1 DEF NoteOutcome, ServerTypes
    <2> QED BY <1>1, <1>12, <2>2 DEF NoteOutcome, ServerTypes
  <1>13. CASE PassOver
    <2>1. Frame.app \in Apps
      BY <1>13, HeadTypes DEF PassOver, Frame, Incoming
    <2> QED BY <1>1, <1>13, <2>1 DEF PassOver, ServerTypes, Answered
  <1> QED BY <1>7, <1>8, <1>9, <1>10, <1>11, <1>12, <1>13 DEF Exchange

LEMMA RelaunchTypes ==
    ASSUME TypesSound, Relaunch
    PROVE  TypesSound'
  <1> USE ApplicationBounds
  <1>1. ServerTypes /\ StreamTypes /\ DeviceTypes /\ RepositoryTypes
    BY TypesSplit
  <1>2. UNCHANGED <<server, down, up, mirror, journal, local, repository, published, touched>>
    BY DEF Relaunch
  <1>3. ServerTypes'
    BY <1>1, <1>2 DEF ServerTypes, server
  <1>4. StreamTypes' /\ RepositoryTypes'
    BY <1>1, <1>2 DEF StreamTypes, RepositoryTypes, repository
  <1>5. instance' \in Instances
    BY <1>1 DEF Relaunch, DeviceTypes, Instances
  <1>6. work' \in Works
    BY NewPlans DEF Relaunch, Idle, Works, Unfinished, Verdicts
  <1>7. DeviceTypes'
    BY <1>1, <1>2, <1>5, <1>6 DEF DeviceTypes
  <1> QED BY <1>3, <1>4, <1>7, TypesJoin

\* A step of the device that leaves the repository as it is.
LEMMA DeviceStepTypes ==
    ASSUME TypesSound, UNCHANGED <<server, instance, repository, published, touched>>,
           mirror' \in Epochs, journal' \in [Apps -> Entries],
           local' \in {"retained", "failed", "applied"}, work' \in Works,
           down' \in Seq(Commands), Len(down') <= MaxQueue,
           up' \in Seq(Frames), Len(up') <= MaxQueue
    PROVE  TypesSound'
  <1>1. ServerTypes /\ StreamTypes /\ DeviceTypes /\ RepositoryTypes
    BY TypesSplit
  <1>2. ServerTypes'
    BY <1>1 DEF ServerTypes, server
  <1>3. StreamTypes' /\ RepositoryTypes'
    BY <1>1 DEF StreamTypes, RepositoryTypes, repository
  <1>4. DeviceTypes'
    BY <1>1 DEF DeviceTypes
  <1> QED BY <1>2, <1>3, <1>4, TypesJoin

LEMMA ReplayTypes ==
    ASSUME TypesSound, NEW a \in Apps, NEW result \in Final
    PROVE  Replay(a, result) \in Works
  <1>1. work \in Works
    BY DEF TypesSound
  <1>2. Inspect(a) \in Verdicts
    BY VerdictTypes
  <1>3. \A move \in {<<>>, <<"transition">>} : <<"say">> \o move \o <<"consume">> \in Seq(Steps)
    BY PlanTypes, ReplayPlans
  <1> QED BY <1>1, <1>2, <1>3, WorkTypes, NewPlans DEF Replay, Final, Verdicts

LEMMA ReportTypes ==
    ASSUME TypesSound, NEW a \in Apps, Report(a)
    PROVE  work' \in Works
  <1> DEFINE e == journal[a]
             verdict == IF e.finished = "applied" THEN "applied"
                        ELSE IF e.recovery # "none" THEN e.recovery ELSE Inspect(a)
             move == IF verdict = "applied" THEN <<"transition">> ELSE <<>>
             plan == <<"say", "mark">> \o move \o work.plan
  <1>1. work \in Works /\ e \in Entries
    BY TypesSplit DEF DeviceTypes
  <1>2. verdict \in Verdicts
    BY <1>1, VerdictTypes DEF Entries, Verdicts
  <1>3. work.plan \in Seq(Steps)
    BY <1>1 DEF Works
  <1>4. work' = [Serve(plan, a, verdict) EXCEPT !.due = @ \ {a}]
    BY DEF Report
  <1>5. move \in {<<>>, <<"transition">>}
    OBVIOUS
  <1> HIDE DEF verdict, move
  <1>6. plan \in Seq(Steps)
    BY <1>3, <1>5, ReplayPlans
  <1> HIDE DEF plan
  <1>7. Serve(plan, a, verdict) \in Works
    BY <1>1, <1>2, <1>6, WorkTypes
  <1>8. \A w \in Works : [w EXCEPT !.due = @ \ {a}] \in Works
    BY DEF Works
  <1> QED BY <1>4, <1>7, <1>8

LEMMA HandlingTypes ==
    ASSUME TypesSound, WorkSound, Handling
    PROVE  TypesSound'
  <1> USE ApplicationBounds
  <1>1. ServerTypes /\ StreamTypes /\ DeviceTypes /\ RepositoryTypes
    BY TypesSplit
  <1>2. /\ work \in Works /\ mirror \in Epochs /\ instance \in Instances
        /\ journal \in [Apps -> Entries] /\ local \in {"retained", "failed", "applied"}
        /\ down \in Seq(Commands) /\ Len(down) <= MaxQueue
        /\ up \in Seq(Frames) /\ Len(up) <= MaxQueue
    BY <1>1 DEF StreamTypes, DeviceTypes
  <1>3. /\ work.plan \in Seq(Steps) /\ work.app \in Apps \cup {NoApp}
        /\ work.verdict \in Verdicts \cup {"none", "failed"}
        /\ work.todo \subseteq Apps /\ work.due \subseteq Apps
    BY <1>2 DEF Works
  <1>4. \A w \in Works, s \in SUBSET Apps, d \in SUBSET Apps :
          [w EXCEPT !.todo = s, !.due = d] \in Works /\ [w EXCEPT !.todo = s] \in Works
    BY DEF Works
  <1>5. \A x : At(x) => work.plan # <<>> /\ Within(x)
    BY <1>3, InHead DEF At, Within
  <1>6. \A x : At(x) => Rest \in Works
    BY <1>2, <1>5, WorkTypes
  <1>7. \A a \in Apps, e \in Entries : [journal EXCEPT ![a] = e] \in [Apps -> Entries]
    BY <1>2
  <1>8. \A a \in Apps : journal[a] \in Entries
    BY <1>2
  <1>9. CASE TakeOffer
    <2>1. mirror' \in Epochs
      BY <1>9, HeadTypes DEF TakeOffer
    <2>2. work' \in Works
      BY <1>9, NewPlans DEF TakeOffer, Idle, Works, Verdicts
    <2> QED BY <1>2, <1>9, <2>1, <2>2, DeviceStepTypes DEF TakeOffer
  <1>10. CASE SendAck
    <2>1. work' \in Works
      <3>1. Unfinished \in SUBSET Apps /\ {a \in Apps : journal[a].started} \in SUBSET Apps
        BY DEF Unfinished
      <3> QED BY <1>4, <1>6, <1>10, <3>1 DEF SendAck
    <2>2. [kind |-> "ack", epoch |-> mirror] \in Frames
      BY <1>2 DEF Frames
    <2>3. up' \in Seq(Frames) /\ Len(up') <= MaxQueue
      BY <1>2, <1>10, <2>2, SentTypes DEF SendAck
    <2> QED BY <1>2, <1>10, <2>1, <2>3, DeviceStepTypes DEF SendAck
  <1>11. CASE SendHello
    <2>1. work' \in Works
      BY <1>6, <1>11 DEF SendHello
    <2>2. [kind |-> "hello", instance |-> instance] \in Frames
      BY <1>2 DEF Frames
    <2>3. up' \in Seq(Frames) /\ Len(up') <= MaxQueue
      BY <1>2, <1>11, <2>2, SentTypes DEF SendHello
    <2> QED BY <1>2, <1>11, <2>1, <2>3, DeviceStepTypes DEF SendHello
  <1>12. ASSUME NEW a \in Apps, Recover(a)
         PROVE  TypesSound'
    <2>1. journal' \in [Apps -> Entries]
      BY <1>7, <1>8, <1>12, VerdictTypes, EntryTypes DEF Recover, Results
    <2>2. work' \in Works
      BY <1>2, <1>3, <1>4, <1>12 DEF Recover
    <2> QED BY <1>2, <1>12, <2>1, <2>2, DeviceStepTypes DEF Recover
  <1>13. ASSUME NEW a \in Apps, Defer(a)
         PROVE  TypesSound'
    <2>1. work' \in Works
      BY <1>2, <1>3, <1>4, <1>13 DEF Defer
    <2> QED BY <1>2, <1>13, <2>1, DeviceStepTypes DEF Defer
  <1>14. ASSUME NEW a \in Apps, Report(a)
         PROVE  TypesSound'
    <2>1. work' \in Works
      BY <1>14, ReportTypes
    <2> QED BY <1>2, <1>14, <2>1, DeviceStepTypes DEF Report
  <1>15. CASE EndReport
    BY <1>2, <1>6, <1>15, DeviceStepTypes DEF EndReport
  <1>16. CASE Say
    <2>1. work.app \in Apps /\ work.verdict \in Verdicts
      BY <1>5, <1>16 DEF Say, WorkSound, SaySound
    <2>2. journal[work.app].original \in Epochs
      BY <1>8, <2>1 DEF Entries
    <2>3. [kind |-> "reconciled", app |-> work.app, epoch |-> mirror,
           original |-> journal[work.app].original, verdict |-> work.verdict] \in Frames
      BY <1>2, <2>1, <2>2 DEF Frames
    <2>4. up' \in Seq(Frames) /\ Len(up') <= MaxQueue
      BY <1>2, <1>16, <2>3, SentTypes DEF Say
    <2> QED BY <1>2, <1>6, <1>16, <2>4, DeviceStepTypes DEF Say
  <1>17. CASE Mark
    <2>1. work.app \in Apps
      BY <1>5, <1>17 DEF Mark, WorkSound, MarkSound
    <2>2. journal' = [journal EXCEPT ![work.app] = [journal[work.app] EXCEPT !.reported = mirror]]
      BY <1>17 DEF Mark
    <2>3. journal' \in [Apps -> Entries]
      BY <1>2, <1>7, <1>8, <2>1, <2>2, EntryTypes
    <2> QED BY <1>2, <1>6, <1>17, <2>3, DeviceStepTypes DEF Mark
  <1>18. CASE Transition
    <2>1. work.verdict \in Final
      BY <1>5, <1>18 DEF Transition, WorkSound, TransitionSound
    <2> QED BY <1>2, <1>6, <1>18, <2>1, DeviceStepTypes DEF Transition, Final
  <1>19. CASE Consume
    <2>1. down' \in Seq(Commands) /\ Len(down') <= MaxQueue
      BY <1>5, <1>19, HeadTypes DEF Consume, WorkSound, ConsumeSound
    <2> QED BY <1>2, <1>6, <1>19, <2>1, DeviceStepTypes DEF Consume
  <1>20. CASE RefuseOffer \/ RefuseCommand
    <2>1. down' \in Seq(Commands) /\ Len(down') <= MaxQueue
      BY <1>20, HeadTypes DEF RefuseOffer, RefuseCommand, Commanded
    <2> QED BY <1>2, <1>20, <2>1, DeviceStepTypes DEF RefuseOffer, RefuseCommand, device
  <1>21. CASE ReplayFinished
    <2>1. Head(down).app \in Apps
      BY <1>21, HeadTypes DEF ReplayFinished, Commanded
    <2>2. journal[Head(down).app].finished \in Final
      BY <1>8, <1>21, <2>1 DEF ReplayFinished, Entries, Results, Final
    <2>3. work' \in Works
      BY <1>21, <2>1, <2>2, ReplayTypes DEF ReplayFinished
    <2> QED BY <1>2, <1>21, <2>3, DeviceStepTypes DEF ReplayFinished
  <1>22. CASE FinishFound
    <2>1. Head(down).app \in Apps
      BY <1>22, HeadTypes DEF FinishFound, Commanded
    <2>2. work' \in Works
      BY <1>22, <2>1, ReplayTypes DEF FinishFound, Final
    <2>3. journal' \in [Apps -> Entries]
      BY <1>7, <1>8, <1>22, <2>1, EntryTypes DEF FinishFound, Results
    <2> QED BY <1>2, <1>22, <2>2, <2>3, DeviceStepTypes DEF FinishFound
  <1>23. CASE AskForDecision
    <2>1. Head(down).app \in Apps
      BY <1>23, HeadTypes DEF AskForDecision, Commanded
    <2>2. work' \in Works
      BY <1>2, <1>23, <2>1, VerdictTypes, WorkTypes, NewPlans DEF AskForDecision
    <2>3. journal' \in [Apps -> Entries]
      BY <1>7, <1>8, <1>23, <2>1, VerdictTypes, EntryTypes DEF AskForDecision
    <2> QED BY <1>2, <1>23, <2>2, <2>3, DeviceStepTypes DEF AskForDecision
  <1>24. CASE Start
    <2>1. Head(down).app \in Apps /\ Head(down).epoch \in Epochs
      BY <1>24, HeadTypes DEF Start, Commanded
    <2>2. work' \in Works
      BY <1>2, <1>24, <2>1, WorkTypes, NewPlans DEF Start
    <2>3. journal' \in [Apps -> Entries]
      BY <1>2, <1>7, <1>8, <1>24, <2>1, EntryTypes DEF Start
    <2> QED BY <1>2, <1>24, <2>2, <2>3, DeviceStepTypes DEF Start
  <1>25. CASE StartTerminal
    <2>1. work' \in Works
      BY <1>25, NewPlans DEF StartTerminal, Idle, Works, Verdicts
    <2> QED BY <1>2, <1>25, <2>1, DeviceStepTypes DEF StartTerminal
  <1>26. CASE BeginAttempt
    <2>1. work.app \in Apps
      BY <1>5, <1>26 DEF BeginAttempt, WorkSound, BeginSound, Unfinished
    <2>2. journal' \in [Apps -> Entries]
      BY <1>7, <1>8, <1>26, <2>1, EntryTypes DEF BeginAttempt
    <2>3. work' \in Works
      BY <1>2, <1>26, WorkTypes, NewPlans DEF BeginAttempt
    <2> QED BY <1>2, <1>26, <2>2, <2>3, DeviceStepTypes DEF BeginAttempt
  <1>27. CASE NotStarted
    <2>1. work.app \in Apps
      BY <1>5, <1>27 DEF NotStarted, WorkSound, AttemptSound, Open, Unfinished
    <2>2. journal' \in [Apps -> Entries]
      BY <1>7, <1>8, <1>27, <2>1, EntryTypes DEF NotStarted
    <2>3. work' \in Works
      BY <1>2, <1>27, <2>1, WorkTypes, NewPlans DEF NotStarted, Verdicts
    <2> QED BY <1>2, <1>27, <2>2, <2>3, DeviceStepTypes DEF NotStarted
  <1>28. CASE BaseStale
    <2>1. work' \in Works
      BY <1>2, <1>3, <1>28, WorkTypes, NewPlans DEF BaseStale
    <2> QED BY <1>2, <1>28, <2>1, DeviceStepTypes DEF BaseStale
  <1>29. CASE Integrate
    <2>1. work.app \in Apps
      BY <1>5, <1>29 DEF Integrate, WorkSound, AttemptSound, Open, Unfinished
    <2>2. work' \in Works
      <3>1. /\ Proceed(<<"publish">>) \in Works /\ Serve(Ending, work.app, "failed") \in Works
            /\ Serve(<<"cleanup">> \o Ending, work.app, "failed") \in Works
        BY <1>2, <1>3, WorkTypes, NewPlans
      <3> QED BY <1>29, <3>1 DEF Integrate
    <2>3. ServerTypes'
      BY <1>1, <1>29 DEF Integrate, ServerTypes, server
    <2>4. StreamTypes' /\ DeviceTypes'
      BY <1>1, <1>29, <2>2 DEF Integrate, StreamTypes, DeviceTypes
    <2>5. RepositoryTypes'
      BY <1>1, <1>29, <2>1 DEF Integrate, RepositoryTypes
    <2> QED BY <2>3, <2>4, <2>5, TypesJoin
  <1>30. CASE MoveBranch
    <2>1. work.app \in Apps
      BY <1>5, <1>30 DEF MoveBranch, WorkSound, PublishSound, Open, Unfinished
    <2>2. work' \in Works
      BY <1>2, <2>1, <1>30, WorkTypes, NewPlans DEF MoveBranch, Verdicts
    <2>3. ServerTypes'
      BY <1>1, <1>30 DEF MoveBranch, ServerTypes, server
    <2>4. StreamTypes' /\ DeviceTypes'
      BY <1>1, <1>30, <2>2 DEF MoveBranch, StreamTypes, DeviceTypes
    <2>5. <<"app">> \in Seq({"app", "user"})
      OBVIOUS
    <2>6. RepositoryTypes'
      BY <1>1, <1>30, <2>1, <2>5 DEF MoveBranch, RepositoryTypes
    <2> QED BY <2>3, <2>4, <2>6, TypesJoin
  <1>31. CASE RefuseMove
    <2>1. work' \in Works
      BY <1>2, <1>3, <1>31, WorkTypes, NewPlans DEF RefuseMove
    <2> QED BY <1>2, <1>31, <2>1, DeviceStepTypes DEF RefuseMove
  <1>32. CASE Cleanup
    <2>1. work' \in Works
      BY <1>6, <1>32 DEF Cleanup
    <2>2. ServerTypes'
      BY <1>1, <1>32 DEF Cleanup, ServerTypes, server
    <2>3. StreamTypes' /\ DeviceTypes' /\ RepositoryTypes'
      BY <1>1, <1>32, <2>1 DEF Cleanup, StreamTypes, DeviceTypes, RepositoryTypes
    <2> QED BY <2>2, <2>3, TypesJoin
  <1>33. CASE FinishAttempt
    <2>1. work.app \in Apps /\ work.verdict \in Final
      BY <1>5, <1>33 DEF FinishAttempt, WorkSound, FinishSound, Open, Unfinished
    <2>2. journal' \in [Apps -> Entries]
      BY <1>7, <1>8, <1>33, <2>1, EntryTypes DEF FinishAttempt, Results, Final
    <2> QED BY <1>2, <1>6, <1>33, <2>2, DeviceStepTypes DEF FinishAttempt
  <1>34. CASE Answer
    <2>1. work.app \in Apps /\ work.verdict \in Final
      <3>1. Within("answer") /\ Head(work.plan) = "answer"
        BY <1>5, <1>34 DEF Answer, At
      <3>2. work.plan # Cleaning /\ work.plan # Ending
        BY <3>1, Heads
      <3> QED BY <3>1, <3>2 DEF WorkSound, AnswerSound
    <2>2. [kind |-> "result", app |-> work.app, epoch |-> mirror, verdict |-> work.verdict]
            \in Frames
      BY <1>2, <2>1 DEF Frames
    <2>3. up' \in Seq(Frames) /\ Len(up') <= MaxQueue
      BY <1>2, <1>34, <2>2, SentTypes DEF Answer
    <2> QED BY <1>2, <1>6, <1>34, <2>3, DeviceStepTypes DEF Answer
  <1> QED BY <1>9, <1>10, <1>11, <1>12, <1>13, <1>14, <1>15, <1>16, <1>17, <1>18, <1>19, <1>20,
             <1>21, <1>22, <1>23, <1>24, <1>25, <1>26, <1>27, <1>28, <1>29, <1>30, <1>31, <1>32,
             <1>33, <1>34 DEF Handling
-----------------------------------------------------------------------------
(***************************************************************************)
(* The order of the steps in a plan                                        *)
(***************************************************************************)
LEMMA OrderedTail ==
    ASSUME NEW plan \in Seq(Steps), plan # <<>>, Ordered(plan)
    PROVE  Ordered(Tail(plan))
  <1> SUFFICES ASSUME NEW i \in 1..Len(Tail(plan)), NEW j \in 1..Len(Tail(plan)), i < j
               PROVE  /\ Tail(plan)[i] # "consume"
                      /\ Tail(plan)[i] = "report" => Tail(plan)[j] = "consume"
    BY DEF Ordered
  <1>1. Len(Tail(plan)) = Len(plan) - 1 /\ Len(plan) \in Nat
    OBVIOUS
  <1>2. /\ i + 1 \in 1..Len(plan) /\ j + 1 \in 1..Len(plan) /\ i + 1 < j + 1
        /\ Tail(plan)[i] = plan[i + 1] /\ Tail(plan)[j] = plan[j + 1]
    BY <1>1
  <1> QED BY <1>2 DEF Ordered

LEMMA OrderedConcat ==
    ASSUME NEW p \in Seq(Steps), NEW q \in Seq(Steps), Ordered(q),
           \A s : In(s, p) => s \notin {"report", "consume"}
    PROVE  Ordered(p \o q)
  <1> SUFFICES ASSUME NEW i \in 1..Len(p \o q), NEW j \in 1..Len(p \o q), i < j
               PROVE  /\ (p \o q)[i] # "consume"
                      /\ (p \o q)[i] = "report" => (p \o q)[j] = "consume"
    BY DEF Ordered
  <1>1. /\ Len(p \o q) = Len(p) + Len(q) /\ Len(p) \in Nat /\ Len(q) \in Nat
        /\ \A k \in 1..(Len(p) + Len(q)) :
              (p \o q)[k] = IF k <= Len(p) THEN p[k] ELSE q[k - Len(p)]
    BY ConcatProperties
  <1>2. CASE i <= Len(p)
    <2>1. i \in 1..Len(p) /\ (p \o q)[i] = p[i]
      BY <1>1, <1>2
    <2>2. In(p[i], p)
      BY <2>1 DEF In
    <2> QED BY <2>1, <2>2
  <1>3. CASE i > Len(p)
    <2>1. /\ i - Len(p) \in 1..Len(q) /\ j - Len(p) \in 1..Len(q) /\ i - Len(p) < j - Len(p)
          /\ (p \o q)[i] = q[i - Len(p)] /\ (p \o q)[j] = q[j - Len(p)]
      BY <1>1, <1>3
    <2> QED BY <2>1 DEF Ordered
  <1> QED BY <1>1, <1>2, <1>3

LEMMA OrderedShort ==
    /\ Ordered(<<>>)
    /\ \A x : Ordered(<<x>>)
    /\ \A x, y : x # "consume" /\ (x = "report" => y = "consume") => Ordered(<<x, y>>)
    /\ \A x, y, z : /\ x \notin {"consume", "report"} /\ y # "consume"
                    /\ y = "report" => z = "consume"
                    => Ordered(<<x, y, z>>)
  <1>1. Ordered(<<>>)
    BY DEF Ordered
  <1>2. ASSUME NEW x PROVE Ordered(<<x>>)
    <2>1. Len(<<x>>) = 1
      OBVIOUS
    <2> QED BY <2>1 DEF Ordered
  <1>3. ASSUME NEW x, NEW y, x # "consume", x = "report" => y = "consume"
        PROVE  Ordered(<<x, y>>)
    <2>1. Len(<<x, y>>) = 2 /\ <<x, y>>[1] = x /\ <<x, y>>[2] = y
      OBVIOUS
    <2>2. \A i, j \in 1..2 : i < j => i = 1 /\ j = 2
      OBVIOUS
    <2> QED BY <1>3, <2>1, <2>2 DEF Ordered
  <1>4. ASSUME NEW x, NEW y, NEW z, x \notin {"consume", "report"}, y # "consume",
               y = "report" => z = "consume"
        PROVE  Ordered(<<x, y, z>>)
    <2>1. Len(<<x, y, z>>) = 3
          /\ <<x, y, z>>[1] = x /\ <<x, y, z>>[2] = y /\ <<x, y, z>>[3] = z
      OBVIOUS
    <2>2. \A i, j \in 1..3 : i < j => i = 1 \/ (i = 2 /\ j = 3)
      OBVIOUS
    <2> QED BY <1>4, <2>1, <2>2 DEF Ordered
  <1> QED BY <1>1, <1>2, <1>3, <1>4

LEMMA OrderedEnding == Ordered(Ending) /\ Ordered(Cleaning) /\ Ordered(Answering)
  <1>1. Ordered(Cleaning)
    <2>1. Len(Cleaning) = 5 /\ Cleaning[1] = "cleanup" /\ Cleaning[2] = "finish"
          /\ Cleaning[3] = "answer" /\ Cleaning[4] = "transition" /\ Cleaning[5] = "consume"
      BY DEF Cleaning
    <2>2. \A i, j \in 1..5 : i < j => i = 1 \/ i = 2 \/ i = 3 \/ i = 4
      OBVIOUS
    <2> QED BY <2>1, <2>2 DEF Ordered
  <1>2. Ordered(Ending)
    BY <1>1, Tails, PlanTypes, OrderedTail
  <1>3. Ordered(Answering)
    BY <1>2, Tails, PlanTypes, OrderedTail
  <1> QED BY <1>1, <1>2, <1>3

\* What is left to do when the reports begin.
LEMMA AtReport ==
    ASSUME NEW plan \in Seq(Steps), plan # <<>>, Ordered(plan), Head(plan) = "report",
           NEW s, In(s, plan)
    PROVE  s \in {"report", "consume"}
  <1>1. PICK j \in 1..Len(plan) : plan[j] = s
    BY DEF In
  <1>2. Len(plan) \in Nat /\ 1 \in 1..Len(plan) /\ plan[1] = "report"
    OBVIOUS
  <1>3. CASE j = 1
    BY <1>1, <1>2, <1>3
  <1>4. CASE j > 1
    BY <1>1, <1>2, <1>4 DEF Ordered
  <1> QED BY <1>3, <1>4

LEMMA OrderedReplay ==
    ASSUME NEW move \in {<<>>, <<"transition">>}, NEW plan \in Seq(Steps), Ordered(plan)
    PROVE  /\ Ordered(<<"say">> \o move \o <<"consume">>)
           /\ Ordered(<<"say", "mark">> \o move \o plan)
  <1>1. /\ <<"say">> \in Seq(Steps) /\ <<"say", "mark">> \in Seq(Steps)
        /\ <<"consume">> \in Seq(Steps)
        /\ <<"transition">> \in Seq(Steps) /\ <<>> \in Seq(Steps)
    BY StepNames, PlanTypes
  <1>2. move \in Seq(Steps)
    BY <1>1
  <1>3. <<"say">> \o move \in Seq(Steps) /\ <<"say", "mark">> \o move \in Seq(Steps)
    BY <1>1, <1>2, ConcatProperties
  <1>4. \A s : In(s, move) => s = "transition"
    BY InEmpty, InOne
  <1>5. \A s : In(s, <<"say">> \o move) => s \in {"say", "transition"}
    <2> SUFFICES ASSUME NEW s, In(s, <<"say">> \o move) PROVE s \in {"say", "transition"}
      OBVIOUS
    <2>1. In(s, <<"say">>) \/ In(s, move)
      BY <1>1, <1>2, InConcat
    <2> QED BY <1>4, <2>1, InOne
  <1>6. \A s : In(s, <<"say", "mark">> \o move) => s \in {"say", "mark", "transition"}
    <2> SUFFICES ASSUME NEW s, In(s, <<"say", "mark">> \o move)
                 PROVE  s \in {"say", "mark", "transition"}
      OBVIOUS
    <2>1. In(s, <<"say", "mark">>) \/ In(s, move)
      BY <1>1, <1>2, InConcat
    <2> QED BY <1>4, <2>1, InTwo
  <1>7. Ordered(<<"say">> \o move \o <<"consume">>)
    BY <1>1, <1>3, <1>5, OrderedShort, OrderedConcat
  <1>8. Ordered(<<"say", "mark">> \o move \o plan)
    BY <1>3, <1>6, OrderedConcat
  <1> QED BY <1>7, <1>8
-----------------------------------------------------------------------------
(***************************************************************************)
(* What the daemon relies on                                               *)
(***************************************************************************)
\* The results and verdicts of the journal stay.
Kept ==
    \A a \in Apps : /\ journal'[a].started = journal[a].started
                    /\ journal'[a].finished = journal[a].finished
                    /\ journal'[a].recovery = journal[a].recovery

\* Nothing is put into the repository.
Shrinks ==
    /\ worktree' \subseteq worktree /\ published \subseteq published'
    /\ \A a \in Apps : OnBranch(a)' => OnBranch(a)

LEMMA KeptOpen ==
    ASSUME Kept
    PROVE  /\ Unfinished' = Unfinished /\ (NoneInDoubt => NoneInDoubt')
           /\ \A a : Open(a) => a \in Unfinished' /\ journal'[a].recovery = "none"
  <1>1. Unfinished' = Unfinished
    BY DEF Kept, Unfinished
  <1>2. Unfinished \subseteq Apps
    BY DEF Unfinished
  <1>3. NoneInDoubt => NoneInDoubt'
    BY <1>1, <1>2 DEF Kept, NoneInDoubt
  <1>4. \A a : Open(a) => a \in Unfinished' /\ journal'[a].recovery = "none"
    BY <1>1, <1>2 DEF Kept, Open
  <1> QED BY <1>1, <1>3, <1>4

LEMMA WithinNext == \A s : Within(s)' <=> In(s, work'.plan)
  BY DEF Within, In

\* A handler that has none of the sensitive steps before it.
LEMMA QuietSound ==
    ASSUME ~Within("ack")', ~Within("begin")', ~Within("attempt")', ~Within("publish")',
           ~Within("cleanup")', ~Within("finish")', ~Within("answer")',
           JudgeSound', OrderSound', ConsumeSound', SaySound', MarkSound', TransitionSound'
    PROVE  WorkSound'
  BY DEF WorkSound, AckSound, BeginSound, AttemptSound, PublishSound, FinishSound, AnswerSound

\* What an attempt relies on outlives a step that keeps the journal and adds
\* nothing to the repository.
LEMMA AttemptKept ==
    ASSUME Kept, Shrinks, work'.app = work.app
    PROVE  /\ Open(work.app) => Open(work.app)'
           /\ work.app \in Unfinished => (work.app \in Unfinished)'
           /\ work.app \in Unfinished /\ Clean(work.app) => Clean(work.app)'
           /\ work.app \in Unfinished /\ ~OnBranch(work.app) => ~OnBranch(work.app)'
           /\ work.app \in published => (work.app \in published)'
           /\ NoneInDoubt => NoneInDoubt'
  <1>1. PICK b : b = work.app
    OBVIOUS
  <1>2. work'.app = b
    BY <1>1
  <1>3. Unfinished' = Unfinished /\ Unfinished \subseteq Apps /\ (NoneInDoubt => NoneInDoubt')
    BY KeptOpen DEF Unfinished
  <1>4. Open(b) => Open(b)'
    BY <1>3 DEF Kept, Open
  <1>5. b \in Unfinished /\ ~OnBranch(b) => ~OnBranch(b)'
    BY <1>3 DEF Shrinks
  <1>6. b \in Unfinished /\ Clean(b) => Clean(b)'
    BY <1>3, <1>5 DEF Clean, Shrinks
  <1>7. Open(work.app) => Open(work.app)'
    BY <1>1, <1>2, <1>4 DEF Open
  <1>8. work.app \in Unfinished => (work.app \in Unfinished)'
    BY <1>1, <1>2, <1>3
  <1>9. work.app \in Unfinished /\ ~OnBranch(work.app) => ~OnBranch(work.app)'
    BY <1>1, <1>2, <1>5 DEF OnBranch
  <1>10. work.app \in Unfinished /\ Clean(work.app) => Clean(work.app)'
    BY <1>1, <1>2, <1>6, <1>9 DEF Clean, OnBranch
  <1>11. work.app \in published => (work.app \in published)'
    BY <1>1, <1>2 DEF Shrinks
  <1> QED BY <1>3, <1>7, <1>8, <1>9, <1>10, <1>11

\* A step of others.
LEMMA StillSound ==
    ASSUME WorkSound, Kept, Shrinks, work'.plan = work.plan, work'.app = work.app,
           work'.verdict = work.verdict, work'.todo \subseteq work.todo,
           work.plan # <<>> /\ down # <<>> => down' # <<>>
    PROVE  WorkSound'
  <1>1. \A s : Within(s)' <=> Within(s)
    BY DEF Within, In
  <1>2. Unfinished' = Unfinished /\ Unfinished \subseteq Apps
    BY KeptOpen DEF Unfinished
  <1>3. JudgeSound' /\ AckSound'
    BY <1>1, <1>2 DEF WorkSound, JudgeSound, AckSound
  <1>4. OrderSound' /\ ConsumeSound'
    <2>1. \A s : Within(s) => work.plan # <<>>
      BY InEmpty DEF Within
    <2> QED BY <1>1, <2>1 DEF WorkSound, OrderSound, ConsumeSound, Ordered
  <1>5. BeginSound'
    BY <1>1, AttemptKept DEF WorkSound, BeginSound
  <1>6. AttemptSound'
    BY <1>1, AttemptKept DEF WorkSound, AttemptSound, Open
  <1>7. PublishSound'
    BY <1>1, AttemptKept DEF WorkSound, PublishSound, Open
  <1>8. FinishSound'
    BY <1>1, AttemptKept DEF WorkSound, FinishSound, Open
  <1>9. AnswerSound'
    BY <1>1 DEF WorkSound, AnswerSound, Kept
  <1>10. SaySound' /\ MarkSound' /\ TransitionSound'
    BY <1>1, AttemptKept DEF WorkSound, SaySound, MarkSound, TransitionSound
  <1> QED BY <1>3, <1>4, <1>5, <1>6, <1>7, <1>8, <1>9, <1>10 DEF WorkSound

\* The daemon goes on with its plan.
LEMMA TailSound ==
    ASSUME WorkSound, work \in Works, Shrinks, work.plan # <<>>,
           Head(work.plan) = "finish" => journal'[work.app].finished = work.verdict,
           Head(work.plan) # "finish" => Kept,
           \/ work'.plan = <<>>
           \/ /\ work'.plan = Tail(work.plan) /\ Tail(work.plan) # <<>>
              /\ work'.app = work.app /\ work'.verdict = work.verdict,
           JudgeSound', Head(work.plan) # "consume" => down' = down
    PROVE  WorkSound'
  <1>1. work.plan \in Seq(Steps)
    BY DEF Works
  <1>2. CASE work'.plan = <<>>
    <2>1. \A s : ~Within(s)'
      BY <1>2, InEmpty DEF Within
    <2>2. OrderSound'
      BY <1>2, OrderedShort DEF OrderSound
    <2> QED BY <2>1, <2>2, QuietSound DEF ConsumeSound, SaySound, MarkSound, TransitionSound
  <1>3. CASE work'.plan # <<>>
    <2>1. /\ work'.plan = Tail(work.plan) /\ Tail(work.plan) # <<>>
          /\ work'.app = work.app /\ work'.verdict = work.verdict
      BY <1>3
    <2>2. \A s : Within(s)' => Within(s)
      BY <1>1, <2>1, InTail DEF Within
    <2>3. OrderSound'
      BY <1>1, <2>1, OrderedTail DEF OrderSound, WorkSound
    <2>4. ~Within("ack")'
      <3>1. Tail(<<"ack", "report", "consume">>) = <<"report", "consume">>
        OBVIOUS
      <3>2. ~In("ack", <<"report", "consume">>)
        BY InTwo
      <3>3. ASSUME Within("ack") PROVE ~In("ack", work'.plan)
        BY <2>1, <3>1, <3>2, <3>3 DEF WorkSound, AckSound
      <3> QED BY <2>2, <3>3, WithinNext
    <2>5. ~Within("begin")' /\ ~Within("attempt")' /\ ~Within("publish")'
      BY <2>1, <2>2, Tails DEF WorkSound, BeginSound, AttemptSound, PublishSound
    <2>6. ConsumeSound'
      <3>1. SUFFICES ASSUME Within("consume")' PROVE down' # <<>>
        BY <2>5 DEF ConsumeSound
      <3>2. Head(work.plan) # "consume"
        <4>1. PICK i \in 1..Len(Tail(work.plan)) : Tail(work.plan)[i] = "consume"
          BY <2>1, <3>1 DEF Within, In
        <4>2. 1 \in 1..Len(work.plan) /\ i + 1 \in 1..Len(work.plan) /\ 1 < i + 1
              /\ Head(work.plan) = work.plan[1]
          BY <1>1
        <4> QED BY <4>2 DEF WorkSound, OrderSound, Ordered
      <3> QED BY <2>2, <3>1, <3>2 DEF WorkSound, ConsumeSound
    <2>7. ~Within("cleanup")'
      <3>1. Within("cleanup") => work.plan = Cleaning \/ work.plan = Ending
        BY DEF WorkSound, FinishSound
      <3>2. ~In("cleanup", Ending) /\ ~In("cleanup", Answering)
        BY InEnding
      <3>3. ASSUME Within("cleanup") PROVE ~In("cleanup", work'.plan)
        BY <2>1, <3>1, <3>2, <3>3, Tails
      <3> QED BY <2>2, <3>3, WithinNext
    <2>8. FinishSound'
      <3>1. SUFFICES ASSUME Within("finish")'
                     PROVE  /\ work'.plan = Cleaning \/ work'.plan = Ending
                            /\ Open(work.app)' /\ work'.verdict \in Final
                            /\ work'.verdict = "applied" => (work.app \in published)'
                            /\ work'.verdict = "failed" => ~OnBranch(work.app)'
        BY <2>7 DEF FinishSound
      <3>2. /\ work.plan = Cleaning \/ work.plan = Ending
            /\ Open(work.app) /\ work.verdict \in Final
            /\ work.verdict = "applied" => work.app \in published
            /\ work.verdict = "failed" => ~OnBranch(work.app)
        BY <2>2, <3>1 DEF WorkSound, FinishSound
      <3>3. work.plan = Cleaning
        <4>1. ~In("finish", Answering)
          BY InEnding
        <4>2. In("finish", work'.plan)
          BY <3>1, WithinNext
        <4> QED BY <2>1, <3>2, <4>1, <4>2, Tails
      <3>4. work'.plan = Ending /\ Kept
        BY <2>1, <3>3, Tails, Heads
      <3> QED BY <2>1, <3>2, <3>4, AttemptKept DEF Open
    <2>9. AnswerSound'
      <3>1. SUFFICES ASSUME Within("answer")', work'.plan # Cleaning, work'.plan # Ending
                     PROVE  /\ work'.plan = Answering /\ work'.app \in Apps
                            /\ work'.verdict \in Final
                            /\ journal'[work'.app].finished = work'.verdict
        BY DEF AnswerSound
      <3>2. work.plan = Cleaning \/ work.plan = Ending \/ work.plan = Answering
        BY <2>2, <3>1 DEF WorkSound, AnswerSound
      <3>3. work.plan = Ending
        <4>1. ~In("answer", <<"transition", "consume">>)
          BY InTwo
        <4>2. In("answer", work'.plan)
          BY <3>1, WithinNext
        <4> QED BY <2>1, <3>1, <3>2, <4>1, <4>2, Tails
      <3>4. Open(work.app) /\ work.verdict \in Final
        <4>1. Within("finish")
          BY <1>1, <3>3, Tails, Heads, InHead DEF Within
        <4> QED BY <4>1 DEF WorkSound, FinishSound
      <3>5. journal'[work.app].finished = work.verdict
        <4>1. Head(work.plan) = "finish"
          BY <3>3, Heads
        <4> QED BY <4>1
      <3> QED BY <2>1, <3>3, <3>4, <3>5, Tails DEF Open, Unfinished
    <2>10. SaySound' /\ MarkSound' /\ TransitionSound'
      BY <2>1, <2>2 DEF WorkSound, SaySound, MarkSound, TransitionSound, Shrinks
    <2>11. AckSound' /\ BeginSound' /\ AttemptSound' /\ PublishSound'
      BY <2>4, <2>5 DEF AckSound, BeginSound, AttemptSound, PublishSound
    <2> QED BY <2>3, <2>6, <2>8, <2>9, <2>10, <2>11 DEF WorkSound
  <1> QED BY <1>2, <1>3
-----------------------------------------------------------------------------
(***************************************************************************)
(* The steps of the device                                                 *)
(***************************************************************************)
LEMMA Unmoved ==
    ASSUME UNCHANGED <<repository, published>>
    PROVE  Shrinks
  BY DEF Shrinks, OnBranch, repository

LEMMA IdleWork ==
    ASSUME work = Idle
    PROVE  work.plan = <<>> /\ work.todo = {} /\ \A s : ~Within(s)
  BY InEmpty DEF Idle, Within

LEMMA RestWork ==
    ASSUME work \in Works
    PROVE  /\ \/ Rest.plan = <<>>
              \/ /\ Rest.plan = Tail(work.plan) /\ Tail(work.plan) # <<>>
                 /\ Rest.app = work.app /\ Rest.verdict = work.verdict
           /\ work.todo = {} => Rest.todo = {}
           /\ \A s, d : /\ [Rest EXCEPT !.todo = s, !.due = d].plan = Rest.plan
                        /\ [Rest EXCEPT !.todo = s, !.due = d].app = Rest.app
                        /\ [Rest EXCEPT !.todo = s, !.due = d].verdict = Rest.verdict
                        /\ [Rest EXCEPT !.todo = s, !.due = d].todo = s
  <1>1. CASE Tail(work.plan) = <<>>
    BY <1>1 DEF Rest, Proceed, Idle
  <1>2. CASE Tail(work.plan) # <<>>
    BY <1>2 DEF Rest, Proceed, Works
  <1> QED BY <1>1, <1>2

LEMMA ServeWork ==
    ASSUME work \in Works, NEW plan, NEW a, NEW v
    PROVE  /\ Serve(plan, a, v).plan = plan /\ Serve(plan, a, v).app = a
           /\ Serve(plan, a, v).verdict = v /\ Serve(plan, a, v).todo = work.todo
  BY DEF Serve, Works

\* An ordinary step of a plan.
LEMMA GoOn ==
    ASSUME WorkSound, TypesSound, Shrinks, Kept, work.plan # <<>>, work.todo = {},
           Head(work.plan) # "finish", Head(work.plan) # "consume" => down' = down, work' = Rest
    PROVE  WorkSound'
  <1>1. work \in Works
    BY DEF TypesSound
  <1>2. JudgeSound'
    BY <1>1, RestWork DEF JudgeSound
  <1> QED BY <1>1, <1>2, RestWork, TailSound

\* What the repository tells.
LEMMA Judged ==
    ASSUME NEW a \in Apps
    PROVE  /\ Inspect(a) = "applied" => OnBranch(a)
           /\ Observed(a) = "applied" => OnBranch(a)
           /\ Inspect(a) = "not_started" => Clean(a)
           /\ Observed(a) = "not_started" => Clean(a) \/ journal[a].recovery = "not_started"
           /\ journal[a].recovery = "outcome_unknown" /\ Observed(a) # "applied"
                => Observed(a) = "outcome_unknown"
  <1>1. Inspect(a) = "applied" => OnBranch(a)
    <2> DEFINE S == {i \in DOMAIN branch[a] : branch[a][i] = "app"}
    <2>1. Cardinality({}) = 0
      BY FS_EmptySet
    <2>2. Inspect(a) = "applied" => Cardinality(S) = 1
      BY DEF Inspect
    <2>3. Inspect(a) = "applied" => S # {}
      <3> HIDE DEF S
      <3> QED BY <2>1, <2>2
    <2> QED BY <2>3 DEF OnBranch
  <1>2. Inspect(a) = "not_started" => Clean(a)
    <2>1. Inspect(a) = "not_started" => branch[a] = <<>> /\ a \notin worktree
      BY DEF Inspect
    <2>2. branch[a] = <<>> => DOMAIN branch[a] = {}
      OBVIOUS
    <2> QED BY <2>1, <2>2 DEF Clean, OnBranch
  <1>3. Observed(a) = "applied" => Inspect(a) = "applied"
    BY DEF Observed
  <1>4. Observed(a) = "not_started" =>
          Inspect(a) = "not_started" \/ journal[a].recovery = "not_started"
    BY DEF Observed
  <1>5. journal[a].recovery = "outcome_unknown" /\ Observed(a) # "applied"
          => Observed(a) = "outcome_unknown"
    BY DEF Observed
  <1> QED BY <1>1, <1>2, <1>3, <1>4, <1>5

\* A replayed result.
LEMMA ReplaySound ==
    ASSUME TypesSound, work = Idle, NEW a \in Apps, NEW result \in Final,
           work' = Replay(a, result), journal'[a].finished = result, down' # <<>>,
           result = "applied" => a \in published',
           Inspect(a) = "applied" => a \in published'
    PROVE  WorkSound'
  <1> DEFINE move == IF result = "applied" THEN <<"transition">> ELSE <<>>
             verdict == IF result = "applied" THEN result ELSE Inspect(a)
             plan == <<"say">> \o move \o <<"consume">>
  <1>1. work \in Works /\ work.todo = {}
    BY IdleWork DEF TypesSound
  <1>2. move \in {<<>>, <<"transition">>} /\ (move # <<>> => result = "applied")
    OBVIOUS
  <1>3. verdict \in Verdicts /\ (verdict = "applied" => a \in published')
        /\ (result = "applied" => verdict = "applied")
    BY VerdictTypes DEF Verdicts
  <1>4. \/ work' = Serve(plan, a, verdict)
        \/ work' = Serve(<<"transition", "consume">>, a, result)
        \/ work' = Serve(Answering, a, result)
    BY DEF Replay, Answering
  <1> HIDE DEF move, verdict, plan
  <1>5. JudgeSound'
    BY <1>1, <1>4, ServeWork DEF JudgeSound
  <1>6. ConsumeSound'
    BY DEF ConsumeSound
  <1>7. CASE work' = Serve(plan, a, verdict)
    <2>1. work'.plan = plan /\ work'.app = a /\ work'.verdict = verdict
      BY <1>1, <1>7, ServeWork
    <2>2. \A s : Within(s)' => s \in {"say", "consume"} \/ (s = "transition" /\ move # <<>>)
      <3>1. \A s : In(s, plan) => s \in {"say", "consume"} \/ (s = "transition" /\ move # <<>>)
        BY <1>2, ReplayPlans, PlanTypes DEF plan
      <3> QED BY <2>1, <3>1, WithinNext
    <2>3. OrderSound'
      <3>1. Ordered(plan)
        BY <1>2, OrderedReplay, OrderedShort, PlanTypes DEF plan
      <3> QED BY <2>1, <3>1 DEF OrderSound, Ordered
    <2>4. SaySound' /\ MarkSound' /\ TransitionSound'
      BY <1>2, <1>3, <2>1, <2>2 DEF SaySound, MarkSound, TransitionSound, Final
    <2> QED BY <1>5, <1>6, <2>2, <2>3, <2>4, QuietSound
  <1>8. CASE work' = Serve(<<"transition", "consume">>, a, result)
    <2>1. work'.plan = <<"transition", "consume">> /\ work'.app = a /\ work'.verdict = result
      BY <1>1, <1>8, ServeWork
    <2>2. \A s : Within(s)' => s \in {"transition", "consume"}
      BY <2>1, InTwo, WithinNext
    <2>3. OrderSound'
      BY <2>1, OrderedShort DEF OrderSound
    <2>4. SaySound' /\ MarkSound' /\ TransitionSound'
      BY <2>1, <2>2 DEF SaySound, MarkSound, TransitionSound
    <2> QED BY <1>5, <1>6, <2>2, <2>3, <2>4, QuietSound
  <1>9. CASE work' = Serve(Answering, a, result)
    <2>1. work'.plan = Answering /\ work'.app = a /\ work'.verdict = result
      BY <1>1, <1>9, ServeWork
    <2>2. \A s : Within(s)' => s \in {"answer", "transition", "consume"}
      BY <2>1, InEnding, WithinNext
    <2>3. OrderSound'
      BY <2>1, OrderedEnding DEF OrderSound
    <2>4. SaySound' /\ MarkSound' /\ TransitionSound'
      BY <2>1, <2>2 DEF SaySound, MarkSound, TransitionSound
    <2>5. AnswerSound'
      BY <2>1 DEF AnswerSound
    <2>6. AckSound' /\ BeginSound' /\ AttemptSound' /\ PublishSound' /\ FinishSound'
      BY <2>2 DEF AckSound, BeginSound, AttemptSound, PublishSound, FinishSound
    <2> QED BY <1>5, <1>6, <2>3, <2>4, <2>5, <2>6 DEF WorkSound
  <1> QED BY <1>4, <1>7, <1>8, <1>9

\* An attempt that has come to its end.
LEMMA EndingSound ==
    ASSUME TypesSound, work.todo = {}, NEW plan \in {Ending, <<"cleanup">> \o Ending},
           NEW a, NEW v \in Final,
           work' = Serve(plan, a, v), a \in Unfinished', journal'[a].recovery = "none",
           down' # <<>>, v = "applied" => a \in published', v = "failed" => ~OnBranch(a)'
    PROVE  WorkSound'
  <1>1. /\ work'.plan = plan /\ work'.app = a /\ work'.verdict = v /\ work'.todo = {}
        /\ plan \in {Ending, Cleaning}
    <2>1. plan \in {Ending, Cleaning}
      BY Tails
    <2>2. work \in Works
      BY DEF TypesSound
    <2> QED BY <2>1, <2>2, ServeWork
  <1>2. \A s : Within(s)' => s \in {"cleanup", "finish", "answer", "transition", "consume"}
    BY <1>1, InEnding, WithinNext
  <1>3. OrderSound'
    BY <1>1, OrderedEnding DEF OrderSound
  <1>4. JudgeSound' /\ ConsumeSound'
    BY <1>1 DEF JudgeSound, ConsumeSound
  <1>5. AckSound' /\ BeginSound' /\ AttemptSound' /\ PublishSound' /\ SaySound' /\ MarkSound'
    BY <1>2 DEF AckSound, BeginSound, AttemptSound, PublishSound, SaySound, MarkSound
  <1>6. FinishSound'
    <2>1. ~OnBranch(a)' => ~OnBranch(work.app)'
      BY <1>1 DEF OnBranch
    <2> QED BY <1>1, <2>1 DEF FinishSound, Open
  <1>7. AnswerSound' /\ TransitionSound'
    BY <1>1 DEF AnswerSound, TransitionSound
  <1> QED BY <1>3, <1>4, <1>5, <1>6, <1>7 DEF WorkSound

LEMMA RecoverWork ==
    ASSUME TypesSound, WorkSound, NEW a \in Apps, Recover(a)
    PROVE  WorkSound'
  <1>1. work \in Works /\ journal \in [Apps -> Entries]
    BY TypesSplit DEF DeviceTypes
  <1>2. /\ work'.plan = work.plan /\ work'.todo = work.todo \ {a} /\ down' = down
        /\ work.plan \in {<<"hello", "report">>, <<"report", "consume">>}
        /\ work.todo \subseteq Unfinished
    BY <1>1 DEF Recover, Works, WorkSound, JudgeSound
  <1>3. \A b \in Apps \ {a} : journal'[b] = journal[b]
    BY <1>1 DEF Recover
  <1>4. work'.todo \subseteq Unfinished'
    BY <1>2, <1>3 DEF Unfinished
  <1>5. JudgeSound'
    BY <1>2, <1>4 DEF JudgeSound
  <1>6. \A s : Within(s)' => s \in {"hello", "report", "consume"} /\ Within(s)
    BY <1>2, InTwo, WithinNext DEF Within
  <1>7. OrderSound' /\ ConsumeSound'
    BY <1>2, <1>6 DEF WorkSound, OrderSound, ConsumeSound, Ordered
  <1>8. SaySound' /\ MarkSound' /\ TransitionSound'
    BY <1>6 DEF SaySound, MarkSound, TransitionSound
  <1> QED BY <1>5, <1>6, <1>7, <1>8, QuietSound

LEMMA ReportWork ==
    ASSUME TypesSound, WorkSound, NEW a \in Apps, EntrySound(a), Report(a)
    PROVE  WorkSound'
  <1> DEFINE e == journal[a]
             verdict == IF e.finished = "applied" THEN "applied"
                        ELSE IF e.recovery # "none" THEN e.recovery ELSE Inspect(a)
             move == IF verdict = "applied" THEN <<"transition">> ELSE <<>>
             plan == <<"say", "mark">> \o move \o work.plan
  <1>1. work \in Works /\ e \in Entries
    BY TypesSplit DEF DeviceTypes
  <1>2. work.plan \in Seq(Steps) /\ work.plan # <<>> /\ Head(work.plan) = "report"
        /\ work.todo = {} /\ Ordered(work.plan)
    BY <1>1 DEF Works, Report, At, WorkSound, OrderSound
  <1>3. verdict \in Verdicts
    BY <1>1, VerdictTypes DEF Entries, Verdicts
  <1>4. verdict = "applied" => a \in published
    BY <1>1, Judged DEF EntrySound, Entries
  <1>5. work' = [Serve(plan, a, verdict) EXCEPT !.due = @ \ {a}] /\ down' = down
        /\ published' = published
    BY DEF Report
  <1>6. move \in {<<>>, <<"transition">>} /\ (move # <<>> => verdict = "applied")
    OBVIOUS
  <1> HIDE DEF verdict, move, plan, e
  <1>7. work'.plan = plan /\ work'.app = a /\ work'.verdict = verdict /\ work'.todo = {}
    BY <1>1, <1>2, <1>5 DEF Serve, Works
  <1>8. \A s : In(s, plan) => s \in {"say", "mark", "report", "consume"}
                              \/ (s = "transition" /\ move # <<>>)
    <2>1. \A s : In(s, plan) => s \in {"say", "mark"} \/ (s = "transition" /\ move # <<>>)
                                \/ In(s, work.plan)
      BY <1>2, <1>6, ReplayPlans DEF plan
    <2>2. \A s : In(s, work.plan) => s \in {"report", "consume"}
      BY <1>2, AtReport
    <2> QED BY <2>1, <2>2
  <1>9. In("consume", plan) => down # <<>>
    <2>1. In("consume", plan) => In("consume", work.plan)
      BY <1>2, <1>6, ReplayPlans DEF plan
    <2> QED BY <2>1 DEF WorkSound, ConsumeSound, Within
  <1>10. Ordered(plan)
    BY <1>2, <1>6, OrderedReplay DEF plan
  <1>11. \A s : Within(s)' => s \in {"say", "mark", "report", "consume"}
                              \/ (s = "transition" /\ move # <<>>)
    BY <1>7, <1>8, WithinNext
  <1>12. OrderSound' /\ JudgeSound'
    BY <1>7, <1>10 DEF OrderSound, JudgeSound, Ordered
  <1>13. ConsumeSound'
    BY <1>5, <1>7, <1>9, <1>11, WithinNext DEF ConsumeSound
  <1>14. SaySound' /\ MarkSound' /\ TransitionSound'
    BY <1>3, <1>4, <1>5, <1>6, <1>7, <1>11 DEF SaySound, MarkSound, TransitionSound, Final
  <1> QED BY <1>11, <1>12, <1>13, <1>14, QuietSound

LEMMA RelaunchWork ==
    ASSUME TypesSound, Relaunch
    PROVE  WorkSound'
  <1>1. /\ work'.plan = <<"hello", "report">> /\ work'.todo = Unfinished
        /\ Unfinished' = Unfinished
    BY DEF Relaunch, Idle, Unfinished
  <1>2. JudgeSound'
    BY <1>1 DEF JudgeSound
  <1>3. \A s : Within(s)' => s \in {"hello", "report"}
    BY <1>1, InTwo, WithinNext
  <1>4. OrderSound'
    BY <1>1, OrderedShort DEF OrderSound
  <1>5. ConsumeSound' /\ SaySound' /\ MarkSound' /\ TransitionSound'
    BY <1>3 DEF ConsumeSound, SaySound, MarkSound, TransitionSound
  <1> QED BY <1>2, <1>3, <1>4, <1>5, QuietSound

LEMMA TakeOfferWork ==
    ASSUME TypesSound, TakeOffer
    PROVE  WorkSound'
  <1>1. /\ work'.plan = <<"ack", "report", "consume">> /\ work'.todo = {} /\ down' # <<>>
    BY DEF TakeOffer, Idle
  <1>2. \A s : Within(s)' => s \in {"ack", "report", "consume"}
    BY <1>1, InThree, WithinNext
  <1>3. OrderSound'
    BY <1>1, OrderedShort DEF OrderSound
  <1>4. JudgeSound' /\ AckSound' /\ ConsumeSound'
    BY <1>1 DEF JudgeSound, AckSound, ConsumeSound
  <1>5. BeginSound' /\ AttemptSound' /\ PublishSound' /\ FinishSound' /\ AnswerSound'
    BY <1>2 DEF BeginSound, AttemptSound, PublishSound, FinishSound, AnswerSound
  <1>6. SaySound' /\ MarkSound' /\ TransitionSound'
    BY <1>2 DEF SaySound, MarkSound, TransitionSound
  <1> QED BY <1>3, <1>4, <1>5, <1>6 DEF WorkSound

LEMMA SendAckWork ==
    ASSUME TypesSound, WorkSound, SendAck
    PROVE  WorkSound'
  <1>1. work \in Works /\ work.plan \in Seq(Steps) /\ work.plan # <<>> /\ work.todo = {}
        /\ Head(work.plan) = "ack"
    BY DEF TypesSound, Works, SendAck, At
  <1>2. Kept /\ Shrinks /\ down' = down
    BY Unmoved DEF SendAck, Kept
  <1>3. work.plan = <<"ack", "report", "consume">>
    BY <1>1, InHead DEF WorkSound, AckSound, Within
  <1>4. Tail(work.plan) = <<"report", "consume">>
    BY <1>3
  <1>5. work'.plan = Rest.plan /\ work'.app = Rest.app /\ work'.verdict = Rest.verdict
        /\ work'.todo = Unfinished
    BY <1>1, RestWork DEF SendAck
  <1>6. Rest.plan = <<"report", "consume">>
    BY <1>1, <1>4 DEF Rest, Proceed, Works
  <1>7. JudgeSound'
    BY <1>2, <1>5, <1>6, KeptOpen DEF JudgeSound
  <1> QED BY <1>1, <1>2, <1>5, <1>7, RestWork, TailSound

\* A verdict that is reported at once.
LEMMA SayWork ==
    ASSUME TypesSound, work.todo = {}, NEW a \in Apps, NEW v \in Verdicts \ {"applied"},
           NEW plan \in {<<"say", "consume">>, <<"say", "mark", "consume">>},
           work' = Serve(plan, a, v), down' # <<>>
    PROVE  WorkSound'
  <1>1. work \in Works
    BY DEF TypesSound
  <1>2. work'.plan = plan /\ work'.app = a /\ work'.verdict = v /\ work'.todo = {}
    BY <1>1, ServeWork
  <1>3. \A s : Within(s)' => s \in {"say", "mark", "consume"}
    BY <1>2, InTwo, InThree, WithinNext
  <1>4. Ordered(plan)
    <2>1. Ordered(<<"say", "consume">>) /\ Ordered(<<"say", "mark", "consume">>)
      BY OrderedShort
    <2> QED BY <2>1
  <1>5. OrderSound' /\ JudgeSound' /\ ConsumeSound'
    BY <1>2, <1>4 DEF OrderSound, JudgeSound, ConsumeSound, Ordered
  <1>6. SaySound' /\ MarkSound' /\ TransitionSound'
    BY <1>2, <1>3 DEF SaySound, MarkSound, TransitionSound
  <1> QED BY <1>3, <1>5, <1>6, QuietSound

LEMMA StartWork ==
    ASSUME TypesSound, NEW a \in Apps, a = Head(down).app, EntrySound(a), Start
    PROVE  WorkSound'
  <1>1. work \in Works /\ work.todo = {} /\ journal \in [Apps -> Entries] /\ down' # <<>>
    BY TypesSplit, IdleWork DEF DeviceTypes, Start, Commanded
  <1>2. work'.plan = <<"begin">> /\ work'.app = a /\ work'.todo = {}
    BY <1>1, ServeWork DEF Start
  <1>3. \A s : Within(s)' => s = "begin"
    BY <1>2, InOne, WithinNext
  <1>4. OrderSound' /\ JudgeSound' /\ ConsumeSound'
    BY <1>1, <1>2, OrderedShort DEF OrderSound, JudgeSound, ConsumeSound
  <1>5. a \in Unfinished' /\ journal'[a].recovery \in {"none", "not_started"}
    <2>1. CASE ~journal[a].started
      BY <1>1, <2>1 DEF Start, Unfinished, NoEntry
    <2>2. CASE journal[a].started
      BY <2>2 DEF Start, Unfinished, MayRetry
    <2> QED BY <2>1, <2>2
  <1>6. \A b \in Apps \ {a} : journal'[b] = journal[b]
    BY <1>1 DEF Start
  <1>7. NoneInDoubt'
    <2>1. a \notin Unresolved
      BY DEF Start, Unresolved, Unfinished, MayRetry
    <2>2. Unresolved = {}
      <3>1. FALSE \in Blocked(a)
        BY DEF Start
      <3>2. ASSUME Unresolved # {} PROVE FALSE
        <4>1. FALSE \in {b # a : b \in Unresolved}
          BY <3>1, <3>2 DEF Blocked
        <4>2. PICK b \in Unresolved : FALSE = (b # a)
          BY <4>1
        <4> QED BY <2>1, <4>2
      <3> QED BY <3>2
    <2>3. \A b \in Apps \ {a} : b \in Unfinished' => journal'[b].recovery # "outcome_unknown"
      BY <1>6, <2>2 DEF Unresolved, Unfinished
    <2> QED BY <1>5, <2>3 DEF NoneInDoubt, Unfinished
  <1>8. Clean(a)
    BY DEF Start, EntrySound, Unfinished, MayRetry
  <1>9. Clean(work.app)'
    BY <1>2, <1>8 DEF Clean, OnBranch, Start, repository
  <1>10. BeginSound'
    BY <1>2, <1>5, <1>7, <1>9 DEF BeginSound
  <1>11. AckSound' /\ AttemptSound' /\ PublishSound' /\ FinishSound' /\ AnswerSound'
    BY <1>3 DEF AckSound, AttemptSound, PublishSound, FinishSound, AnswerSound
  <1>12. SaySound' /\ MarkSound' /\ TransitionSound'
    BY <1>3 DEF SaySound, MarkSound, TransitionSound
  <1> QED BY <1>4, <1>10, <1>11, <1>12 DEF WorkSound

LEMMA BeginAttemptWork ==
    ASSUME TypesSound, WorkSound, BeginAttempt
    PROVE  WorkSound'
  <1>1. work \in Works /\ work.todo = {} /\ journal \in [Apps -> Entries] /\ work.plan # <<>>
        /\ Head(work.plan) = "begin" /\ work.plan \in Seq(Steps)
    BY TypesSplit DEF DeviceTypes, BeginAttempt, At, Works
  <1>2. Within("begin")
    BY <1>1, InHead DEF Within
  <1>3. PICK a : a = work.app
    OBVIOUS
  <1>4. a \in Unfinished /\ a \in Apps /\ Clean(a) /\ NoneInDoubt /\ down' # <<>>
    BY <1>2, <1>3 DEF WorkSound, BeginSound, ConsumeSound, Unfinished, BeginAttempt
  <1>5. work'.plan = <<"attempt">> /\ work'.app = a /\ work'.todo = {}
    BY <1>1, <1>3 DEF BeginAttempt, Proceed, Works
  <1>6. \A s : Within(s)' => s = "attempt"
    BY <1>5, InOne, WithinNext
  <1>7. OrderSound' /\ JudgeSound' /\ ConsumeSound'
    BY <1>4, <1>5, OrderedShort DEF OrderSound, JudgeSound, ConsumeSound
  <1>8. /\ \A b \in Apps \ {a} : journal'[b] = journal[b]
        /\ journal'[a] = [journal[a] EXCEPT !.recovery = "none"]
    BY <1>1, <1>3, <1>4 DEF BeginAttempt, Begin
  <1>9. a \in Unfinished' /\ journal'[a].recovery = "none"
    BY <1>1, <1>4, <1>8 DEF Unfinished, Entries
  <1>10. NoneInDoubt'
    BY <1>4, <1>8, <1>9 DEF NoneInDoubt, Unfinished
  <1>11. Clean(work.app)'
    BY <1>4, <1>5 DEF Clean, OnBranch, BeginAttempt, repository
  <1>12. AttemptSound'
    BY <1>5, <1>9, <1>10, <1>11 DEF AttemptSound, Open
  <1>13. AckSound' /\ BeginSound' /\ PublishSound' /\ FinishSound' /\ AnswerSound'
    BY <1>6 DEF AckSound, BeginSound, PublishSound, FinishSound, AnswerSound
  <1>14. SaySound' /\ MarkSound' /\ TransitionSound'
    BY <1>6 DEF SaySound, MarkSound, TransitionSound
  <1> QED BY <1>7, <1>12, <1>13, <1>14 DEF WorkSound

\* The outcomes of an attempt.
LEMMA AttemptWork ==
    ASSUME TypesSound, WorkSound, NotStarted \/ BaseStale \/ Integrate
    PROVE  WorkSound'
  <1>1. work \in Works /\ work.todo = {} /\ journal \in [Apps -> Entries] /\ work.plan # <<>>
        /\ Head(work.plan) = "attempt" /\ work.plan \in Seq(Steps)
    BY TypesSplit DEF DeviceTypes, NotStarted, BaseStale, Integrate, At, Works
  <1>2. Within("attempt")
    BY <1>1, InHead DEF Within
  <1>3. PICK a : a = work.app
    OBVIOUS
  <1>4. /\ a \in Unfinished /\ a \in Apps /\ Clean(a) /\ journal[a].recovery = "none"
        /\ down' # <<>>
    BY <1>2, <1>3 DEF WorkSound, AttemptSound, ConsumeSound, Open, Unfinished, NotStarted,
                      BaseStale, Integrate
  <1>5. CASE NotStarted
    <2>1. work' = Serve(<<"say", "mark", "consume">>, a, "not_started")
      BY <1>3, <1>5 DEF NotStarted
    <2> QED BY <1>1, <1>4, <2>1, SayWork DEF Verdicts
  <1>6. ASSUME BaseStale \/ Integrate
        PROVE  a \in Unfinished' /\ journal'[a].recovery = "none" /\ ~OnBranch(a)'
    <2>1. journal' = journal /\ branch' = branch
      BY <1>6 DEF BaseStale, Integrate, repository
    <2> QED BY <1>4, <2>1 DEF Unfinished, Clean, OnBranch
  <1>7. CASE BaseStale
    <2>1. work' = Serve(Ending, a, "failed")
      BY <1>3, <1>7 DEF BaseStale
    <2> QED BY <1>1, <1>4, <1>6, <1>7, <2>1, EndingSound DEF Final
  <1>8. CASE Integrate
    <2>1. CASE work' = Serve(Ending, a, "failed")
      BY <1>1, <1>4, <1>6, <1>8, <2>1, EndingSound DEF Final
    <2>2. CASE work' = Serve(<<"cleanup">> \o Ending, a, "failed")
      BY <1>1, <1>4, <1>6, <1>8, <2>2, EndingSound DEF Final
    <2>3. CASE work' = Proceed(<<"publish">>)
      <3>1. work'.plan = <<"publish">> /\ work'.app = a /\ work'.todo = {}
        BY <1>1, <1>3, <2>3 DEF Proceed, Works
      <3>2. \A s : Within(s)' => s = "publish"
        BY <3>1, InOne, WithinNext
      <3>3. OrderSound' /\ JudgeSound' /\ ConsumeSound'
        BY <1>4, <3>1, OrderedShort DEF OrderSound, JudgeSound, ConsumeSound
      <3>4. ~OnBranch(work.app)'
        BY <1>6, <1>8, <3>1 DEF OnBranch
      <3>5. PublishSound'
        BY <1>6, <1>8, <3>1, <3>4 DEF PublishSound, Open
      <3>6. AckSound' /\ BeginSound' /\ AttemptSound' /\ FinishSound' /\ AnswerSound'
        BY <3>2 DEF AckSound, BeginSound, AttemptSound, FinishSound, AnswerSound
      <3>7. SaySound' /\ MarkSound' /\ TransitionSound'
        BY <3>2 DEF SaySound, MarkSound, TransitionSound
      <3> QED BY <3>3, <3>5, <3>6, <3>7 DEF WorkSound
    <2> QED BY <1>3, <1>8, <2>1, <2>2, <2>3 DEF Integrate
  <1> QED BY <1>5, <1>7, <1>8

LEMMA PublishWork ==
    ASSUME TypesSound, WorkSound, MoveBranch \/ RefuseMove
    PROVE  WorkSound'
  <1>1. work \in Works /\ work.todo = {} /\ journal' = journal /\ work.plan # <<>>
        /\ Head(work.plan) = "publish" /\ work.plan \in Seq(Steps) /\ down' = down
    BY TypesSplit DEF DeviceTypes, MoveBranch, RefuseMove, At, Works
  <1>2. Within("publish")
    BY <1>1, InHead DEF Within
  <1>3. PICK a : a = work.app
    OBVIOUS
  <1>4. /\ a \in Unfinished /\ a \in Apps /\ ~OnBranch(a) /\ journal[a].recovery = "none"
        /\ down # <<>>
    BY <1>2, <1>3 DEF WorkSound, PublishSound, ConsumeSound, Open, Unfinished
  <1>5. a \in Unfinished' /\ journal'[a].recovery = "none"
    BY <1>1, <1>4 DEF Unfinished
  <1>6. CASE MoveBranch
    <2>1. work' = Serve(<<"cleanup">> \o Ending, a, "applied") /\ a \in published'
      BY <1>3, <1>6 DEF MoveBranch
    <2> QED BY <1>1, <1>4, <1>5, <2>1, EndingSound DEF Final
  <1>7. CASE RefuseMove
    <2>1. work' = Serve(<<"cleanup">> \o Ending, a, "failed")
      BY <1>3, <1>7 DEF RefuseMove
    <2>2. ~OnBranch(a)'
      BY <1>4, <1>7 DEF RefuseMove, repository, OnBranch
    <2> QED BY <1>1, <1>4, <1>5, <2>1, <2>2, EndingSound DEF Final
  <1> QED BY <1>6, <1>7

LEMMA HandlingWork ==
    ASSUME TypesSound, WorkSound, \A a \in Apps : EntrySound(a), Handling
    PROVE  WorkSound'
  <1>1. work \in Works /\ work.plan \in Seq(Steps) /\ journal \in [Apps -> Entries]
    BY TypesSplit DEF DeviceTypes, Works
  <1>2. UNCHANGED journal => Kept
    BY DEF Kept
  <1>3. \A s : At(s) => /\ work.plan # <<>> /\ work.todo = {} /\ Head(work.plan) = s
                        /\ Within(s)
    BY <1>1, InHead DEF At, Within
  <1>4. CASE TakeOffer
    BY <1>4, TakeOfferWork
  <1>5. CASE SendAck
    BY <1>5, SendAckWork
  <1>6. CASE SendHello
    <2>1. Kept /\ Shrinks /\ down' = down /\ work' = Rest /\ At("hello")
      BY <1>2, <1>6, Unmoved DEF SendHello
    <2> QED BY <1>3, <2>1, GoOn
  <1>7. ASSUME NEW a \in Apps, Recover(a)
        PROVE  WorkSound'
    BY <1>7, RecoverWork
  <1>8. ASSUME NEW a \in Apps, Defer(a)
        PROVE  WorkSound'
    <2>1. Kept /\ Shrinks /\ down' = down
      BY <1>2, <1>8, Unmoved DEF Defer
    <2>2. work'.plan = work.plan /\ work'.app = work.app /\ work'.verdict = work.verdict
          /\ work'.todo \subseteq work.todo
      BY <1>1, <1>8 DEF Defer, Works
    <2> QED BY <2>1, <2>2, StillSound
  <1>9. ASSUME NEW a \in Apps, Report(a)
        PROVE  WorkSound'
    BY <1>9, ReportWork
  <1>10. CASE EndReport
    <2>1. Kept /\ Shrinks /\ down' = down /\ work' = Rest /\ At("report")
      BY <1>2, <1>10, Unmoved DEF EndReport
    <2> QED BY <1>3, <2>1, GoOn
  <1>11. CASE Say
    <2>1. Kept /\ Shrinks /\ down' = down /\ work' = Rest /\ At("say")
      BY <1>2, <1>11, Unmoved DEF Say
    <2> QED BY <1>3, <2>1, GoOn
  <1>12. CASE Mark
    <2>1. Shrinks /\ down' = down /\ work' = Rest /\ At("mark")
      BY <1>12, Unmoved DEF Mark
    <2>2. Kept
      BY <1>1, <1>12 DEF Mark, Kept, Entries
    <2> QED BY <1>3, <2>1, <2>2, GoOn
  <1>13. CASE Transition
    <2>1. Kept /\ Shrinks /\ down' = down /\ work' = Rest /\ At("transition")
      BY <1>2, <1>13, Unmoved DEF Transition
    <2> QED BY <1>3, <2>1, GoOn
  <1>14. CASE Consume
    <2>1. Kept /\ Shrinks /\ work' = Rest /\ At("consume")
      BY <1>2, <1>14, Unmoved DEF Consume
    <2> QED BY <1>3, <2>1, GoOn
  <1>15. CASE RefuseOffer \/ RefuseCommand
    <2>1. Kept /\ Shrinks /\ work' = work /\ work.plan = <<>>
      BY <1>2, <1>15, Unmoved, IdleWork DEF RefuseOffer, RefuseCommand, device, Commanded
    <2> QED BY <2>1, StillSound
  <1>16. CASE ReplayFinished
    <2>1. PICK a : a = Head(down).app
      OBVIOUS
    <2>2. a \in Apps
      BY <1>16, <2>1, HeadTypes DEF ReplayFinished, Commanded
    <2>3. journal[a].finished \in Final
      BY <1>1, <1>16, <2>1, <2>2 DEF ReplayFinished, Entries, Results, Final
    <2>4. journal[a].finished = "applied" \/ Inspect(a) = "applied" => a \in published
      BY <2>2, Judged DEF EntrySound
    <2>5. /\ work = Idle /\ work' = Replay(a, journal[a].finished) /\ journal' = journal
          /\ down' # <<>> /\ published' = published
      BY <1>16, <2>1 DEF ReplayFinished, Commanded
    <2> QED BY <2>2, <2>3, <2>4, <2>5, ReplaySound
  <1>17. CASE FinishFound
    <2>1. PICK a : a = Head(down).app
      OBVIOUS
    <2>2. a \in Apps
      BY <1>17, <2>1, HeadTypes DEF FinishFound, Commanded
    <2>3. /\ work = Idle /\ work' = Replay(a, "applied") /\ down' # <<>>
          /\ published' = published /\ journal' = [journal EXCEPT ![a] = Finish(@, "applied")]
          /\ Observed(a) = "applied"
      BY <1>17, <2>1 DEF FinishFound, Commanded
    <2>4. a \in published
      BY <2>2, <2>3, Judged DEF EntrySound
    <2>5. journal'[a].finished = "applied"
      BY <1>1, <2>2, <2>3 DEF Finish, Entries
    <2> QED BY <2>2, <2>3, <2>4, <2>5, ReplaySound DEF Final
  <1>18. CASE AskForDecision
    <2>1. PICK a : a = Head(down).app
      OBVIOUS
    <2>2. a \in Apps
      BY <1>18, <2>1, HeadTypes DEF AskForDecision, Commanded
    <2>3. /\ work.todo = {} /\ work' = Serve(<<"say", "consume">>, a, Observed(a))
          /\ down' # <<>> /\ Observed(a) # "applied"
      BY <1>18, <2>1, IdleWork DEF AskForDecision, Commanded
    <2> QED BY <2>2, <2>3, VerdictTypes, SayWork
  <1>19. CASE Start
    <2>1. PICK a : a = Head(down).app
      OBVIOUS
    <2>2. a \in Apps
      BY <1>19, <2>1, HeadTypes DEF Start, Commanded
    <2> QED BY <1>19, <2>1, <2>2, StartWork
  <1>20. CASE StartTerminal
    <2>1. work'.plan = <<"dead">> /\ work'.todo = {}
      BY <1>20 DEF StartTerminal, Idle
    <2>2. \A s : Within(s)' => s = "dead"
      BY <2>1, InOne, WithinNext
    <2>3. OrderSound' /\ JudgeSound' /\ ConsumeSound'
      BY <2>1, <2>2, OrderedShort DEF OrderSound, JudgeSound, ConsumeSound
    <2>4. SaySound' /\ MarkSound' /\ TransitionSound'
      BY <2>2 DEF SaySound, MarkSound, TransitionSound
    <2> QED BY <2>2, <2>3, <2>4, QuietSound
  <1>21. CASE BeginAttempt
    BY <1>21, BeginAttemptWork
  <1>22. CASE NotStarted \/ BaseStale \/ Integrate
    BY <1>22, AttemptWork
  <1>23. CASE MoveBranch \/ RefuseMove
    BY <1>23, PublishWork
  <1>24. CASE Cleanup
    <2>1. Kept /\ Shrinks /\ down' = down /\ work' = Rest /\ At("cleanup")
      BY <1>2, <1>24 DEF Cleanup, Shrinks, OnBranch
    <2> QED BY <1>3, <2>1, GoOn
  <1>25. CASE FinishAttempt
    <2>1. Shrinks /\ down' = down /\ work' = Rest /\ At("finish")
      BY <1>25, Unmoved DEF FinishAttempt
    <2>2. work.app \in Apps
      BY <1>3, <2>1 DEF WorkSound, FinishSound, Open, Unfinished
    <2>3. journal'[work.app].finished = work.verdict
      BY <1>1, <1>25, <2>2 DEF FinishAttempt, Finish, Entries
    <2>4. JudgeSound'
      BY <1>1, <1>3, <2>1, RestWork DEF JudgeSound
    <2> QED BY <1>1, <1>3, <2>1, <2>3, <2>4, RestWork, TailSound
  <1>26. CASE Answer
    <2>1. Kept /\ Shrinks /\ down' = down /\ work' = Rest /\ At("answer")
      BY <1>2, <1>26, Unmoved DEF Answer
    <2> QED BY <1>3, <2>1, GoOn
  <1> QED BY <1>4, <1>5, <1>6, <1>7, <1>8, <1>9, <1>10, <1>11, <1>12, <1>13, <1>14, <1>15,
             <1>16, <1>17, <1>18, <1>19, <1>20, <1>21, <1>22, <1>23, <1>24, <1>25, <1>26
          DEF Handling
-----------------------------------------------------------------------------
(***************************************************************************)
(* The journal and the repository                                          *)
(***************************************************************************)
LEMMA EntryKept ==
    ASSUME NEW a \in Apps, EntrySound(a), Kept, Shrinks
    PROVE  EntrySound(a)'
  <1>1. (OnBranch(a)' => OnBranch(a)) /\ (Clean(a) => Clean(a)')
    BY DEF Shrinks, Clean
  <1> QED BY <1>1 DEF EntrySound, Kept, Shrinks

\* A step that writes one entry of the journal.
LEMMA EntryWritten ==
    ASSUME journal \in [Apps -> Entries], \A b \in Apps : EntrySound(b), Shrinks,
           NEW a \in Apps, NEW e, journal' = [journal EXCEPT ![a] = e], e.started,
           e.finished = "applied" => a \in published,
           e.finished = "failed" => ~OnBranch(a),
           e.finished = "none" /\ e.recovery = "not_started" => Clean(a)
    PROVE  \A b \in Apps : EntrySound(b)'
  <1> TAKE b \in Apps
  <1>1. (OnBranch(b)' => OnBranch(b)) /\ (Clean(b) => Clean(b)') /\ EntrySound(b)
    BY DEF Shrinks, Clean
  <1>2. CASE b = a
    <2>1. journal'[b] = e
      BY <1>2
    <2> QED BY <1>1, <1>2, <2>1 DEF EntrySound, Shrinks
  <1>3. CASE b # a
    <2>1. journal'[b] = journal[b]
      BY <1>3
    <2> QED BY <1>1, <2>1 DEF EntrySound, Shrinks
  <1> QED BY <1>2, <1>3

\* A result that is journalled stays, and so does a commit that was published.
FinishedStays ==
    /\ published \subseteq published'
    /\ \A a \in Apps : journal[a].finished # "none" => journal'[a].finished = journal[a].finished

LEMMA WrittenStays ==
    ASSUME journal \in [Apps -> Entries], published' = published, NEW a \in Apps, NEW e,
           journal' = [journal EXCEPT ![a] = e],
           journal[a].finished = "none" \/ e.finished = journal[a].finished
    PROVE  FinishedStays
  BY DEF FinishedStays

LEMMA KeptStays ==
    ASSUME Kept, published \subseteq published'
    PROVE  FinishedStays
  BY DEF Kept, FinishedStays

\* The steps that journal nothing about an application and touch no repository.
LEMMA CalmHandling ==
    ASSUME TypesSound,
           \/ TakeOffer \/ SendAck \/ SendHello \/ EndReport \/ Say \/ Mark \/ Transition
           \/ Consume \/ RefuseOffer \/ RefuseCommand \/ ReplayFinished \/ StartTerminal
           \/ BaseStale \/ RefuseMove \/ Cleanup \/ Answer \/ Relaunch
           \/ \E a \in Apps : Defer(a) \/ Report(a)
    PROVE  Kept /\ Shrinks
  <1>1. journal \in [Apps -> Entries]
    BY TypesSplit DEF DeviceTypes
  <1>2. CASE Mark
    <2>1. Kept
      BY <1>1, <1>2 DEF Mark, Kept, Entries
    <2> QED BY <1>2, <2>1, Unmoved DEF Mark
  <1>3. CASE Cleanup
    BY <1>3 DEF Cleanup, Shrinks, OnBranch, Kept
  <1>4. CASE \/ TakeOffer \/ SendAck \/ SendHello \/ EndReport \/ Say \/ Transition
             \/ Consume \/ RefuseOffer \/ RefuseCommand \/ ReplayFinished \/ StartTerminal
             \/ BaseStale \/ RefuseMove \/ Answer \/ Relaunch
             \/ \E a \in Apps : Defer(a) \/ Report(a)
    <2>1. UNCHANGED <<journal, repository, published>>
      BY <1>4 DEF TakeOffer, SendAck, SendHello, EndReport, Say, Transition, Consume,
                  RefuseOffer, RefuseCommand, ReplayFinished, StartTerminal, BaseStale, RefuseMove,
                  Answer, Relaunch, Defer, Report, device
    <2> QED BY <2>1, Unmoved DEF Kept
  <1> QED BY <1>2, <1>3, <1>4

\* The others.
LEMMA HandlingEntries ==
    ASSUME TypesSound, WorkSound, \A a \in Apps : EntrySound(a), Handling
    PROVE  (\A a \in Apps : EntrySound(a)') /\ FinishedStays
  <1>1. work.plan \in Seq(Steps) /\ journal \in [Apps -> Entries]
        /\ branch \in [Apps -> Seq({"app", "user"})]
    BY TypesSplit DEF DeviceTypes, RepositoryTypes, Works
  <1>2. \A s : At(s) => Within(s)
    BY <1>1, InHead DEF At, Within
  <1>3. ASSUME Kept, Shrinks
        PROVE  (\A a \in Apps : EntrySound(a)') /\ FinishedStays
    BY <1>3, EntryKept, KeptStays DEF Shrinks
  <1>4. \A a \in Apps : journal[a] \in Entries
    BY <1>1
  <1>5. \A a \in Apps : /\ Finish(journal[a], "applied").started = journal[a].started
                        /\ Finish(journal[a], "applied").finished = "applied"
                        /\ \A v : /\ Note(journal[a], v).started = journal[a].started
                                  /\ Note(journal[a], v).finished = journal[a].finished
                                  /\ Note(journal[a], v).recovery = v
    BY <1>4 DEF Finish, Note, Entries
  <1>6. ASSUME NEW a \in Apps, Recover(a)
        PROVE  (\A b \in Apps : EntrySound(b)') /\ FinishedStays
    <2> DEFINE e == IF Observed(a) = "applied" THEN Finish(journal[a], "applied")
                    ELSE Note(journal[a], Observed(a))
    <2>1. Shrinks /\ published' = published /\ journal' = [journal EXCEPT ![a] = e]
      BY <1>6, Unmoved DEF Recover
    <2>2. a \in Unfinished
      BY <1>6 DEF Recover, WorkSound, JudgeSound
    <2>3. journal[a].started /\ journal[a].finished = "none"
      BY <2>2 DEF Unfinished
    <2>4. /\ Observed(a) = "applied" => a \in published
          /\ Observed(a) = "not_started" => Clean(a)
      BY <2>3, Judged DEF EntrySound
    <2>5. /\ e.started /\ e.finished \in {"none", "applied"}
          /\ e.finished = "applied" => a \in published
          /\ e.finished = "none" /\ e.recovery = "not_started" => Clean(a)
      BY <1>5, <2>3, <2>4
    <2> HIDE DEF e
    <2>6. \A b \in Apps : EntrySound(b)'
      BY <1>1, <2>1, <2>5, EntryWritten
    <2>7. FinishedStays
      BY <1>1, <2>1, <2>3, WrittenStays
    <2> QED BY <2>6, <2>7
  <1>7. CASE FinishFound
    <2>1. PICK a : a = Head(down).app
      OBVIOUS
    <2>2. a \in Apps /\ Shrinks /\ published' = published /\ a \in Unfinished
          /\ journal' = [journal EXCEPT ![a] = Finish(journal[a], "applied")]
          /\ Observed(a) = "applied"
      BY <1>7, <2>1, HeadTypes, Unmoved DEF FinishFound, Commanded
    <2>3. journal[a].started /\ journal[a].finished = "none" /\ a \in published
      BY <2>2, Judged DEF Unfinished, EntrySound
    <2>4. \A b \in Apps : EntrySound(b)'
      BY <1>1, <1>5, <2>2, <2>3, EntryWritten
    <2>5. FinishedStays
      BY <1>1, <2>2, <2>3, WrittenStays
    <2> QED BY <2>4, <2>5
  <1>8. CASE AskForDecision
    <2>1. PICK a : a = Head(down).app
      OBVIOUS
    <2>2. a \in Apps /\ Shrinks /\ published' = published /\ a \in Unfinished
          /\ journal' = [journal EXCEPT ![a] = Note(journal[a], Observed(a))]
      BY <1>8, <2>1, HeadTypes, Unmoved DEF AskForDecision, Commanded
    <2>3. journal[a].started /\ journal[a].finished = "none"
      BY <2>2 DEF Unfinished
    <2>4. Observed(a) = "not_started" => Clean(a)
      BY <2>2, <2>3, Judged DEF EntrySound
    <2>5. PICK e : e = Note(journal[a], Observed(a))
      OBVIOUS
    <2>6. e.started /\ e.finished = "none" /\ e.recovery = Observed(a)
      BY <1>5, <2>2, <2>3, <2>5
    <2>7. \A b \in Apps : EntrySound(b)'
      BY <1>1, <2>2, <2>4, <2>5, <2>6, EntryWritten
    <2>8. FinishedStays
      BY <1>1, <2>2, <2>3, WrittenStays
    <2> QED BY <2>7, <2>8
  <1>9. CASE Start
    <2>1. PICK a : a = Head(down).app
      OBVIOUS
    <2>2. a \in Apps /\ Shrinks /\ published' = published
      BY <1>9, <2>1, HeadTypes, Unmoved DEF Start, Commanded
    <2>3. CASE journal[a].started
      <3>1. Kept
        BY <1>9, <2>1, <2>3 DEF Start, Kept
      <3> QED BY <1>3, <2>2, <3>1
    <2>4. CASE ~journal[a].started
      <3> DEFINE e == [NoEntry EXCEPT !.started = TRUE, !.original = Head(down).epoch]
      <3>1. journal' = [journal EXCEPT ![a] = e]
        BY <1>9, <2>1, <2>4 DEF Start
      <3>2. e.started /\ e.finished = "none" /\ e.recovery = "none"
        BY DEF NoEntry
      <3>3. journal[a].finished = "none"
        BY <2>2, <2>4 DEF EntrySound
      <3> HIDE DEF e
      <3>4. \A b \in Apps : EntrySound(b)'
        BY <1>1, <2>2, <3>1, <3>2, EntryWritten
      <3>5. FinishedStays
        BY <1>1, <2>2, <3>1, <3>3, WrittenStays
      <3> QED BY <3>4, <3>5
    <2> QED BY <2>3, <2>4
  <1>10. CASE BeginAttempt
    <2>1. PICK a : a = work.app
      OBVIOUS
    <2>2. /\ a \in Unfinished /\ a \in Apps /\ Shrinks /\ published' = published
          /\ journal' = [journal EXCEPT ![a] = Begin(journal[a])]
      BY <1>2, <1>10, <2>1, Unmoved DEF BeginAttempt, WorkSound, BeginSound, Unfinished
    <2>3. /\ Begin(journal[a]).started /\ Begin(journal[a]).finished = "none"
          /\ Begin(journal[a]).recovery = "none" /\ journal[a].finished = "none"
      BY <1>4, <2>2 DEF Begin, Entries, Unfinished
    <2>4. \A b \in Apps : EntrySound(b)'
      BY <1>1, <2>2, <2>3, EntryWritten
    <2>5. FinishedStays
      BY <1>1, <2>2, <2>3, WrittenStays
    <2> QED BY <2>4, <2>5
  <1>11. CASE NotStarted
    <2>1. PICK a : a = work.app
      OBVIOUS
    <2>2. /\ a \in Unfinished /\ a \in Apps /\ Clean(a) /\ Shrinks /\ published' = published
          /\ journal' = [journal EXCEPT ![a] = Note(journal[a], "not_started")]
      BY <1>2, <1>11, <2>1, Unmoved DEF NotStarted, WorkSound, AttemptSound, Open, Unfinished
    <2>3. journal[a].started /\ journal[a].finished = "none"
      BY <2>2 DEF Unfinished
    <2>4. \A b \in Apps : EntrySound(b)'
      BY <1>1, <1>5, <2>2, <2>3, EntryWritten
    <2>5. FinishedStays
      BY <1>1, <2>2, <2>3, WrittenStays
    <2> QED BY <2>4, <2>5
  <1>12. CASE Integrate
    <2>1. PICK a : a = work.app
      OBVIOUS
    <2>2. /\ Open(a) /\ a \in Apps /\ UNCHANGED <<branch, published, journal>>
          /\ worktree' = worktree \cup {a}
      BY <1>2, <1>12, <2>1 DEF Integrate, WorkSound, AttemptSound, Open, Unfinished
    <2>3. Kept /\ FinishedStays
      BY <2>2, KeptStays DEF Kept
    <2>4. ASSUME NEW b \in Apps PROVE EntrySound(b)'
      <3>1. (OnBranch(b)' <=> OnBranch(b)) /\ EntrySound(b)
        BY <2>2 DEF OnBranch
      <3>2. CASE b = a
        <4>1. journal[b].started /\ journal[b].finished = "none" /\ journal[b].recovery = "none"
          BY <2>2, <3>2 DEF Open, Unfinished
        <4> QED BY <2>2, <3>1, <4>1 DEF EntrySound
      <3>3. CASE b # a
        <4>1. Clean(b) => Clean(b)'
          BY <2>2, <3>1, <3>3 DEF Clean
        <4> QED BY <2>2, <3>1, <4>1 DEF EntrySound
      <3> QED BY <3>2, <3>3
    <2> QED BY <2>3, <2>4
  <1>13. CASE MoveBranch
    <2>1. PICK a : a = work.app
      OBVIOUS
    <2>2. /\ Open(a) /\ a \in Apps /\ UNCHANGED <<worktree, journal>>
          /\ branch' = [branch EXCEPT ![a] = <<"app">>] /\ published' = published \cup {a}
      BY <1>2, <1>13, <2>1 DEF MoveBranch, WorkSound, PublishSound, Open, Unfinished
    <2>3. Kept /\ FinishedStays
      BY <2>2, KeptStays DEF Kept
    <2>4. ASSUME NEW b \in Apps PROVE EntrySound(b)'
      <3>1. CASE b = a
        <4>1. journal[b].started /\ journal[b].finished = "none" /\ journal[b].recovery = "none"
          BY <2>2, <3>1 DEF Open, Unfinished
        <4> QED BY <2>2, <3>1, <4>1 DEF EntrySound
      <3>2. CASE b # a
        <4>1. branch'[b] = branch[b]
          BY <1>1, <2>2, <3>2
        <4>2. (OnBranch(b)' <=> OnBranch(b)) /\ EntrySound(b)
          BY <4>1 DEF OnBranch
        <4>3. Clean(b) => Clean(b)'
          BY <2>2, <4>2 DEF Clean
        <4> QED BY <2>2, <4>2, <4>3 DEF EntrySound
      <3> QED BY <3>1, <3>2
    <2> QED BY <2>3, <2>4
  <1>14. CASE FinishAttempt
    <2>1. PICK a : a = work.app
      OBVIOUS
    <2>2. /\ a \in Unfinished /\ a \in Apps /\ Shrinks /\ published' = published
          /\ journal' = [journal EXCEPT ![a] = Finish(journal[a], work.verdict)]
          /\ work.verdict \in Final /\ (work.verdict = "applied" => a \in published)
          /\ (work.verdict = "failed" => ~OnBranch(a))
      BY <1>2, <1>14, <2>1, Unmoved DEF FinishAttempt, WorkSound, FinishSound, Open, Unfinished
    <2>3. PICK e : e = Finish(journal[a], work.verdict)
      OBVIOUS
    <2>4. e.started /\ e.finished = work.verdict /\ journal[a].finished = "none"
      BY <1>4, <2>2, <2>3 DEF Finish, Entries, Unfinished
    <2>5. \A b \in Apps : EntrySound(b)'
      BY <1>1, <2>2, <2>3, <2>4, EntryWritten DEF Final
    <2>6. FinishedStays
      BY <1>1, <2>2, <2>4, WrittenStays
    <2> QED BY <2>5, <2>6
  <1> QED BY <1>3, <1>6, <1>7, <1>8, <1>9, <1>10, <1>11, <1>12, <1>13, <1>14, CalmHandling
          DEF Handling
-----------------------------------------------------------------------------
(***************************************************************************)
(* Frames and records                                                      *)
(***************************************************************************)
LEMMA FrameStays ==
    ASSUME FinishedStays, NEW f, FrameSound(f)
    PROVE  /\ f.kind = "result" => f.app \in Apps /\ f.verdict \in Final
                                   /\ journal'[f.app].finished = f.verdict
           /\ f.kind = "reconciled" => /\ f.app \in Apps /\ f.verdict \in Verdicts
                                       /\ f.verdict = "applied" => f.app \in published'
  BY DEF FrameSound, FinishedStays, Final

\* The frames on the way, when none is sent and when one is.
LEMMA FramesStay ==
    ASSUME up \in Seq(Frames), FramesSound, FinishedStays,
           up' = up \/ (up # <<>> /\ up' = Tail(up))
    PROVE  FramesSound'
  <1> SUFFICES ASSUME NEW i \in 1..Len(up') PROVE FrameSound(up[i])'
    BY DEF FramesSound
  <1>1. PICK k \in 1..Len(up) : up'[i] = up[k]
    <2>1. CASE up' = up
      BY <2>1
    <2>2. CASE up # <<>> /\ up' = Tail(up)
      <3>1. i + 1 \in 1..Len(up) /\ Tail(up)[i] = up[i + 1]
        BY <2>2
      <3> QED BY <2>2, <3>1
    <2> QED BY <2>1, <2>2
  <1>2. PICK f : f = up[k]
    OBVIOUS
  <1>3. FrameSound(f) /\ up'[i] = f
    BY <1>1, <1>2 DEF FramesSound
  <1> QED BY <1>3, FrameStays DEF FrameSound

LEMMA FrameSent ==
    ASSUME up \in Seq(Frames), FramesSound, FinishedStays, NEW f, up' = Append(up, f),
           f.kind = "result" => f.app \in Apps /\ f.verdict \in Final
                                /\ journal'[f.app].finished = f.verdict,
           f.kind = "reconciled" => /\ f.app \in Apps /\ f.verdict \in Verdicts
                                    /\ f.verdict = "applied" => f.app \in published'
    PROVE  FramesSound'
  <1> SUFFICES ASSUME NEW i \in 1..Len(up') PROVE FrameSound(up[i])'
    BY DEF FramesSound
  <1>1. /\ Len(up') = Len(up) + 1 /\ Len(up) \in Nat /\ up'[Len(up) + 1] = f
        /\ \A k \in 1..Len(up) : up'[k] = up[k]
    OBVIOUS
  <1>2. CASE i = Len(up) + 1
    BY <1>1, <1>2 DEF FrameSound
  <1>3. CASE i \in 1..Len(up)
    <2>1. PICK g : g = up[i]
      OBVIOUS
    <2>2. FrameSound(g) /\ up'[i] = g
      BY <1>1, <1>3, <2>1 DEF FramesSound
    <2> QED BY <2>2, FrameStays DEF FrameSound
  <1> QED BY <1>1, <1>2, <1>3

\* The stream to the server while the device works.
LEMMA HandlingFrames ==
    ASSUME TypesSound, WorkSound, FramesSound, FinishedStays, Handling
    PROVE  FramesSound' /\ (up' = up \/ \E f : up' = Append(up, f))
  <1>1. work.plan \in Seq(Steps) /\ up \in Seq(Frames)
    BY TypesSplit DEF DeviceTypes, StreamTypes, Works
  <1>2. \A s : At(s) => Within(s) /\ Head(work.plan) = s
    BY <1>1, InHead DEF At, Within
  <1>3. CASE up' = up
    BY <1>1, <1>3, FramesStay
  <1>4. CASE SendAck
    <2>1. PICK f : f = [kind |-> "ack", epoch |-> mirror]
      OBVIOUS
    <2>2. f.kind = "ack" /\ up' = Append(up, f)
      BY <1>4, <2>1 DEF SendAck
    <2> QED BY <1>1, <2>2, FrameSent
  <1>5. CASE SendHello
    <2>1. PICK f : f = [kind |-> "hello", instance |-> instance]
      OBVIOUS
    <2>2. f.kind = "hello" /\ up' = Append(up, f)
      BY <1>5, <2>1 DEF SendHello
    <2> QED BY <1>1, <2>2, FrameSent
  <1>6. CASE Say
    <2>1. PICK f : f = [kind |-> "reconciled", app |-> work.app, epoch |-> mirror,
                        original |-> journal[work.app].original, verdict |-> work.verdict]
      OBVIOUS
    <2>2. f.kind = "reconciled" /\ f.app = work.app /\ f.verdict = work.verdict
          /\ up' = Append(up, f)
      BY <1>6, <2>1 DEF Say
    <2>3. work.app \in Apps /\ work.verdict \in Verdicts
          /\ (work.verdict = "applied" => work.app \in published')
      BY <1>2, <1>6 DEF Say, WorkSound, SaySound, FinishedStays
    <2> QED BY <1>1, <2>2, <2>3, FrameSent
  <1>7. CASE Answer
    <2>1. PICK f : f = [kind |-> "result", app |-> work.app, epoch |-> mirror,
                        verdict |-> work.verdict]
      OBVIOUS
    <2>2. f.kind = "result" /\ f.app = work.app /\ f.verdict = work.verdict
          /\ up' = Append(up, f)
      BY <1>7, <2>1 DEF Answer
    <2>3. work.plan # Cleaning /\ work.plan # Ending
      BY <1>2, <1>7, Heads DEF Answer
    <2>4. work.app \in Apps /\ work.verdict \in Final /\ journal[work.app].finished = work.verdict
      BY <1>2, <1>7, <2>3 DEF Answer, WorkSound, AnswerSound
    <2>5. journal'[work.app].finished = work.verdict
      BY <2>4 DEF FinishedStays, Final
    <2> QED BY <1>1, <2>2, <2>4, <2>5, FrameSent
  <1> QED BY <1>3, <1>4, <1>5, <1>6, <1>7
          DEF Handling, TakeOffer, Recover, Defer, Report, EndReport, Mark, Transition, Consume,
              RefuseOffer, RefuseCommand, ReplayFinished, FinishFound, AskForDecision, Start,
              StartTerminal, BeginAttempt, NotStarted, BaseStale, Integrate, MoveBranch,
              RefuseMove, Cleanup, FinishAttempt

\* The records of the server, while the device or the user works.
LEMMA RecordsStay ==
    ASSUME up \in Seq(Frames), HalfwaySound, \A a \in Apps : RecordSound(a), FinishedStays,
           UNCHANGED <<receipt, row, candidate, halfway>>,
           up' = up \/ \E f : up' = Append(up, f)
    PROVE  HalfwaySound' /\ \A a \in Apps : RecordSound(a)'
  <1>1. \A a \in Apps : RecordSound(a)'
    BY DEF RecordSound, FinishedStays
  <1>2. up # <<>> => up' # <<>> /\ Head(up') = Head(up)
    <2>1. CASE up' = up
      BY <2>1
    <2>2. CASE \E f : up' = Append(up, f)
      <3>1. PICK f : up' = Append(up, f)
        BY <2>2
      <3> QED BY <3>1
    <2> QED BY <2>1, <2>2
  <1>3. HalfwaySound'
    BY <1>2 DEF HalfwaySound, Frame
  <1> QED BY <1>1, <1>3

LEMMA RequestRecords ==
    ASSUME TypesSound, HalfwaySound, \A a \in Apps : RecordSound(a), Requests
    PROVE  HalfwaySound' /\ \A a \in Apps : RecordSound(a)'
  <1>1. UNCHANGED <<receipt, halfway, up, journal, published>> /\ row \in [Apps -> Rows]
    BY TypesSplit
       DEF Requests, Claim, Release, PrepareApply, Publish, Discard, device, ServerTypes
  <1>2. HalfwaySound'
    BY <1>1 DEF HalfwaySound, Frame
  <1>3. Terminal(candidate) => Terminal(candidate)'
    BY DEF Requests, Claim, Release, PrepareApply, Publish, Discard, Terminal
  <1>4. \A a \in Apps : row'[a].result \in {"none", row[a].result}
    <2>1. CASE row' = row
      BY <2>1
    <2>2. ASSUME NEW b \in Apps, Publish(b)
          PROVE  \A a \in Apps : row'[a].result \in {"none", row[a].result}
      <3>1. row[b] \in Rows
        BY <1>1
      <3>2. Granted(b).result \in {"none", row[b].result}
        BY <3>1 DEF Granted, NoRow, Rows
      <3>3. row' = [row EXCEPT ![b] = Granted(b)]
        BY <2>2 DEF Publish
      <3> HIDE DEF Granted
      <3> QED BY <1>1, <3>2, <3>3
    <2> QED BY <2>1, <2>2 DEF Requests, Claim, Release, PrepareApply, Discard
  <1>5. \A a \in Apps : RecordSound(a)'
    BY <1>1, <1>3, <1>4 DEF RecordSound
  <1> QED BY <1>2, <1>5

LEMMA ExchangeRecords ==
    ASSUME TypesSound, FramesSound, HalfwaySound,
           \A a \in Apps : EntrySound(a) /\ RecordSound(a), Exchange
    PROVE  HalfwaySound' /\ \A a \in Apps : RecordSound(a)'
  <1>1. /\ UNCHANGED <<journal, published>> /\ row \in [Apps -> Rows]
        /\ receipt \in [Apps -> Results] /\ halfway \in BOOLEAN /\ up \in Seq(Frames)
    BY TypesSplit
       DEF Exchange, TakeHello, TakeAck, RecordReceipt, SettleRow, ServerFails, NoteOutcome,
           PassOver, device, ServerTypes, StreamTypes
  <1>2. up # <<>> => FrameSound(Frame)
    <2>1. up # <<>> => 1 \in 1..Len(up) /\ Head(up) = up[1]
      BY <1>1
    <2> QED BY <2>1 DEF FramesSound, Frame, FrameSound
  <1>3. ASSUME UNCHANGED <<receipt, candidate>>,
               \A a \in Apps : row'[a].result = row[a].result
        PROVE  \A a \in Apps : RecordSound(a)'
    BY <1>1, <1>3 DEF RecordSound, Terminal
  <1>4. CASE TakeHello \/ TakeAck \/ PassOver
    <2>1. ~halfway'
      BY <1>1, <1>4 DEF TakeHello, TakeAck, PassOver, HalfwaySound
    <2>2. UNCHANGED <<receipt, candidate, row>>
      BY <1>4 DEF TakeHello, TakeAck, PassOver
    <2> QED BY <1>3, <2>1, <2>2 DEF HalfwaySound
  <1>5. CASE ServerFails
    BY <1>3, <1>5 DEF ServerFails, HalfwaySound
  <1>6. CASE NoteOutcome
    <2>1. Incoming /\ Frame.kind = "reconciled" /\ Frame.verdict # "applied"
          /\ UNCHANGED <<receipt, candidate, halfway>>
      BY <1>6 DEF NoteOutcome, Notes
    <2>2. Frame.app \in Apps /\ Frame.verdict \in Verdicts
      BY <1>2, <2>1 DEF FrameSound, Incoming
    <2>3. ~halfway'
      BY <2>1, <2>2 DEF HalfwaySound, Final, Verdicts
    <2>4. \A a \in Apps : row'[a].result = row[a].result
      BY <1>1, <1>6, <2>2 DEF NoteOutcome, Rows
    <2> QED BY <1>3, <2>1, <2>3, <2>4 DEF HalfwaySound
  <1>7. CASE RecordReceipt
    <2>1. PICK a : a = Frame.app
      OBVIOUS
    <2>2. PICK v : v = Frame.verdict
      OBVIOUS
    <2>3. /\ up # <<>> /\ Frame.kind \in {"result", "reconciled"} /\ Settles(Frame)
          /\ receipt[a] \in {"none", v} /\ receipt' = [receipt EXCEPT ![a] = v]
          /\ candidate' = IF receipt[a] # "none" \/ Terminal(candidate) THEN candidate ELSE v
          /\ row' = row /\ up' = up
      BY <1>7, <2>1, <2>2 DEF RecordReceipt, Incoming
    <2>4. /\ a \in Apps /\ v \in Final /\ (v = "applied" => a \in published)
          /\ (v = "failed" => journal[a].finished = "failed")
      <3>1. CASE Frame.kind = "result"
        <4>1. Frame.app \in Apps /\ Frame.verdict \in Final
          BY <2>3, HeadTypes, <3>1 DEF Frame
        <4>2. journal[a].finished = v
          BY <1>2, <2>1, <2>2, <2>3, <3>1 DEF FrameSound
        <4>3. v = "applied" => a \in published
          BY <2>1, <2>2, <4>1, <4>2 DEF EntrySound
        <4> QED BY <2>1, <2>2, <4>1, <4>2, <4>3
      <3>2. CASE Frame.kind = "reconciled"
        <4>1. v = "applied"
          BY <2>2, <2>3, <3>2 DEF Settles
        <4>2. a \in Apps /\ a \in published
          BY <1>2, <2>1, <2>2, <2>3, <3>2, <4>1 DEF FrameSound
        <4> QED BY <4>1, <4>2 DEF Final
      <3> QED BY <2>3, <3>1, <3>2
    <2>5. Terminal(candidate) => Terminal(candidate')
      BY <2>3
    <2>6. HalfwaySound'
      BY <1>1, <1>7, <2>1, <2>2, <2>3, <2>4 DEF HalfwaySound, RecordReceipt, Frame
    <2>7. ASSUME NEW b \in Apps PROVE RecordSound(b)'
      <3>1. RecordSound(b)
        OBVIOUS
      <3>2. CASE b = a
        <4>1. receipt'[b] = v
          BY <1>1, <2>3, <3>2
        <4>2. v = "applied" => Terminal(candidate')
          BY <2>3, <3>1, <3>2 DEF RecordSound, Terminal
        <4>3. row[b].result # "none" => v = row[b].result
          BY <2>3, <3>1, <3>2 DEF RecordSound
        <4> QED BY <1>1, <2>3, <2>4, <3>2, <4>1, <4>2, <4>3 DEF RecordSound, Terminal
      <3>3. CASE b # a
        <4>1. receipt'[b] = receipt[b]
          BY <1>1, <2>3, <3>3
        <4> QED BY <1>1, <2>3, <2>5, <3>1, <4>1 DEF RecordSound, Terminal
      <3> QED BY <3>2, <3>3
    <2> QED BY <2>6, <2>7
  <1>8. CASE SettleRow
    <2>1. /\ ~halfway' /\ UNCHANGED <<receipt, candidate>>
      BY <1>8 DEF SettleRow
    <2>2. /\ Frame.app \in Apps /\ receipt[Frame.app] = Frame.verdict
      BY <1>2, <1>8 DEF SettleRow, HalfwaySound, FrameSound
    <2>3. ASSUME NEW b \in Apps PROVE RecordSound(b)'
      <3>1. row'[b].result = row[b].result \/ (b = Frame.app /\ row'[b].result = Frame.verdict)
        BY <1>1, <1>8, <2>2 DEF SettleRow, Rows
      <3> QED BY <1>1, <2>1, <2>2, <3>1 DEF RecordSound, Terminal
    <2> QED BY <2>1, <2>3 DEF HalfwaySound
  <1> QED BY <1>4, <1>5, <1>6, <1>7, <1>8 DEF Exchange
-----------------------------------------------------------------------------
(***************************************************************************)
(* The invariant and what follows from it                                  *)
(***************************************************************************)
LEMMA InitSound == ASSUME Init PROVE IInv
  <1> USE ApplicationBounds
  <1>1. TypesSound
    <2>1. ServerTypes
      <3>1. NoRow \in Rows /\ NoRequest \in [epoch : Epochs, instance : Instances]
        BY DEF NoRow, Rows, NoRequest, Epochs, Instances, Results
      <3>2. 0 \in Epochs /\ 1 \in Instances /\ 0 \in 0..MaxPublish /\ "none" \in Results
        BY DEF Epochs, Instances, Results
      <3>3. row \in [Apps -> Rows] /\ receipt \in [Apps -> Results]
        BY <3>1, <3>2 DEF Init
      <3> QED BY <3>1, <3>2, <3>3 DEF Init, ServerTypes
    <2>2. StreamTypes
      BY DEF Init, StreamTypes
    <2>3. DeviceTypes
      <3>1. NoEntry \in Entries /\ Idle \in Works
        BY PlanTypes DEF NoEntry, Entries, Epochs, Results, Idle, Works, Verdicts
      <3> QED BY <3>1 DEF Init, DeviceTypes, Epochs, Instances
    <2>4. RepositoryTypes
      <3>1. <<>> \in Seq({"app", "user"}) /\ 0 \in 0..MaxUser
        OBVIOUS
      <3>2. branch \in [Apps -> Seq({"app", "user"})]
        BY <3>1 DEF Init
      <3> QED BY <3>1, <3>2 DEF Init, RepositoryTypes
    <2> QED BY <2>1, <2>2, <2>3, <2>4, TypesSplit
  <1>2. WorkSound
    <2>1. work = Idle /\ work.plan = <<>> /\ work.todo = {} /\ \A s : ~Within(s)
      BY IdleWork DEF Init
    <2>2. JudgeSound /\ OrderSound
      BY <2>1, OrderedShort DEF JudgeSound, OrderSound
    <2> QED BY <2>1, <2>2 DEF WorkSound, AckSound, ConsumeSound, BeginSound, AttemptSound,
            PublishSound, FinishSound, AnswerSound, SaySound, MarkSound, TransitionSound
  <1>3. FramesSound /\ HalfwaySound
    BY DEF Init, FramesSound, HalfwaySound
  <1>4. ASSUME NEW a \in Apps PROVE EntrySound(a) /\ RecordSound(a)
    <2>1. ~OnBranch(a) /\ Clean(a)
      BY DEF Init, OnBranch, Clean
    <2>2. journal[a] = NoEntry /\ receipt[a] = "none" /\ row[a] = NoRow
      BY DEF Init
    <2> QED BY <2>1, <2>2 DEF EntrySound, RecordSound, NoEntry, NoRow
  <1> QED BY <1>1, <1>2, <1>3, <1>4 DEF IInv

LEMMA UserShrinks ==
    ASSUME TypesSound, User
    PROVE  Shrinks
  <1>1. worktree' = worktree /\ published' = published
        /\ branch \in [Apps -> Seq({"app", "user"})]
    BY TypesSplit DEF User, CommitToBranch, RewindBranch, EditWorkingTree, RepositoryTypes
  <1>2. ASSUME NEW a \in Apps, NEW b \in Apps, CommitToBranch(b) \/ RewindBranch(b), OnBranch(a)'
        PROVE  OnBranch(a)
    <2>1. PICK i \in DOMAIN branch'[a] : branch'[a][i] = "app"
      BY <1>2 DEF OnBranch
    <2>2. CASE branch'[a] = branch[a]
      BY <2>1, <2>2 DEF OnBranch
    <2>3. CASE branch'[a] = <<>>
      BY <2>1, <2>3
    <2>4. CASE branch'[a] = Append(branch[a], "user")
      <3>1. branch[a] \in Seq({"app", "user"})
        BY <1>1
      <3>2. i \in 1..(Len(branch[a]) + 1) /\ Len(branch[a]) \in Nat
        BY <2>1, <2>4, <3>1
      <3>3. i # Len(branch[a]) + 1
        BY <2>1, <2>4, <3>1
      <3>4. i \in 1..Len(branch[a])
        BY <3>2, <3>3
      <3>5. branch[a][i] = "app" /\ i \in DOMAIN branch[a]
        BY <2>1, <2>4, <3>1, <3>4
      <3> QED BY <3>5 DEF OnBranch
    <2> QED BY <1>1, <1>2, <2>2, <2>3, <2>4 DEF CommitToBranch, RewindBranch
  <1>3. CASE EditWorkingTree
    BY <1>1, <1>3 DEF EditWorkingTree, Shrinks, OnBranch
  <1> QED BY <1>1, <1>2, <1>3 DEF User, Shrinks

LEMMA StepSound ==
    ASSUME IInv, [Next]_vars
    PROVE  IInv'
  <1> USE DEF IInv
  <1>1. /\ TypesSound /\ WorkSound /\ FramesSound /\ HalfwaySound /\ up \in Seq(Frames)
        /\ \A a \in Apps : EntrySound(a) /\ RecordSound(a)
    BY DEF TypesSound
  <1>2. UNCHANGED journal => Kept
    BY DEF Kept
  <1>3. ASSUME Kept, Shrinks
        PROVE  (\A a \in Apps : EntrySound(a)') /\ FinishedStays
    BY <1>1, <1>3, EntryKept, KeptStays DEF Shrinks
  <1>4. CASE Requests
    <2>1. /\ UNCHANGED <<device, repository, published, up>>
          /\ down # <<>> => down' # <<>>
      <3>1. ASSUME NEW x, down' = Append(down, x) PROVE down' # <<>>
        <4>1. down \in Seq(Commands)
          BY <1>1 DEF TypesSound
        <4> QED BY <3>1, <4>1
      <3> QED BY <1>4, <3>1 DEF Requests, Claim, Release, PrepareApply, Publish, Discard
    <2>2. Kept /\ Shrinks /\ work' = work
      BY <1>2, <2>1, Unmoved DEF device
    <2>3. TypesSound'
      BY <1>1, <1>4, RequestTypes
    <2>4. WorkSound'
      BY <1>1, <2>1, <2>2, StillSound
    <2>5. (\A a \in Apps : EntrySound(a)') /\ FramesSound'
      BY <1>1, <1>3, <2>1, <2>2, FramesStay
    <2>6. HalfwaySound' /\ \A a \in Apps : RecordSound(a)'
      BY <1>1, <1>4, RequestRecords
    <2> QED BY <2>3, <2>4, <2>5, <2>6
  <1>5. CASE Handling
    <2>1. TypesSound' /\ WorkSound'
      BY <1>1, <1>5, HandlingTypes, HandlingWork
    <2>2. (\A a \in Apps : EntrySound(a)') /\ FinishedStays
      BY <1>1, <1>5, HandlingEntries
    <2>3. FramesSound' /\ (up' = up \/ \E f : up' = Append(up, f))
      BY <1>1, <1>5, <2>2, HandlingFrames
    <2>4. UNCHANGED server
      BY <1>5 DEF Handling, TakeOffer, SendAck, SendHello, Recover, Defer, Report, EndReport,
                  Say, Mark, Transition, Consume, RefuseOffer, RefuseCommand, ReplayFinished,
                  FinishFound, AskForDecision, Start, StartTerminal, BeginAttempt, NotStarted,
                  BaseStale, Integrate, MoveBranch, RefuseMove, Cleanup, FinishAttempt, Answer
    <2>5. UNCHANGED <<receipt, row, candidate, halfway>>
      BY <2>4 DEF server
    <2>6. HalfwaySound' /\ \A a \in Apps : RecordSound(a)'
      BY <1>1, <2>2, <2>3, <2>5, RecordsStay
    <2> QED BY <2>1, <2>2, <2>3, <2>6
  <1>6. CASE Relaunch
    <2>1. Kept /\ Shrinks
      BY <1>1, <1>6, CalmHandling
    <2>2. TypesSound' /\ WorkSound'
      BY <1>1, <1>6, RelaunchTypes, RelaunchWork
    <2>3. UNCHANGED <<receipt, row, candidate, halfway, up>>
      BY <1>6 DEF Relaunch, server
    <2>4. (\A a \in Apps : EntrySound(a)') /\ FinishedStays
      BY <1>3, <2>1
    <2>5. FramesSound'
      BY <1>1, <2>3, <2>4, FramesStay
    <2>6. HalfwaySound' /\ \A a \in Apps : RecordSound(a)'
      BY <1>1, <2>3, <2>4, RecordsStay
    <2> QED BY <2>2, <2>4, <2>5, <2>6
  <1>7. CASE User
    <2>1. UNCHANGED <<server, down, up, device>>
      BY <1>7 DEF User, CommitToBranch, RewindBranch, EditWorkingTree
    <2>2. Kept /\ Shrinks /\ work' = work
      BY <1>1, <1>2, <1>7, <2>1, UserShrinks DEF device
    <2>3. TypesSound'
      BY <1>1, <1>7, UserTypes
    <2>4. WorkSound'
      BY <1>1, <2>1, <2>2, StillSound
    <2>5. (\A a \in Apps : EntrySound(a)') /\ FinishedStays
      BY <1>3, <2>2
    <2>6. FramesSound'
      BY <1>1, <2>1, <2>5, FramesStay
    <2>7. UNCHANGED <<receipt, row, candidate, halfway>>
      BY <2>1 DEF server
    <2>8. HalfwaySound' /\ \A a \in Apps : RecordSound(a)'
      BY <1>1, <2>1, <2>5, <2>7, RecordsStay
    <2> QED BY <2>3, <2>4, <2>5, <2>6, <2>8
  <1>8. CASE Exchange
    <2>1. UNCHANGED <<down, device, repository, published>>
      BY <1>8 DEF Exchange, TakeHello, TakeAck, RecordReceipt, SettleRow, ServerFails,
                  NoteOutcome, PassOver
    <2>2. Kept /\ Shrinks /\ work' = work
      BY <1>2, <2>1, Unmoved DEF device
    <2>3. TypesSound'
      BY <1>1, <1>8, ExchangeTypes
    <2>4. WorkSound'
      BY <1>1, <2>1, <2>2, StillSound
    <2>5. up' = up \/ (up # <<>> /\ up' = Tail(up))
      BY <1>1, <1>8 DEF Exchange, TakeHello, TakeAck, RecordReceipt, SettleRow, ServerFails,
             NoteOutcome, PassOver, Incoming, HalfwaySound
    <2>6. (\A a \in Apps : EntrySound(a)') /\ FinishedStays
      BY <1>3, <2>2
    <2>7. FramesSound'
      BY <1>1, <2>5, <2>6, FramesStay
    <2>8. HalfwaySound' /\ \A a \in Apps : RecordSound(a)'
      BY <1>1, <1>8, ExchangeRecords
    <2> QED BY <2>3, <2>4, <2>6, <2>7, <2>8
  <1>9. CASE UNCHANGED vars
    <2>1. UNCHANGED <<server, down, up, device, repository, published, touched>>
      BY <1>9 DEF vars
    <2>2. Kept /\ Shrinks /\ work' = work
      BY <1>2, <2>1, Unmoved DEF device
    <2>3. TypesSound'
      <3>1. ServerTypes /\ StreamTypes /\ DeviceTypes /\ RepositoryTypes
        BY <1>1, TypesSplit
      <3>2. ServerTypes'
        BY <2>1, <3>1 DEF ServerTypes, server
      <3>3. StreamTypes' /\ DeviceTypes' /\ RepositoryTypes'
        BY <2>1, <3>1 DEF StreamTypes, DeviceTypes, RepositoryTypes, device, repository
      <3> QED BY <3>2, <3>3, TypesJoin
    <2>4. WorkSound'
      BY <1>1, <2>1, <2>2, StillSound
    <2>5. (\A a \in Apps : EntrySound(a)') /\ FinishedStays
      BY <1>3, <2>2
    <2>6. FramesSound'
      BY <1>1, <2>1, <2>5, FramesStay
    <2>7. UNCHANGED <<receipt, row, candidate, halfway>>
      BY <2>1 DEF server
    <2>8. HalfwaySound' /\ \A a \in Apps : RecordSound(a)'
      BY <1>1, <2>1, <2>5, <2>7, RecordsStay
    <2> QED BY <2>3, <2>4, <2>5, <2>6, <2>8
  <1> QED BY <1>4, <1>5, <1>6, <1>7, <1>8, <1>9 DEF Next

\* The invariant holds in every reachable state.
THEOREM ApplicationInvariance == Spec => []IInv
  <1>1. Init => IInv
    BY InitSound
  <1>2. IInv /\ [Next]_vars => IInv'
    BY StepSound
  <1> QED BY <1>1, <1>2, PTL DEF Spec

\* Every variable keeps its type, and no bound of the streams is exceeded.
THEOREM ApplicationTypes == Spec => []TypeOK
  <1>1. IInv => TypeOK
    BY DEF IInv, TypesSound
  <1> QED BY <1>1, ApplicationInvariance, PTL

\* What the server records is true: applied only what was put on the branch, failed
\* only what the branch does not hold, although reports are lost, repeated and
\* overtaken by a new lease (settle_candidate_apply_result,
\* settle_application_reconciled).
THEOREM SettlementIsTrue == Spec => []SettledIsTrue
  <1>1. IInv => SettledIsTrue
    <2> SUFFICES ASSUME IInv, NEW a \in Apps
                 PROVE  /\ "applied" \in {receipt[a], row[a].result} => a \in published
                        /\ "failed" \in {receipt[a], row[a].result} => ~OnBranch(a)
      BY DEF SettledIsTrue
    <2>1. EntrySound(a) /\ RecordSound(a)
      BY DEF IInv
    <2> QED BY <2>1 DEF EntrySound, RecordSound
  <1> QED BY <1>1, ApplicationInvariance, PTL

\* A journalled not_started, the permission to try again, is never outdated
\* (note_recovery_outcome, begin_application_attempt).
THEOREM PermissionIsTrue == Spec => []NotStartedIsTrue
  <1>1. IInv => NotStartedIsTrue
    BY DEF IInv, NotStartedIsTrue, EntrySound, Unfinished, Clean
  <1> QED BY <1>1, ApplicationInvariance, PTL

\* The receipt, the row and the candidate agree between the transactions that write
\* them (record_reconciled_apply_result, settle_candidate_application).
THEOREM ServerRecordsAgree == Spec => []RecordsAgree
  <1>1. IInv => RecordsAgree
    BY DEF IInv, RecordsAgree, RecordSound
  <1> QED BY <1>1, ApplicationInvariance, PTL
-----------------------------------------------------------------------------
(***************************************************************************)
(* An outcome that is unknown                                              *)
(***************************************************************************)
Doubtful(a) == a \in Unfinished /\ journal[a].recovery = "outcome_unknown"

\* What a step may do while the outcome of a is unknown.
Blocks(a) ==
    /\ worktree' \subseteq worktree
    /\ \/ journal'[a].finished = "none" /\ journal'[a].recovery = "outcome_unknown"
       \/ journal'[a].finished = "applied" /\ OnBranch(a)

LEMMA DoubtKept ==
    ASSUME NEW a, Doubtful(a), worktree' \subseteq worktree,
           \/ Kept
           \/ \E b \in Apps \ {a} : \E e : journal' = [journal EXCEPT ![b] = e],
           journal \in [Apps -> Entries]
    PROVE  Blocks(a)
  <1>1. a \in Apps /\ journal[a].finished = "none" /\ journal[a].recovery = "outcome_unknown"
    BY DEF Doubtful, Unfinished
  <1>2. CASE Kept
    BY <1>1, <1>2 DEF Kept, Blocks
  <1>3. CASE \E b \in Apps \ {a} : \E e : journal' = [journal EXCEPT ![b] = e]
    <2>1. journal'[a] = journal[a]
      BY <1>1, <1>3
    <2> QED BY <1>1, <2>1 DEF Blocks
  <1> QED BY <1>2, <1>3

\* Looking at the repository again ends the doubt only if the commit is found.
LEMMA DoubtJudged ==
    ASSUME NEW a, Doubtful(a), worktree' = worktree, journal \in [Apps -> Entries],
           \/ /\ Observed(a) = "applied"
              /\ journal' = [journal EXCEPT ![a] = Finish(journal[a], "applied")]
           \/ /\ Observed(a) # "applied"
              /\ journal' = [journal EXCEPT ![a] = Note(journal[a], Observed(a))]
    PROVE  Blocks(a)
  <1>1. /\ a \in Apps /\ journal[a].finished = "none" /\ journal[a].recovery = "outcome_unknown"
        /\ journal[a] \in Entries
    BY DEF Doubtful, Unfinished
  <1>2. CASE Observed(a) = "applied"
    <2>1. OnBranch(a)
      BY <1>1, <1>2, Judged
    <2>2. journal'[a].finished = "applied"
      BY <1>1, <1>2 DEF Finish, Entries
    <2> QED BY <2>1, <2>2 DEF Blocks
  <1>3. CASE Observed(a) # "applied"
    <2>1. Observed(a) = "outcome_unknown"
      BY <1>1, <1>3, Judged
    <2>2. journal'[a].finished = "none" /\ journal'[a].recovery = "outcome_unknown"
      <3>1. journal'[a] = Note(journal[a], "outcome_unknown")
        BY <1>1, <1>3, <2>1
      <3> QED BY <1>1, <3>1 DEF Note, Entries
    <2> QED BY <2>2 DEF Blocks
  <1> QED BY <1>2, <1>3

LEMMA DoubtStep ==
    ASSUME IInv, [Next]_vars, NEW a, Doubtful(a)
    PROVE  Blocks(a)
  <1>1. /\ TypesSound /\ WorkSound /\ journal \in [Apps -> Entries] /\ a \in Apps
        /\ work.plan \in Seq(Steps) /\ ~NoneInDoubt
    BY TypesSplit
       DEF IInv, DeviceTypes, Works, Doubtful, Unfinished, NoneInDoubt
  <1>2. UNCHANGED journal => Kept
    BY DEF Kept
  <1>3. \A s : At(s) => Within(s)
    BY <1>1, InHead DEF At, Within
  <1>4. ASSUME Kept, worktree' \subseteq worktree
        PROVE  Blocks(a)
    BY <1>1, <1>4, DoubtKept
  <1>5. ASSUME NEW b \in Apps \ {a}, NEW e, journal' = [journal EXCEPT ![b] = e],
               worktree' = worktree
        PROVE  Blocks(a)
    BY <1>1, <1>5, DoubtKept
  <1>6. CASE Requests \/ Exchange \/ User \/ UNCHANGED vars
    <2>1. journal' = journal /\ worktree' = worktree
      <3>1. CASE Requests
        BY <3>1 DEF Requests, Claim, Release, PrepareApply, Publish, Discard, device, repository
      <3>2. CASE Exchange
        BY <3>2 DEF Exchange, TakeHello, TakeAck, RecordReceipt, SettleRow, ServerFails,
                    NoteOutcome, PassOver, device, repository
      <3>3. CASE User
        BY <3>3 DEF User, CommitToBranch, RewindBranch, EditWorkingTree, device
      <3>4. CASE UNCHANGED vars
        BY <3>4 DEF vars, device, repository
      <3> QED BY <1>6, <3>1, <3>2, <3>3, <3>4
    <2> QED BY <1>2, <1>4, <2>1
  <1>7. CASE \/ TakeOffer \/ SendAck \/ SendHello \/ EndReport \/ Say \/ Mark \/ Transition
             \/ Consume \/ RefuseOffer \/ RefuseCommand \/ ReplayFinished \/ StartTerminal
             \/ BaseStale \/ RefuseMove \/ Cleanup \/ Answer \/ Relaunch
             \/ \E b \in Apps : Defer(b) \/ Report(b)
    BY <1>1, <1>4, <1>7, CalmHandling DEF Shrinks
  <1>8. ASSUME NEW b \in Apps, Recover(b)
        PROVE  Blocks(a)
    <2>1. /\ worktree' = worktree
          /\ journal' = [journal EXCEPT ![b] =
               IF Observed(b) = "applied" THEN Finish(journal[b], "applied")
               ELSE Note(journal[b], Observed(b))]
      BY <1>8 DEF Recover, repository
    <2>2. CASE b = a
      BY <1>1, <2>1, <2>2, DoubtJudged
    <2> QED BY <1>5, <2>1, <2>2
  <1>9. CASE FinishFound
    <2>1. PICK b : b = Head(down).app
      OBVIOUS
    <2>2. /\ b \in Apps /\ worktree' = worktree /\ Observed(b) = "applied"
          /\ journal' = [journal EXCEPT ![b] = Finish(journal[b], "applied")]
      BY <1>1, <1>9, <2>1, HeadTypes DEF FinishFound, Commanded, repository
    <2>3. CASE b = a
      BY <1>1, <2>2, <2>3, DoubtJudged
    <2> QED BY <1>5, <2>2, <2>3
  <1>10. CASE AskForDecision
    <2>1. PICK b : b = Head(down).app
      OBVIOUS
    <2>2. /\ b \in Apps /\ worktree' = worktree /\ Observed(b) # "applied"
          /\ journal' = [journal EXCEPT ![b] = Note(journal[b], Observed(b))]
      BY <1>1, <1>10, <2>1, HeadTypes DEF AskForDecision, Commanded, repository
    <2>3. CASE b = a
      BY <1>1, <2>2, <2>3, DoubtJudged
    <2> QED BY <1>5, <2>2, <2>3
  <1>11. CASE Start
    <2>1. PICK b : b = Head(down).app
      OBVIOUS
    <2>2. b \in Apps /\ worktree' = worktree
      BY <1>1, <1>11, <2>1, HeadTypes DEF Start, Commanded, repository
    <2>3. CASE journal' = journal
      BY <1>2, <1>4, <2>2, <2>3
    <2>4. CASE journal' # journal
      <3>1. ~journal[b].started
        BY <1>11, <2>1, <2>4 DEF Start
      <3>2. b # a
        BY <3>1 DEF Doubtful, Unfinished
      <3>3. PICK e : e = [NoEntry EXCEPT !.started = TRUE, !.original = Head(down).epoch]
        OBVIOUS
      <3>4. journal' = [journal EXCEPT ![b] = e]
        BY <1>11, <2>1, <3>1, <3>3 DEF Start
      <3> QED BY <1>5, <2>2, <3>2, <3>4
    <2> QED BY <2>3, <2>4
  <1>12. ~BeginAttempt /\ ~NotStarted /\ ~Integrate
    BY <1>1, <1>3
       DEF BeginAttempt, NotStarted, Integrate, WorkSound, BeginSound, AttemptSound
  <1>13. CASE MoveBranch
    BY <1>2, <1>4, <1>13 DEF MoveBranch
  <1>14. CASE FinishAttempt
    <2>1. PICK b : b = work.app
      OBVIOUS
    <2>2. Open(b) /\ b \in Apps /\ worktree' = worktree
          /\ journal' = [journal EXCEPT ![b] = Finish(journal[b], work.verdict)]
      BY <1>1, <1>3, <1>14, <2>1
         DEF FinishAttempt, WorkSound, FinishSound, Open, Unfinished, repository
    <2>3. b # a
      BY <2>2 DEF Open, Doubtful
    <2> QED BY <1>5, <2>2, <2>3
  <1> QED BY <1>6, <1>7, <1>8, <1>9, <1>10, <1>11, <1>12, <1>13, <1>14 DEF Next, Handling

\* While the outcome of an application is unknown the device starts no work for the
\* candidate, and only the commit, found on the branch, ends the doubt
\* (blocked_application, recover_started_applications).
THEOREM DoubtBlocks == Spec => UnknownBlocks
  <1>1. ASSUME IInv, [Next]_vars
        PROVE  [\A a \in Unfinished : journal[a].recovery = "outcome_unknown" =>
                  /\ worktree' \subseteq worktree
                  /\ \/ journal'[a].finished = "none" /\ journal'[a].recovery = "outcome_unknown"
                     \/ journal'[a].finished = "applied" /\ OnBranch(a)]_vars
    BY <1>1, DoubtStep DEF Doubtful, Blocks
  <1> QED BY <1>1, ApplicationInvariance, PTL DEF Spec, UnknownBlocks
=============================================================================
