------------------------ MODULE ApplicationInvariant ------------------------
(***************************************************************************)
(* The inductive invariant behind the theorems of ApplicationProofs: what  *)
(* the journal, a handler that is under way, the frames of the device and  *)
(* the records of the server say about the repository.                     *)
(***************************************************************************)
EXTENDS CandidateApplication

Final == {"applied", "failed"}

Frames ==
    [kind : {"ack"}, epoch : Epochs] \cup [kind : {"hello"}, instance : Instances]
    \cup [kind : {"result"}, app : Apps, epoch : Epochs, verdict : Final]
    \cup [kind : {"reconciled"}, app : Apps, epoch : Epochs, original : Epochs,
          verdict : Verdicts]

Commands ==
    [kind : {"offer"}, epoch : Epochs]
    \cup [kind : {"apply"}, app : Apps, epoch : Epochs, instance : Instances,
          exact : BOOLEAN, retry : BOOLEAN]

Works == [plan : Seq(Steps), app : Apps \cup {NoApp}, verdict : Verdicts \cup {"none", "failed"},
          todo : SUBSET Apps, due : SUBSET Apps]

TypesSound ==
    /\ TypeOK /\ work \in Works /\ down \in Seq(Commands) /\ up \in Seq(Frames)
    /\ prepared # NoRequest => commands < MaxPublish
-----------------------------------------------------------------------------
(* Device *)

\* Nothing of the application is left in the repository.
Clean(a) == ~OnBranch(a) /\ a \notin worktree

\* What the journal says of an application is true.
EntrySound(a) ==
    /\ OnBranch(a) => a \in published
    /\ ~journal[a].started => journal[a].finished = "none" /\ Clean(a)
    /\ journal[a].finished = "applied" => a \in published
    /\ journal[a].finished = "failed" => ~OnBranch(a)
    /\ journal[a].finished = "none" /\ journal[a].recovery = "not_started" => Clean(a)

In(step, plan) == \E i \in 1..Len(plan) : plan[i] = step
Within(step) == In(step, work.plan)

\* A plan consumes its frame last, and after a report it does nothing else.
Ordered(plan) ==
    \A i, j \in 1..Len(plan) :
        i < j => plan[i] # "consume" /\ (plan[i] = "report" => plan[j] = "consume")

\* The attempt under way has no result yet and no verdict from an earlier one.
Open(a) == a \in Unfinished /\ journal[a].recovery = "none"

NoneInDoubt == \A a \in Unfinished : journal[a].recovery # "outcome_unknown"

\* Where a handler stands, and what it may rely on there.
JudgeSound ==
    /\ work.todo \subseteq Unfinished
    /\ work.todo # {} => work.plan \in {<<"hello", "report">>, <<"report", "consume">>}
AckSound == Within("ack") => work.plan = <<"ack", "report", "consume">>
OrderSound == Ordered(work.plan)
ConsumeSound ==
    (\E s \in {"begin", "attempt", "publish", "consume"} : Within(s)) => down # <<>>
BeginSound ==
    Within("begin") => work.plan = <<"begin">> /\ work.app \in Unfinished
                       /\ Clean(work.app) /\ NoneInDoubt
AttemptSound ==
    Within("attempt") => work.plan = <<"attempt">> /\ Open(work.app)
                         /\ Clean(work.app) /\ NoneInDoubt
PublishSound ==
    Within("publish") => work.plan = <<"publish">> /\ Open(work.app) /\ ~OnBranch(work.app)

Cleaning == <<"cleanup", "finish", "answer", "transition", "consume">>
Answering == <<"answer", "transition", "consume">>

FinishSound ==
    Within("cleanup") \/ Within("finish") =>
        /\ work.plan = Cleaning \/ work.plan = Ending
        /\ Open(work.app) /\ work.verdict \in Final
        /\ work.verdict = "applied" => work.app \in published
        /\ work.verdict = "failed" => ~OnBranch(work.app)
AnswerSound ==
    Within("answer") =>
        \/ work.plan = Cleaning \/ work.plan = Ending
        \/ /\ work.plan = Answering /\ work.app \in Apps /\ work.verdict \in Final
           /\ journal[work.app].finished = work.verdict
SaySound ==
    Within("say") => /\ work.app \in Apps /\ work.verdict \in Verdicts
                     /\ work.verdict = "applied" => work.app \in published
MarkSound == Within("mark") => work.app \in Apps
TransitionSound == Within("transition") => work.verdict \in Final

WorkSound ==
    /\ JudgeSound /\ AckSound /\ OrderSound /\ ConsumeSound
    /\ BeginSound /\ AttemptSound /\ PublishSound /\ FinishSound /\ AnswerSound
    /\ SaySound /\ MarkSound /\ TransitionSound
-----------------------------------------------------------------------------
(* Frames and server *)

FrameSound(f) ==
    /\ f.kind = "result" => f.app \in Apps /\ f.verdict \in Final
                            /\ journal[f.app].finished = f.verdict
    /\ f.kind = "reconciled" => /\ f.app \in Apps /\ f.verdict \in Verdicts
                                /\ f.verdict = "applied" => f.app \in published

FramesSound == \A i \in 1..Len(up) : FrameSound(up[i])

RecordSound(a) ==
    /\ receipt[a] = "applied" => a \in published /\ Terminal(candidate)
    /\ receipt[a] = "failed" => journal[a].finished = "failed"
    /\ row[a].result # "none" => receipt[a] = row[a].result

\* Between the two transactions the receipt of the head frame is written.
HalfwaySound ==
    halfway => /\ up # <<>> /\ Frame.kind \in {"result", "reconciled"}
               /\ Frame.verdict \in Final /\ receipt[Frame.app] = Frame.verdict

IInv ==
    /\ TypesSound /\ WorkSound /\ FramesSound /\ HalfwaySound
    /\ \A a \in Apps : EntrySound(a) /\ RecordSound(a)
=============================================================================
