-------------------------- MODULE MediaTaskProofs --------------------------
(***************************************************************************)
(* Theorems of MediaTask for every set of video jobs, commands and workers: *)
(* a video is ordered at most once and after its review, the row never     *)
(* reports an end that has not happened, and a reviewer is shown a doubt.  *)
(*                                                                         *)
(* The first two need no lease: whoever makes a store call, and however    *)
(* late, what it carries is true of the job (CallOK) and the row moves only *)
(* forward (OrdersOK).  The third is about whose turn it is (DoubtOK), and  *)
(* takes over from RuntimeJobs that two claims never share a token.        *)
(***************************************************************************)
EXTENDS MediaTask, SequenceTheorems, TLAPS

P == INSTANCE RuntimeJobsProofs

-----------------------------------------------------------------------------
(* The job store under the handler.                                        *)

LEMMA RuntimeAssumed ==
  /\ P!JobsAssumption /\ P!CommandsAssumption
  /\ P!WorkersAssumption /\ P!BoundsAssumption
BY RuntimeAssumption, MediaJobsAssumption
   DEF R!CommandTypes, R!ResumeActions, P!CommandTypes, P!ResumeActions

LEMMA SameInit == R!Init => P!Init
BY DEF P!Init, R!Init, P!Idle, R!Idle

LEMMA SameOwned == ASSUME NEW w PROVE R!Owned(w) <=> P!Owned(w)
BY DEF R!Owned, P!Owned, R!Leased, P!Leased

LEMMA SameDeliver == ASSUME NEW c PROVE R!Deliver(c) <=> P!Deliver(c)
BY DEF P!Deliver, R!Deliver, P!AcceptTask, R!AcceptTask, P!AcceptCancel, R!AcceptCancel,
       P!AcceptResume, R!AcceptResume, P!NewInInbox, R!NewInInbox, P!Ev, R!Ev,
       P!Cancellable, R!Cancellable

LEMMA SameExpire == ASSUME NEW j PROVE R!LeaseExpires(j) <=> P!LeaseExpires(j)
BY DEF P!LeaseExpires, R!LeaseExpires, P!Held, R!Held

LEMMA SameClaims ==
  ASSUME NEW w
  PROVE  /\ R!ClaimNothing(w) <=> P!ClaimNothing(w)
         /\ \A j \in Jobs : R!Claim(w, j) <=> P!Claim(w, j)
         /\ R!Swept = P!Swept
BY DEF P!Ev, R!Ev, P!Swept, R!Swept, P!Claimable, R!Claimable, P!ClaimRows, R!ClaimRows,
       P!ApprovedDraft, R!ApprovedDraft, P!Claim, R!Claim, P!ClaimNothing, R!ClaimNothing,
       P!Idle, R!Idle

LEMMA SameWork ==
  ASSUME NEW w
  PROVE  /\ R!FencedOut(w) <=> P!FencedOut(w)
         /\ R!HeartbeatCancelled(w) <=> P!HeartbeatCancelled(w)
         /\ R!HandlerReturns(w) <=> P!HandlerReturns(w)
         /\ R!RecordModelCall(w) <=> P!RecordModelCall(w)
         /\ R!RecordArtifact(w) <=> P!RecordArtifact(w)
         /\ R!WorkerStops(w) <=> P!WorkerStops(w)
BY DEF P!Ev, R!Ev, P!Owned, R!Owned, P!FencedOut, R!FencedOut,
       P!HeartbeatCancelled, R!HeartbeatCancelled, P!Recorded, R!Recorded,
       P!RecordModelCall, R!RecordModelCall, P!RecordArtifact, R!RecordArtifact,
       P!HandlerOutcomes, R!HandlerOutcomes, P!HandlerReturns, R!HandlerReturns,
       P!WorkerStops, R!WorkerStops, P!Leased, R!Leased, P!Reports, R!Reports,
       P!Idle, R!Idle, P!rowVars, R!rowVars

LEMMA SameFinish ==
  ASSUME NEW w
  PROVE  /\ R!Finish(w) <=> P!Finish(w)
         /\ R!FinishLost(w) <=> P!FinishLost(w)
         /\ R!FinalStatus(w) = P!FinalStatus(w)
BY DEF P!Ev, R!Ev, P!Owned, R!Owned, P!FinalStatus, R!FinalStatus,
       P!FinalVersion, R!FinalVersion, P!FinalEvents, R!FinalEvents, P!Finish, R!Finish,
       P!FinishLost, R!FinishLost, P!Leased, R!Leased, P!Idle, R!Idle, P!rowVars, R!rowVars

\* What a step of worker w's handler is to the job store.
Handles(w) ==
  \/ UNCHANGED runtimeVars
  \/ P!HandlerReturns(w) \/ P!HeartbeatCancelled(w) \/ P!FencedOut(w)
  \/ P!RecordModelCall(w) \/ P!RecordArtifact(w) \/ P!WorkerStops(w)

LEMMA HandlerMoves ==
  ASSUME NEW w, \/ StoreAnswers(w) \/ StoreFails(w) \/ Plan(w) \/ Post(w) \/ Answer(w)
                \/ Reconcile(w) \/ Delete(w) \/ Publish(w) \/ CleanUp(w) \/ FencedOut(w)
                \/ Interrupt(w) \/ Poll(w) \/ Deadline(w) \/ WorkerStops(w)
  PROVE  Handles(w)
<1>1. ASSUME NEW a, NEW s, NEW i, Tell(w, a, s, i) PROVE Handles(w)
  BY <1>1 DEF Tell, Handles
<1>2. ASSUME NEW a, Goto(w, a) PROVE Handles(w)
  BY <1>1, <1>2 DEF Goto
<1>3. ASSUME Review(w) \/ Fail(w) \/ EndCancelled(w) \/ (\E o, v : Return(w, o, v))
      PROVE  Handles(w)
  BY <1>3, SameWork DEF Return, Review, Fail, EndCancelled, Handles
<1>4. ASSUME NEW t, Execute(w, t) PROVE Handles(w)
  BY <1>2, <1>3, <1>4 DEF Execute
<1>5. ASSUME NEW t, Start(w, t) PROVE Handles(w)
  BY <1>2, <1>3, <1>5 DEF Start
<1>6. ASSUME NEW t, After(w, t) PROVE Handles(w)
  BY <1>1, <1>2, <1>3, <1>4, <1>5, <1>6 DEF After
<1>7. CASE StoreAnswers(w)
  BY <1>6, <1>7 DEF StoreAnswers
<1>8. CASE StoreFails(w) \/ Reconcile(w) \/ Deadline(w)
  BY <1>1, <1>3, <1>8 DEF StoreFails, Reconcile, Deadline
<1>9. CASE Post(w) \/ Answer(w) \/ Poll(w) \/ CleanUp(w)
  BY <1>1, <1>2, <1>9 DEF Post, Answer, Poll, CleanUp
<1>10. CASE Plan(w) \/ Publish(w)
  BY <1>1, <1>3, <1>10, SameWork DEF Plan, Publish, Handles
<1>11. CASE Delete(w)
  BY <1>2, <1>3, <1>11 DEF Delete
<1>12. CASE FencedOut(w) \/ Interrupt(w) \/ WorkerStops(w)
  BY <1>12, SameWork DEF FencedOut, Interrupt, WorkerStops, Handles
<1> QED BY <1>7, <1>8, <1>9, <1>10, <1>11, <1>12

\* The jobs under the handlers are RuntimeJobs': nothing here does to them what
\* the job store could not.
THEOREM StoreWithin == Spec => P!Spec
<1>1. Init => P!Init
  BY SameInit DEF Init
<1>2. [Next]_vars => [P!Next]_(P!vars)
  <2>0. SUFFICES ASSUME [Next]_vars PROVE P!Next \/ UNCHANGED P!vars
    OBVIOUS
  <2>1. ASSUME UNCHANGED runtimeVars PROVE UNCHANGED P!vars
    BY <2>1 DEF runtimeVars, P!vars
  <2>2. ASSUME NEW w \in Workers, Handles(w) PROVE P!Next \/ UNCHANGED P!vars
    BY <2>1, <2>2 DEF Handles, P!Next, P!WorkerStep, P!Work
  <2>3. ASSUME NEW c \in Commands, Deliver(c) PROVE P!Next
    BY <2>3, SameDeliver DEF Deliver, P!Next
  <2>4. ASSUME NEW w \in Workers, Claim(w) PROVE P!Next
    BY <2>4, SameClaims DEF Claim, P!Next, P!WorkerStep, P!ClaimAny
  <2>5. ASSUME NEW w \in Workers, Finish(w) PROVE P!Next
    BY <2>5, SameFinish DEF Finish, P!Next, P!WorkerStep, P!Work
  <2>6. ASSUME NEW w \in Workers, Handle(w) \/ Poll(w) \/ Deadline(w) \/ WorkerStops(w)
        PROVE  P!Next \/ UNCHANGED P!vars
    BY <2>2, <2>5, <2>6, HandlerMoves DEF Handle
  <2>7. ASSUME NEW j \in Jobs, LeaseExpires(j) \/ RemoteEndsTask(j)
        PROVE  P!Next \/ UNCHANGED P!vars
    BY <2>1, <2>7, SameExpire DEF LeaseExpires, RemoteEndsTask, P!Next
  <2>8. ASSUME NEW o \in late, LateCommit(o) PROVE UNCHANGED P!vars
    BY <2>1, <2>8 DEF LateCommit
  <2>9. CASE UNCHANGED vars
    BY <2>1, <2>9 DEF vars
  <2> QED BY <2>0, <2>3, <2>4, <2>6, <2>7, <2>8, <2>9 DEF Next
<1> QED BY <1>1, <1>2, PTL DEF Spec, P!Spec

LEMMA StoreInvariance == Spec => []P!IInv
BY RuntimeAssumed, StoreWithin, P!Invariance, PTL

-----------------------------------------------------------------------------
(* What the steps of the job store are to the handlers.                    *)

RowsKept == UNCHANGED <<inbox, status, fence, owner, lease, resumeInput>>
OthersKept(w) == \A v \in Workers : v # w => worker'[v] = worker[v]
\* Worker w keeps its job, or lets it go.
Holding(w) == worker'[w].job = worker[w].job /\ worker'[w].fence = worker[w].fence
Leaves(w) == worker'[w].job = NoJob /\ worker'[w].phase = "idle"

LEMMA Returning ==
  ASSUME P!TypeOK, NEW w \in Workers, P!HandlerReturns(w) \/ P!HeartbeatCancelled(w)
  PROVE  /\ RowsKept /\ OthersKept(w) /\ Holding(w)
         /\ worker[w].phase = "working" /\ worker'[w].phase = "finishing"
         /\ P!HeartbeatCancelled(w) => worker'[w].outcome = "cancelled"
<1>1. worker \in [Workers -> P!WorkerState]
  BY DEF P!TypeOK
<1>2. /\ RowsKept /\ OthersKept(w) /\ Holding(w)
      /\ worker[w].phase = "working" /\ worker'[w].phase = "finishing"
  BY <1>1 DEF P!HandlerReturns, P!HeartbeatCancelled, P!WorkerState, P!rowVars,
     RowsKept, OthersKept, Holding
<1>3. P!HeartbeatCancelled(w) => worker'[w].outcome = "cancelled"
  BY <1>1 DEF P!HeartbeatCancelled, P!WorkerState
<1> QED BY <1>2, <1>3

LEMMA Leaving ==
  ASSUME P!TypeOK, NEW w \in Workers, P!FencedOut(w) \/ P!WorkerStops(w) \/ P!FinishLost(w)
  PROVE  /\ RowsKept /\ OthersKept(w) /\ Leaves(w)
         /\ worker[w].phase # "idle"
BY DEF P!TypeOK, P!FencedOut, P!WorkerStops, P!FinishLost, P!Idle, P!rowVars, RowsKept,
       OthersKept, Leaves

LEMMA Telling ==
  ASSUME NEW w, P!RecordModelCall(w) \/ P!RecordArtifact(w) \/ UNCHANGED runtimeVars
  PROVE  RowsKept /\ UNCHANGED worker
BY DEF P!RecordModelCall, P!RecordArtifact, P!rowVars, RowsKept, runtimeVars

-----------------------------------------------------------------------------
(* One order, and what is known of it.                                     *)

Answered(j) == \E c \in inbox : c.job = j /\ c.type = "job.resume" /\ c.action = "approve"
Ordered(j) == task[j].state \notin {"none", "prepared"}
Posting(j) == \E w \in Workers : step[w].at = "post" /\ worker[w].job = j

\* An end that a store call carries is the provider's; or the provider refused
\* the one POST there will ever be.
SaidTrue(j, s) ==
  IF remote[j] = <<>> THEN s = "failed" /\ Ordered(j) /\ ~Posting(j)
  ELSE remote[j][1] = s

\* What a step about job j (a store call above all, late ones included) carries
\* with it is true.
CallOK(j, at, said, id) ==
  /\ at = "approve_plan" => Answered(j)
  /\ at = "submitted" => id = 1 /\ remote[j] # <<>> /\ said \in {"none", "running"} \cup RemoteEnds
  /\ at \in {"update_status", "polled"} => said \in {"running"} \cup RemoteEnds
  /\ at \in {"submitted", "update_status", "polled"} /\ said \in RemoteEnds => SaidTrue(j, said)
  /\ at = "mark_cancelled" => remote[j] # <<>> /\ remote[j][1] \in RemoteEnds
  /\ at = "answer" => id = 1 /\ remote[j] # <<>>
  /\ at \in {"poll", "delete"} => task[j].remote = 1

\* The row, the provider's tasks and the use recorded fit together.
RowOK(j) ==
  /\ Len(remote[j]) =< 1
  /\ remote[j] # <<>> => Ordered(j) /\ task[j].approved # "no"
  /\ task[j].remote \in {0, 1}
  /\ task[j].remote = 1 => remote[j] # <<>>
  /\ task[j].state \in {"none", "prepared"} \cup Unanswered => task[j].remote = 0
  /\ task[j].state \in {"running", "cancel_pending", "succeeded"} => task[j].remote = 1
  /\ task[j].approved = "user" => Answered(j)
  /\ usage[j] = IF task[j].remote # 0 /\ task[j].state \in TaskEnds
                THEN {task[j].remote} ELSE {}
  /\ remote[j] # <<>> /\ remote[j][1] = "running" =>
       task[j].state \notin TaskEnds /\ (task[j].remote = 1 \/ task[j].state \in Unanswered)
\* The order that is about to go out is the first.
PostOK(j) ==
  Posting(j) => remote[j] = <<>> /\ task[j].state \in Unanswered /\ task[j].approved # "no"
JobOK(j) == RowOK(j) /\ PostOK(j)

OneAtPost ==
  \A v, w \in Workers :
    v # w /\ step[v].at = "post" /\ step[w].at = "post" => worker[v].job # worker[w].job
StepOK(w) ==
  /\ CallOK(worker[w].job, step[w].at, step[w].said, step[w].id)
  /\ worker[w].phase = "idle" => step[w].at = "end"

OrdersOK ==
  /\ \A j \in Jobs : JobOK(j) /\ (resumeInput[j] = "approve" => Answered(j))
  /\ \A w \in Workers : StepOK(w)
  /\ OneAtPost
  /\ \A o \in late : CallOK(o.job, o.at, o.said, o.id)

MediaTypes ==
  /\ task \in [Jobs -> Task]
  /\ remote \in [Jobs -> Seq({"running"} \cup RemoteEnds)]
  /\ usage \in [Jobs -> SUBSET Nat]
  /\ step \in [Workers -> [at : Steps, said : Said, id : Nat]]
  /\ \A o \in late : /\ o.job \in Jobs /\ o.by \in WorkerIds /\ o.at \in StoreSteps
                     /\ o.fence \in Nat

OrderInv == P!IInv /\ MediaTypes /\ OrdersOK

\* How a step may move a job: what was true of it stays true.
Moved(j) ==
  /\ Answered(j) => Answered(j)'
  /\ remote[j] # <<>> =>
       remote'[j] # <<>> /\ (remote[j][1] \in RemoteEnds => remote'[j][1] = remote[j][1])
  /\ remote[j] = <<>> /\ remote'[j] # <<>> => Posting(j)
  /\ Ordered(j) => Ordered(j)' /\ (Posting(j)' => Posting(j))
  /\ task[j].remote = 1 => task'[j].remote = 1

LEMMA JobKept ==
  ASSUME NEW j \in Jobs, task'[j] = task[j], remote'[j] = remote[j], usage'[j] = usage[j],
         Answered(j) => Answered(j)', Posting(j)' => Posting(j), JobOK(j)
  PROVE  Moved(j) /\ JobOK(j)'
BY DEF Moved, JobOK, RowOK, PostOK, Ordered

LEMMA CallKept ==
  ASSUME NEW j \in Jobs, Moved(j), NEW at, NEW said, NEW id, CallOK(j, at, said, id)
  PROVE  CallOK(j, at, said, id)'
BY DEF Moved, CallOK, SaidTrue

\* What the step of worker w must leave.
ActorOK(w) ==
  /\ StepOK(w)'
  /\ step'[w].at = "post" =>
       worker'[w].job = worker[w].job /\ (step[w].at = "post" \/ ~Ordered(worker[w].job))
StepKept(w) == step'[w] = step[w] /\ worker'[w].job = worker[w].job
                /\ (worker'[w].phase = "idle" => worker[w].phase = "idle")

LEMMA KeptActor ==
  ASSUME OrderInv, \A j \in Jobs : Moved(j), NEW w \in Workers, StepKept(w)
  PROVE  ActorOK(w)
<1>1. StepOK(w)
  BY DEF OrderInv, OrdersOK
<1>2. CASE worker[w].job \in Jobs
  <2>1. CallOK(worker[w].job, step[w].at, step[w].said, step[w].id)'
    <3>1. SUFFICES ASSUME NEW j \in Jobs, NEW s, j = worker[w].job, s = step[w]
                   PROVE  CallOK(j, s.at, s.said, s.id)'
      BY <1>2 DEF StepKept
    <3>2. CallOK(j, s.at, s.said, s.id)
      BY <1>1, <3>1 DEF StepOK
    <3> QED BY <3>2, CallKept
  <2> QED BY <1>1, <2>1 DEF ActorOK, StepKept, StepOK
<1>3. CASE worker[w].job \notin Jobs
  <2>1. worker[w].phase = "idle"
    BY <1>3 DEF OrderInv, P!IInv, P!ClaimsOK
  <2>2. step[w].at = "end"
    BY <1>1, <2>1 DEF StepOK
  <2> QED BY <1>1, <2>2 DEF ActorOK, StepKept, StepOK, CallOK
<1> QED BY <1>2, <1>3

LEMMA OrdersNext ==
  ASSUME OrderInv, \A j \in Jobs : Moved(j) /\ JobOK(j)',
         \A j \in Jobs : resumeInput'[j] = "approve" => Answered(j)',
         NEW a, \A v \in Workers : v # a => StepKept(v), a \in Workers => ActorOK(a),
         \A o \in late' : o \in late \/ CallOK(o.job, o.at, o.said, o.id)'
  PROVE  OrdersOK'
<1>1. \A v \in Workers : ActorOK(v)
  BY KeptActor
<1>2. \A v \in Workers : StepOK(v)'
  BY <1>1 DEF ActorOK
<1>3. ASSUME NEW o \in late' PROVE CallOK(o.job, o.at, o.said, o.id)'
  <2>1. CASE o \in late
    <3>1. o.job \in Jobs /\ CallOK(o.job, o.at, o.said, o.id)
      BY <2>1 DEF OrderInv, OrdersOK, MediaTypes
    <3> QED BY <3>1, CallKept
  <2> QED BY <1>3, <2>1
<1>4. OneAtPost'
  <2>1. SUFFICES ASSUME NEW v \in Workers, NEW w \in Workers, v # w, v # a,
                        step'[v].at = "post", step'[w].at = "post",
                        worker'[v].job = worker'[w].job
                 PROVE  FALSE
    BY DEF OneAtPost
  <2>2. /\ step[v].at = "post" /\ worker'[v].job = worker[v].job
        /\ worker'[w].job = worker[w].job /\ (step[w].at = "post" \/ ~Ordered(worker[w].job))
    BY <1>1, <2>1 DEF ActorOK, StepKept
  <2>3. worker[v].job \in Jobs
    BY <2>1, <2>2 DEF OrderInv, OrdersOK, StepOK, P!IInv, P!ClaimsOK
  <2>4. Posting(worker[v].job)
    BY <2>1, <2>2 DEF Posting
  <2>5. Ordered(worker[v].job)
    BY <2>3, <2>4 DEF OrderInv, OrdersOK, JobOK, PostOK, Ordered, Unanswered
  <2> QED BY <2>1, <2>2, <2>5 DEF OrderInv, OrdersOK, OneAtPost
<1> QED BY <1>2, <1>3, <1>4 DEF OrdersOK

-----------------------------------------------------------------------------
(* The store's methods.                                                    *)

LEMMA Moving ==
  ASSUME NEW t \in Task, NEW f \in Nat, NEW from, NEW to \in TaskStates, NEW u \in Move(t, f, from, to)
  PROVE  /\ u \in Task /\ t.state \in from /\ u.state = to /\ u.fence = f
         /\ u.remote = t.remote /\ u.approved = t.approved
<1>1. t.state \in from /\ u = [t EXCEPT !.state = to, !.fence = f]
  BY DEF Move
<1> QED BY <1>1 DEF Task

\* The row keeps what it was ordered under.
SameOrder(t, u) == u.remote = t.remote /\ u.approved = t.approved

\* What a store call does to row t, given that what it carries is well formed.
WritesOK(t, u, at, said, id) ==
  CASE at \in {"start", "get"} ->
         SameOrder(t, u) /\ (u.state = t.state \/ (t.state = "submitting" /\ u.state = "submission_unknown"))
    [] at = "reserve" -> t.state = "none" /\ u.state = "prepared" /\ u.remote = t.remote /\ u.approved # "user"
    [] at = "approve_plan" -> t.state = "prepared" /\ u.state = "prepared" /\ u.remote = t.remote
    [] at = "begin_submit" -> t.state = "prepared" /\ t.approved # "no" /\ u.state = "submitting" /\ SameOrder(t, u)
    [] at = "submitted" ->
         \/ t.remote # 0 /\ u = t
         \/ /\ t.remote = 0 /\ t.state \in Unanswered /\ u.state = "running"
            /\ u.remote = id /\ u.approved = t.approved
    [] at = "mark_unknown" -> t.state \in Unanswered /\ u.state = "submission_unknown" /\ SameOrder(t, u)
    [] at \in {"update_status", "polled"} ->
         /\ t.state \in {"running", "cancel_pending", said} \cup {x \in {"submitting"} : said = "failed"}
         /\ u.state = said \/ (said = "running" /\ u.state = "cancel_pending" /\ t.state = "cancel_pending")
         /\ SameOrder(t, u)
    [] at = "begin_cancel" ->
         t.state \in {"running", "cancel_pending"} /\ u.state = "cancel_pending" /\ SameOrder(t, u)
    [] at = "mark_cancelled" ->
         t.state \in {"prepared", "cancel_pending", "cancelled"} /\ u.state = "cancelled" /\ SameOrder(t, u)

Wrote(t, u, o) ==
  /\ u \in Task /\ u.fence \in {t.fence, o.fence}
  /\ o.at \in {"start", "get"} /\ u.state = "submitting" => t.fence = o.fence
  /\ WritesOK(t, u, o.at, o.said, o.id)

LEMMA Writing ==
  ASSUME NEW o, NEW j \in Jobs, o.job = j, task[j] \in Task, o.fence \in Nat, o.at \in StoreSteps,
         o.at = "submitted" => o.id \in Nat,
         o.at \in {"update_status", "polled"} => o.said \in {"running"} \cup RemoteEnds,
         NEW u \in Written(o)
  PROVE  Wrote(task[j], u, o)
<1> SUFFICES ASSUME NEW t \in Task, t = task[j], NEW f \in Nat, f = o.fence
             PROVE  Wrote(t, u, o)
  OBVIOUS
<1> USE DEF SameOrder, Wrote
<1>1. CASE o.at \in {"start", "get"}
  <2>1. u \in Get(t, f)
    BY <1>1 DEF Written
  <2>2. u = t \/ (t.state = "submitting" /\ u = [t EXCEPT !.state = "submission_unknown", !.fence = f])
    BY <2>1 DEF Get
  <2>3. /\ u \in Task /\ SameOrder(t, u) /\ u.fence \in {t.fence, f}
        /\ u.state = t.state \/ (t.state = "submitting" /\ u.state = "submission_unknown")
    BY <2>2 DEF Task, TaskStates, Unanswered
  <2>4. u.state = "submitting" => t.fence = f
    BY <2>1 DEF Get, Task
  <2> QED BY <1>1, <2>3, <2>4 DEF WritesOK
<1>2. CASE o.at = "reserve"
  <2>1. u \in Reserve(t, f, o.said)
    BY <1>2 DEF Written
  <2>2. PICK x \in Move(t, f, {"none"}, "prepared") :
          u = [x EXCEPT !.approved = IF o.said = "approved" THEN "model" ELSE "no"]
    BY <2>1 DEF Reserve
  <2>3. /\ x \in Task /\ t.state = "none" /\ x.state = "prepared" /\ x.remote = t.remote /\ x.fence = f
    BY Moving DEF TaskStates
  <2>4. u \in Task /\ u.fence = f /\ u.state = "prepared" /\ u.remote = t.remote /\ u.approved # "user"
    BY <2>2, <2>3 DEF Task
  <2> QED BY <1>2, <2>3, <2>4 DEF WritesOK
<1>3. CASE o.at = "approve_plan"
  <2>1. u \in ApprovePlan(t, f)
    BY <1>3 DEF Written
  <2>2. PICK x \in Move(t, f, {"prepared"}, "prepared") : u = [x EXCEPT !.approved = "user"]
    BY <2>1 DEF ApprovePlan
  <2>3. /\ x \in Task /\ t.state = "prepared" /\ x.state = "prepared" /\ x.remote = t.remote /\ x.fence = f
    BY Moving DEF TaskStates
  <2>4. u \in Task /\ u.fence = f /\ u.state = "prepared" /\ u.remote = t.remote
    BY <2>2, <2>3 DEF Task
  <2> QED BY <1>3, <2>3, <2>4 DEF WritesOK
<1>4. CASE o.at = "begin_submit"
  <2>1. u \in BeginSubmit(t, f)
    BY <1>4 DEF Written
  <2>2. t.approved # "no" /\ u \in Move(t, f, {"prepared"}, "submitting")
    BY <2>1 DEF BeginSubmit
  <2>3. u \in Task /\ u.fence = f /\ t.state = "prepared" /\ u.state = "submitting" /\ SameOrder(t, u)
    BY <2>2, Moving DEF TaskStates, Unanswered
  <2> QED BY <1>4, <2>2, <2>3 DEF WritesOK
<1>5. CASE o.at = "submitted"
  <2>1. u \in Submitted(t, f, o.id)
    BY <1>5 DEF Written
  <2>2. CASE t.remote # 0
    <3>1. u = t
      BY <2>1, <2>2 DEF Submitted
    <3> QED BY <1>5, <2>2, <3>1 DEF WritesOK
  <2>3. CASE t.remote = 0
    <3>1. PICK x \in Move(t, f, Unanswered, "running") : u = [x EXCEPT !.remote = o.id]
      BY <2>1, <2>3 DEF Submitted
    <3>2. x \in Task /\ t.state \in Unanswered /\ x.state = "running" /\ x.approved = t.approved /\ x.fence = f
      BY Moving DEF TaskStates
    <3>3. u \in Task /\ u.fence = f /\ u.state = "running" /\ u.remote = o.id /\ u.approved = t.approved
      BY <1>5, <3>1, <3>2 DEF Task
    <3> QED BY <1>5, <2>3, <3>2, <3>3 DEF WritesOK
  <2> QED BY <2>2, <2>3
<1>6. CASE o.at = "mark_unknown"
  <2>1. u \in Move(t, f, Unanswered, "submission_unknown")
    BY <1>6 DEF Written, MarkUnknown
  <2>2. u \in Task /\ u.fence = f /\ t.state \in Unanswered /\ u.state = "submission_unknown" /\ SameOrder(t, u)
    BY <2>1, Moving DEF TaskStates, Unanswered
  <2> QED BY <1>6, <2>2 DEF WritesOK
<1>7. CASE o.at \in {"update_status", "polled"}
  <2>1. u \in UpdateStatus(t, f, o.said)
    BY <1>7 DEF Written
  <2> DEFINE to == IF t.state = "cancel_pending" /\ o.said = "running" THEN "cancel_pending" ELSE o.said
             from == {"running", "cancel_pending", o.said}
                       \cup {x \in {"submitting"} : o.said = "failed"}
  <2>2. to \in TaskStates /\ u \in Move(t, f, from, to)
    BY <1>7, <2>1 DEF UpdateStatus, TaskStates, RemoteEnds, TaskEnds
  <2>3. u \in Task /\ u.fence = f /\ t.state \in from /\ u.state = to /\ SameOrder(t, u)
    <3> HIDE DEF to, from
    <3> QED BY <2>2, Moving
  <2> QED BY <1>7, <2>3 DEF WritesOK
<1>8. CASE o.at = "begin_cancel"
  <2>1. u \in Move(t, f, {"running", "cancel_pending"}, "cancel_pending")
    BY <1>8 DEF Written, BeginCancel
  <2>2. u \in Task /\ u.fence = f /\ t.state \in {"running", "cancel_pending"} /\ u.state = "cancel_pending" /\ SameOrder(t, u)
    BY <2>1, Moving DEF TaskStates
  <2> QED BY <1>8, <2>2 DEF WritesOK
<1>9. CASE o.at = "mark_cancelled"
  <2>1. u \in Move(t, f, {"prepared", "cancel_pending", "cancelled"}, "cancelled")
    BY <1>9 DEF Written, MarkCancelled
  <2>2. /\ u \in Task /\ u.fence = f /\ t.state \in {"prepared", "cancel_pending", "cancelled"}
        /\ u.state = "cancelled" /\ SameOrder(t, u)
    BY <2>1, Moving DEF TaskStates, TaskEnds
  <2> QED BY <1>9, <2>2 DEF WritesOK
<1> QED BY <1>1, <1>2, <1>3, <1>4, <1>5, <1>6, <1>7, <1>8, <1>9 DEF StoreSteps

\* A store call whose word is true leaves the job well formed, however late.
LEMMA Committing ==
  ASSUME MediaTypes, NEW j \in Jobs, JobOK(j), NEW o, o.job = j, o.at \in StoreSteps, o.fence \in Nat,
         CallOK(j, o.at, o.said, o.id), NEW u \in Written(o), Commit(o, u), remote' = remote,
         Answered(j) => Answered(j)', o.at # "begin_submit" => (Posting(j)' => Posting(j))
  PROVE  /\ Wrote(task[j], u, o) /\ task'[j] = u
         /\ Moved(j) /\ JobOK(j)' /\ (o.at = "begin_submit" => ~Ordered(j))
<1>1. task[j] \in Task /\ remote[j] \in Seq({"running"} \cup RemoteEnds) /\ usage[j] \in SUBSET Nat
  BY DEF MediaTypes
<1>2. Wrote(task[j], u, o)
  BY <1>1, Writing DEF CallOK, Wrote
<1>3. task'[j] = u /\ remote'[j] = remote[j]
  BY DEF Commit, MediaTypes
<1>4. usage'[j] = IF o.at \in Recording /\ u.remote # 0 /\ u.state \in TaskEnds
                  THEN usage[j] \cup {u.remote} ELSE usage[j]
  BY DEF Commit, MediaTypes
<1> SUFFICES ASSUME NEW t, NEW q, t = task[j], q = remote[j] PROVE Moved(j) /\ JobOK(j)' /\ (o.at = "begin_submit" => ~Ordered(j))
  BY <1>2, <1>3
<1>5. t \in Task /\ q \in Seq({"running"} \cup RemoteEnds)
  BY <1>1
<1>6. u \in Task /\ WritesOK(t, u, o.at, o.said, o.id)
  BY <1>2 DEF Wrote
<1>7. /\ Len(q) =< 1
      /\ q # <<>> => t.state \notin {"none", "prepared"} /\ t.approved # "no"
      /\ t.remote \in {0, 1}
      /\ t.remote = 1 => q # <<>>
      /\ t.state \in {"none", "prepared"} \cup Unanswered => t.remote = 0
      /\ t.state \in {"running", "cancel_pending", "succeeded"} => t.remote = 1
      /\ q # <<>> /\ q[1] = "running" =>
           t.state \notin TaskEnds /\ (t.remote = 1 \/ t.state \in Unanswered)
      /\ Posting(j) => q = <<>> /\ t.state \in Unanswered /\ t.approved # "no"
  BY DEF JobOK, RowOK, PostOK, Ordered
<1>8. /\ q # <<>> => u.state \notin {"none", "prepared"} /\ u.approved # "no"
      /\ u.remote \in {0, 1}
      /\ u.remote = 1 => q # <<>>
      /\ t.remote = 1 => u.remote = 1
      /\ u.state \in {"none", "prepared"} \cup Unanswered => u.remote = 0
      /\ u.state \in {"running", "cancel_pending", "succeeded"} => u.remote = 1
      /\ u.state \in {"none", "prepared"} => t.state \in {"none", "prepared"}
      /\ t.state \notin {"none", "prepared"} => u.approved = t.approved
      /\ o.at = "begin_submit" => t.state = "prepared" /\ u.approved # "no" /\ u.state \in Unanswered
      /\ q # <<>> /\ q[1] = "running" =>
           u.state \notin TaskEnds /\ (u.remote = 1 \/ u.state \in Unanswered)
      /\ Posting(j) => u.state \in Unanswered
      /\ u.approved = "user" => t.approved = "user" \/ o.at = "approve_plan"
      /\ t.state \in TaskEnds => u.state \in TaskEnds
      /\ t.remote # 0 => u.remote = t.remote
      /\ u.state \in TaskEnds /\ u.remote # 0 /\ o.at \notin Recording => t.state \in TaskEnds /\ t.remote # 0
  <2> USE DEF WritesOK, SameOrder, Unanswered, TaskEnds, RemoteEnds, Recording
  <2>1. CASE o.at \in {"start", "get"}
    BY <1>5, <1>6, <1>7, <2>1
  <2>2. CASE o.at \in {"reserve", "approve_plan", "begin_submit"}
    BY <1>5, <1>6, <1>7, <2>2
  <2>3. CASE o.at = "submitted"
    <3>1. o.id = 1 /\ q # <<>>
      BY <2>3 DEF CallOK
    <3> QED BY <1>5, <1>6, <1>7, <2>3, <3>1
  <2>4. CASE o.at \in {"mark_unknown", "begin_cancel"}
    BY <1>5, <1>6, <1>7, <2>4
  <2>5. CASE o.at \in {"update_status", "polled"}
    <3>1. /\ o.said \in {"running", "succeeded", "failed", "cancelled"}
          /\ o.said # "running" =>
               IF q = <<>> THEN o.said = "failed" /\ t.state \notin {"none", "prepared"} /\ ~Posting(j)
               ELSE q[1] = o.said
      BY <2>5 DEF CallOK, SaidTrue, Ordered
    <3> QED BY <1>5, <1>6, <1>7, <2>5, <3>1
  <2>6. CASE o.at = "mark_cancelled"
    <3>1. q # <<>> /\ q[1] \in RemoteEnds
      BY <2>6 DEF CallOK
    <3> QED BY <1>5, <1>6, <1>7, <2>6, <3>1
  <2> QED BY <2>1, <2>2, <2>3, <2>4, <2>5, <2>6 DEF StoreSteps
<1>9. o.at = "approve_plan" => Answered(j)
  BY DEF CallOK
<1>10. (t.approved = "user" => Answered(j)) /\ usage[j] = (IF t.remote # 0 /\ t.state \in TaskEnds THEN {t.remote} ELSE {})
  BY DEF JobOK, RowOK
<1>11. usage'[j] = IF u.remote # 0 /\ u.state \in TaskEnds THEN {u.remote} ELSE {}
  BY <1>4, <1>5, <1>8, <1>10
<1>12. Moved(j)
  BY <1>3, <1>8 DEF Moved, Ordered, Unanswered
<1>13. RowOK(j)'
  BY <1>3, <1>7, <1>8, <1>9, <1>10, <1>11 DEF RowOK, Ordered
<1>14. PostOK(j)'
  BY <1>3, <1>7, <1>8 DEF PostOK, Unanswered
<1> QED BY <1>8, <1>12, <1>13, <1>14 DEF JobOK, Ordered

\* The end the job store writes when it settles a cancellation claims nothing.
LEMMA Cancelling ==
  ASSUME MediaTypes, NEW j \in Jobs, JobOK(j), task'[j] = Cancelled(task[j]),
         remote'[j] = remote[j], usage'[j] = usage[j],
         Answered(j) => Answered(j)', Posting(j)' => Posting(j)
  PROVE  /\ Cancelled(task[j]) \in Task /\ Moved(j) /\ JobOK(j)'
         /\ task'[j].state # "submitting" /\ (task[j].state = "none" => task'[j] = task[j])
         /\ task'[j].fence = task[j].fence
<1> SUFFICES ASSUME NEW t \in Task, t = task[j], NEW u, u = Cancelled(t)
             PROVE  /\ u \in Task /\ Moved(j) /\ JobOK(j)'
                    /\ u.state # "submitting" /\ (t.state = "none" => u = t)
                    /\ u.fence = t.fence
  BY DEF MediaTypes
<1>1. /\ u \in Task /\ u.remote = t.remote /\ u.approved = t.approved /\ u.fence = t.fence
      /\ u.state = CASE t.state = "prepared" -> "cancelled"
                     [] t.state = "submitting" -> "submission_unknown"
                     [] t.state = "running" -> "cancel_pending"
                     [] OTHER -> t.state
      /\ t.state = "none" => u = t
  BY DEF Cancelled, Task, TaskStates, Unanswered, TaskEnds
<1>2. task'[j] = u
  OBVIOUS
<1>3. Moved(j)
  BY <1>1, <1>2 DEF Moved, Ordered
<1>4. RowOK(j)'
  BY <1>1, <1>2 DEF JobOK, RowOK, Ordered, Unanswered, TaskEnds
<1>5. PostOK(j)'
  BY <1>1, <1>2 DEF JobOK, PostOK, Unanswered
<1> QED BY <1>1, <1>3, <1>4, <1>5 DEF JobOK

-----------------------------------------------------------------------------
(* The steps of a handler.                                                 *)

StepT == [at : Steps, said : Said, id : Nat]

\* A step of w's handler, as the other handlers see it.
Takes(w) ==
  /\ RowsKept /\ OthersKept(w)
  /\ \E x \in StepT : step' = [step EXCEPT ![w] = x]
  /\ \/ Holding(w) /\ (worker'[w].phase = "idle" => worker[w].phase = "idle")
     \/ Leaves(w) /\ step'[w].at = "end"

\* It ends, and says nothing more.
Ends(w) == Takes(w) /\ step'[w] = Rest
\* Or goes on.
Goes(w, at, said, id) ==
  /\ Takes(w) /\ UNCHANGED worker
  /\ step'[w] = [at |-> at, said |-> said, id |-> id]

LEMMA TellGoes ==
  ASSUME step \in [Workers -> StepT], NEW w \in Workers, NEW at \in Steps, NEW said \in Said,
         NEW id \in Nat, Tell(w, at, said, id)
  PROVE  Goes(w, at, said, id)
BY DEF Tell, Goes, Takes, StepT, RowsKept, OthersKept, Holding, runtimeVars

LEMMA GotoGoes ==
  ASSUME step \in [Workers -> StepT], NEW w \in Workers, NEW at \in Steps, Goto(w, at)
  PROVE  Goes(w, at, "none", 0)
BY TellGoes DEF Goto, Said

LEMMA ReturnEnds ==
  ASSUME P!TypeOK, step \in [Workers -> StepT], NEW w \in Workers,
         Review(w) \/ Fail(w) \/ (\E o, v : Return(w, o, v))
  PROVE  Ends(w)
<1>1. P!HandlerReturns(w) /\ step' = [step EXCEPT ![w] = Rest]
  BY SameWork DEF Review, Fail, Return
<1>2. Rest \in StepT
  BY DEF Rest, StepT, Steps, Said
<1> QED BY <1>1, <1>2, Returning DEF Ends, Takes

LEMMA CancelEnds ==
  ASSUME P!TypeOK, step \in [Workers -> StepT], NEW w \in Workers, EndCancelled(w)
  PROVE  Ends(w)
<1>1. /\ P!HeartbeatCancelled(w) \/ P!FencedOut(w)
      /\ step' = [step EXCEPT ![w] = Rest]
  BY SameWork DEF EndCancelled
<1>2. Rest \in StepT /\ Rest.at = "end"
  BY DEF Rest, StepT, Steps, Said
<1>3. step'[w] = Rest
  BY <1>1
<1> QED BY <1>1, <1>2, <1>3, Returning, Leaving DEF Ends, Takes

\* What nobody but w's own order can change.
LEMMA TakesKeeps ==
  ASSUME MediaTypes, NEW w \in Workers, Takes(w)
  PROVE  /\ step' \in [Workers -> StepT]
         /\ \A v \in Workers : v # w => StepKept(v)
         /\ \A j \in Jobs : Answered(j)' <=> Answered(j)
         /\ \A j \in Jobs : step'[w].at # "post" \/ j # worker[w].job =>
              (Posting(j)' => Posting(j))
BY DEF MediaTypes, StepT, Takes, StepKept, OthersKept, RowsKept, Answered, Posting,
       Holding

LEMMA HandlerNext ==
  ASSUME OrderInv, NEW w \in Workers, Takes(w), ActorOK(w),
         \A j \in Jobs : Moved(j) /\ JobOK(j)',
         \A o \in late' : o \in late \/ CallOK(o.job, o.at, o.said, o.id)'
  PROVE  OrdersOK'
<1>1. MediaTypes
  BY DEF OrderInv
<1>2. \A v \in Workers : v # w => StepKept(v)
  BY <1>1, TakesKeeps
<1>3. \A j \in Jobs : resumeInput'[j] = "approve" => Answered(j)'
  BY <1>1, TakesKeeps DEF OrderInv, OrdersOK, Takes, RowsKept
<1> QED BY <1>2, <1>3, OrdersNext

LEMMA EndsActor == ASSUME NEW w \in Workers, Ends(w) PROVE ActorOK(w) /\ step'[w].at # "post"
BY DEF Ends, Rest, ActorOK, StepOK, CallOK

LEMMA GoesActor ==
  ASSUME NEW w \in Workers, NEW at, NEW said, NEW id, Goes(w, at, said, id),
         worker[w].phase # "idle", NEW j, j = worker[w].job, CallOK(j, at, said, id)',
         at = "post" => step[w].at = "post" \/ ~Ordered(j)
  PROVE  ActorOK(w) /\ step'[w].at = at
<1>1. worker' = worker /\ step'[w] = [at |-> at, said |-> said, id |-> id]
  BY DEF Goes
<1>2. CallOK(worker[w].job, step[w].at, step[w].said, step[w].id)'
  BY <1>1 DEF CallOK, SaidTrue
<1> QED BY <1>1, <1>2 DEF ActorOK, StepOK

\* Where a handler goes from a store call that left row u.
Continues(w, u) ==
  \/ Ends(w)
  \/ \E at \in {"plan", "get", "begin_submit", "publish", "reconcile"} : Goes(w, at, "none", 0)
  \/ resumeInput[worker[w].job] = "approve" /\ Goes(w, "approve_plan", "none", 0)
  \/ u.state = "running" /\ Goes(w, "poll", "none", 0)
  \/ u.state = "cancel_pending" /\ Goes(w, "delete", "none", 0)
  \/ step[w].at = "begin_submit" /\ Goes(w, "post", "none", 0)
  \/ /\ step[w].at = "submitted" /\ step[w].said # "none"
     /\ Goes(w, "update_status", step[w].said, 0)

LEMMA Continuing ==
  ASSUME P!TypeOK, step \in [Workers -> StepT], NEW w \in Workers, NEW u, After(w, u)
  PROVE  Continues(w, u)
<1>1. ASSUME Review(w) \/ Fail(w) \/ EndCancelled(w) PROVE Ends(w)
  BY <1>1, ReturnEnds, CancelEnds
<1>2. ASSUME NEW at \in Steps, Goto(w, at) PROVE Goes(w, at, "none", 0)
  BY <1>2, GotoGoes
<1>3. {"plan", "get", "begin_submit", "publish", "reconcile", "approve_plan", "poll", "delete",
       "post", "update_status"} \subseteq Steps
  BY DEF Steps, StoreSteps
<1>4. ASSUME Execute(w, u) PROVE Continues(w, u)
  BY <1>1, <1>2, <1>3, <1>4 DEF Execute, Continues
<1>5. ASSUME Start(w, u) PROVE Continues(w, u)
  BY <1>1, <1>2, <1>3, <1>5 DEF Start, Continues
<1>6. step[w].said \in Said /\ 0 \in Nat
  BY DEF StepT
<1>7. ASSUME Tell(w, "update_status", step[w].said, 0)
      PROVE  Goes(w, "update_status", step[w].said, 0)
  BY <1>3, <1>6, <1>7, TellGoes
<1> QED BY <1>1, <1>2, <1>3, <1>4, <1>5, <1>7 DEF After, Continues

LEMMA ContinuesTakes ==
  ASSUME NEW w \in Workers, NEW u, Continues(w, u)
  PROVE  Takes(w) /\ (step'[w].at = "post" => step[w].at = "begin_submit")
BY DEF Continues, Ends, Goes, Rest

LEMMA ContinuesActor ==
  ASSUME NEW w \in Workers, NEW u, Continues(w, u), worker[w].phase # "idle",
         NEW j \in Jobs, j = worker[w].job, u = task'[j], RowOK(j)', Moved(j),
         CallOK(j, step[w].at, step[w].said, step[w].id),
         resumeInput[j] = "approve" => Answered(j),
         step[w].at = "begin_submit" => ~Ordered(j)
  PROVE  ActorOK(w)
<1>1. CASE Ends(w)
  BY <1>1, EndsActor
<1>2. ASSUME NEW at \in {"plan", "get", "begin_submit", "publish", "reconcile"}, Goes(w, at, "none", 0)
      PROVE  ActorOK(w)
  <2>1. CallOK(j, at, "none", 0)'
    BY <1>2 DEF CallOK
  <2> QED BY <1>2, <2>1, GoesActor
<1>3. CASE resumeInput[worker[w].job] = "approve" /\ Goes(w, "approve_plan", "none", 0)
  <2>1. CallOK(j, "approve_plan", "none", 0)'
    BY <1>3 DEF CallOK, Moved
  <2> QED BY <1>3, <2>1, GoesActor
<1>4. CASE u.state = "running" /\ Goes(w, "poll", "none", 0)
  <2>1. CallOK(j, "poll", "none", 0)'
    BY <1>4 DEF CallOK, RowOK
  <2> QED BY <1>4, <2>1, GoesActor
<1>5. CASE u.state = "cancel_pending" /\ Goes(w, "delete", "none", 0)
  <2>1. CallOK(j, "delete", "none", 0)'
    BY <1>5 DEF CallOK, RowOK
  <2> QED BY <1>5, <2>1, GoesActor
<1>6. CASE step[w].at = "begin_submit" /\ Goes(w, "post", "none", 0)
  <2>1. CallOK(j, "post", "none", 0)'
    BY DEF CallOK
  <2> QED BY <1>6, <2>1, GoesActor
<1>7. CASE /\ step[w].at = "submitted" /\ step[w].said # "none"
           /\ Goes(w, "update_status", step[w].said, 0)
  <2>1. SUFFICES ASSUME NEW s, s = step[w].said PROVE CallOK(j, "update_status", s, 0)'
    BY <1>7, GoesActor
  <2>2. s \in {"running"} \cup RemoteEnds /\ (s \in RemoteEnds => SaidTrue(j, s))
    BY <1>7, <2>1 DEF CallOK
  <2>3. s \in RemoteEnds => SaidTrue(j, s)'
    BY <2>2 DEF SaidTrue, Moved
  <2> QED BY <2>2, <2>3 DEF CallOK
<1> QED BY <1>1, <1>2, <1>3, <1>4, <1>5, <1>6, <1>7 DEF Continues

-----------------------------------------------------------------------------
(* Every step keeps what is known of the order.                            *)

Jobs1(S) == \A j \in S : Moved(j) /\ JobOK(j)'

LEMMA RowsSame ==
  ASSUME OrderInv, UNCHANGED <<task, remote, usage>>,
         \A j \in Jobs : Answered(j) => Answered(j)', \A j \in Jobs : Posting(j)' => Posting(j)
  PROVE  Jobs1(Jobs)
BY JobKept DEF Jobs1, OrderInv, OrdersOK

LEMMA CommitRows ==
  ASSUME OrderInv, NEW o, NEW j \in Jobs, o.job = j, o.at \in StoreSteps, o.fence \in Nat,
         CallOK(j, o.at, o.said, o.id), NEW u \in Written(o), Commit(o, u), remote' = remote,
         \A i \in Jobs : Answered(i) => Answered(i)',
         \A i \in Jobs : i # j \/ o.at # "begin_submit" => (Posting(i)' => Posting(i))
  PROVE  /\ Jobs1(Jobs)
         /\ Wrote(task[j], u, o) /\ task' = [task EXCEPT ![j] = u]
         /\ o.at = "begin_submit" => ~Ordered(j)
         /\ task' \in [Jobs -> Task] /\ usage' \in [Jobs -> SUBSET Nat]
<1>1. MediaTypes /\ \A i \in Jobs : JobOK(i)
  BY DEF OrderInv, OrdersOK
<1>2. /\ Wrote(task[j], u, o) /\ u \in Task /\ task'[j] = u
      /\ Moved(j) /\ JobOK(j)' /\ (o.at = "begin_submit" => ~Ordered(j))
  BY <1>1, Committing DEF Wrote
<1>3. task' = [task EXCEPT ![j] = u] /\ (usage' = usage \/ usage' = [usage EXCEPT ![j] = @ \cup {u.remote}])
  BY DEF Commit
<1>4. ASSUME NEW i \in Jobs, i # j PROVE Moved(i) /\ JobOK(i)'
  <2>1. task'[i] = task[i] /\ remote'[i] = remote[i] /\ usage'[i] = usage[i]
    BY <1>1, <1>3, <1>4 DEF MediaTypes
  <2> QED BY <1>1, <1>4, <2>1, JobKept
<1>5. u.remote \in Nat
  BY <1>2 DEF Task
<1>6. task' \in [Jobs -> Task]
  BY <1>1, <1>2, <1>3 DEF MediaTypes
<1>7. usage' \in [Jobs -> SUBSET Nat]
  <2>1. usage \in [Jobs -> SUBSET Nat] /\ usage[j] \cup {u.remote} \in SUBSET Nat
    BY <1>1, <1>5 DEF MediaTypes
  <2> QED BY <1>3, <2>1
<1> QED BY <1>2, <1>3, <1>4, <1>6, <1>7 DEF Jobs1

\* The store call of a worker at work.
LEMMA CallOf ==
  ASSUME OrderInv, NEW w \in Workers, worker[w].phase # "idle"
  PROVE  /\ worker[w].job \in Jobs
         /\ CallOK(worker[w].job, step[w].at, step[w].said, step[w].id)
         /\ step \in [Workers -> StepT]
         /\ \A at \in StoreSteps :
              /\ Call(w, at).at = at /\ Call(w, at).job = worker[w].job
              /\ Call(w, at).said = step[w].said /\ Call(w, at).id = step[w].id
              /\ Call(w, at).fence = worker[w].fence /\ Call(w, at).fence \in Nat
              /\ Call(w, at).by \in WorkerIds
<1>1. worker[w].job \in Jobs /\ worker[w].fence \in Nat
  BY DEF OrderInv, P!IInv, P!ClaimsOK, P!TypeOK, P!WorkerState
<1>2. WorkerId[w] \in WorkerIds
  BY RuntimeAssumption
<1>3. step \in [Workers -> StepT]
  BY DEF OrderInv, MediaTypes, StepT
<1> QED BY <1>1, <1>2, <1>3 DEF OrderInv, OrdersOK, StepOK, Call

LEMMA AnswersOrders ==
  ASSUME OrderInv, NEW w \in Workers, StoreAnswers(w)
  PROVE  /\ OrdersOK' /\ MediaTypes' /\ Continues(w, task'[worker[w].job])
         /\ Wrote(task[worker[w].job], task'[worker[w].job], Call(w, step[w].at))
         /\ task' = [task EXCEPT ![worker[w].job] = task'[worker[w].job]]
         /\ step[w].at = "begin_submit" => step'[w].at = "post"
<1>1. PICK o : o = Call(w, step[w].at)
  OBVIOUS
<1>2. /\ worker[w].phase = "working" /\ step[w].at \in StoreSteps
      /\ UNCHANGED <<remote, late>>
  BY DEF StoreAnswers, Call
<1>3. PICK u \in Written(o) : Commit(o, u) /\ After(w, u)
  BY <1>1 DEF StoreAnswers
<1>4. PICK j \in Jobs : j = worker[w].job
  BY <1>2, CallOf
<1>5. /\ o.job = j /\ o.at = step[w].at /\ o.at \in StoreSteps /\ o.fence \in Nat
      /\ o.said = step[w].said /\ o.id = step[w].id
      /\ CallOK(j, step[w].at, step[w].said, step[w].id)
      /\ step \in [Workers -> StepT]
  BY <1>1, <1>2, <1>4, CallOf
<1>6. P!TypeOK /\ MediaTypes /\ (resumeInput[j] = "approve" => Answered(j))
  BY DEF OrderInv, P!IInv, OrdersOK
<1>7. Continues(w, u)
  BY <1>3, <1>5, <1>6, Continuing
<1>8. Takes(w) /\ (step'[w].at = "post" => step[w].at = "begin_submit")
  BY <1>7, ContinuesTakes
<1>9. /\ \A i \in Jobs : Answered(i) => Answered(i)'
      /\ \A i \in Jobs : i # j \/ o.at # "begin_submit" => (Posting(i)' => Posting(i))
  BY <1>4, <1>5, <1>6, <1>8, TakesKeeps
<1>10. /\ Jobs1(Jobs) /\ Wrote(task[j], u, o) /\ u \in Task
       /\ task' = [task EXCEPT ![j] = u]
       /\ o.at = "begin_submit" => ~Ordered(j)
       /\ task' \in [Jobs -> Task] /\ usage' \in [Jobs -> SUBSET Nat]
  BY <1>2, <1>3, <1>5, <1>9, CommitRows DEF Wrote
<1>11. task'[j] = u
  BY <1>6, <1>10 DEF MediaTypes
<1>12. Moved(j) /\ RowOK(j)'
  BY <1>10 DEF Jobs1, JobOK
<1>13. ActorOK(w)
  BY <1>2, <1>4, <1>5, <1>6, <1>7, <1>10, <1>11, <1>12, ContinuesActor
<1>14. OrdersOK'
  BY <1>2, <1>8, <1>10, <1>13, HandlerNext DEF Jobs1
<1>15. MediaTypes'
  <2>1. step' \in [Workers -> StepT]
    BY <1>6, <1>8, TakesKeeps
  <2> QED BY <1>2, <1>6, <1>10, <2>1 DEF MediaTypes, StepT
<1>16. step[w].at = "begin_submit" => step'[w].at = "post"
  BY <1>3, <1>6 DEF After, Goto, Tell, MediaTypes
<1> QED BY <1>1, <1>4, <1>5, <1>7, <1>10, <1>11, <1>14, <1>15, <1>16

\* A store call that may be made later.
LateOK(o) ==
  /\ o.job \in Jobs /\ o.by \in WorkerIds /\ o.at \in StoreSteps /\ o.fence \in Nat
  /\ CallOK(o.job, o.at, o.said, o.id)

\* Steps of a handler that leave the rows and the provider alone.
LEMMA QuietEnds ==
  ASSUME OrderInv, NEW w \in Workers, UNCHANGED <<task, remote, usage>>, Takes(w),
         step'[w].at # "post", ActorOK(w),
         \A o \in late' : o \in late \/ LateOK(o)
  PROVE  OrdersOK' /\ MediaTypes'
<1>1. MediaTypes
  BY DEF OrderInv
<1>2. Jobs1(Jobs)
  BY <1>1, RowsSame, TakesKeeps
<1>3. ASSUME NEW o \in late' PROVE o \in late \/ CallOK(o.job, o.at, o.said, o.id)'
  <2>1. CASE LateOK(o)
    BY <1>2, <2>1, CallKept DEF LateOK, Jobs1
  <2> QED BY <1>3, <2>1
<1>4. OrdersOK'
  BY <1>2, <1>3, HandlerNext DEF Jobs1
<1>5. step' \in [Workers -> StepT]
  BY <1>1, TakesKeeps
<1> QED BY <1>1, <1>4, <1>5 DEF MediaTypes, StepT, LateOK

LEMMA QuietGoes ==
  ASSUME OrderInv, NEW w \in Workers, UNCHANGED <<task, remote, usage>>, worker[w].phase # "idle",
         NEW at, NEW said, NEW id, Goes(w, at, said, id), at # "post",
         CallOK(worker[w].job, at, said, id),
         \A o \in late' : o \in late \/ LateOK(o)
  PROVE  OrdersOK' /\ MediaTypes'
<1>1. MediaTypes /\ Takes(w) /\ step'[w].at # "post"
  BY DEF OrderInv, Goes
<1>2. Jobs1(Jobs)
  BY <1>1, RowsSame, TakesKeeps
<1>3. PICK j \in Jobs : j = worker[w].job
  BY CallOf
<1>4. CallOK(j, at, said, id)'
  BY <1>2, <1>3, CallKept DEF Jobs1
<1>5. ActorOK(w)
  BY <1>3, <1>4, GoesActor
<1> QED BY <1>1, <1>5, QuietEnds

\* Whatever w was at, its call may still be made.
LEMMA InFlightLate ==
  ASSUME OrderInv, NEW w \in Workers, worker[w].phase # "idle"
  PROVE  /\ \A o \in InFlight(w) : LateOK(o) /\ o = Call(w, step[w].at) /\ step[w].at \in StoreSteps
         /\ LateOK(Call(w, "mark_unknown"))
<1>1. "mark_unknown" \in StoreSteps
  BY DEF StoreSteps
<1>2. \A said, id : CallOK(worker[w].job, "mark_unknown", said, id)
  BY DEF CallOK
<1> QED BY <1>1, <1>2, CallOf DEF InFlight, LateOK

LEMMA SayOrders ==
  ASSUME OrderInv, NEW w \in Workers,
         Plan(w) \/ Answer(w) \/ Reconcile(w) \/ Poll(w) \/ Deadline(w) \/ Publish(w)
  PROVE  OrdersOK' /\ MediaTypes'
<1>1. UNCHANGED <<task, remote, usage, late>>
  BY DEF Plan, Answer, Reconcile, Poll, Deadline, Publish
<1>2. P!TypeOK /\ MediaTypes /\ step \in [Workers -> StepT]
  BY DEF OrderInv, P!IInv, MediaTypes, StepT
<1>3. worker[w].phase = "working" /\ step[w].at \in {"plan", "answer", "reconcile", "poll", "publish"}
  BY DEF Plan, Answer, Reconcile, Poll, Deadline, Publish, Working
<1>4. PICK j \in Jobs : j = worker[w].job
  BY <1>3, CallOf
<1>5. CallOK(j, step[w].at, step[w].said, step[w].id) /\ RowOK(j) /\ JobOK(j)
  BY <1>3, <1>4, CallOf DEF OrderInv, OrdersOK, JobOK
<1>6. {"reserve", "submitted", "mark_unknown", "polled"} \subseteq Steps
  BY DEF Steps, StoreSteps
<1>7. ASSUME Ends(w) PROVE OrdersOK' /\ MediaTypes'
  BY <1>1, <1>7, EndsActor, QuietEnds DEF Ends
<1>8. ASSUME NEW at \in Steps, NEW said \in Said, NEW id \in Nat, Tell(w, at, said, id),
             at # "post", CallOK(j, at, said, id)
      PROVE  OrdersOK' /\ MediaTypes'
  <2>1. Goes(w, at, said, id)
    BY <1>2, <1>8, TellGoes
  <2> QED BY <1>1, <1>3, <1>4, <1>8, <2>1, QuietGoes
<1>9. ASSUME Review(w) \/ Fail(w) \/ (\E o, v : Return(w, o, v)) PROVE OrdersOK' /\ MediaTypes'
  BY <1>2, <1>7, <1>9, ReturnEnds
<1>10. ASSUME R!RecordModelCall(w) \/ R!RecordArtifact(w), step' = step
       PROVE  OrdersOK' /\ MediaTypes'
  <2>1. RowsKept /\ UNCHANGED worker
    BY <1>10, SameWork, Telling
  <2>2. Takes(w) /\ StepKept(w) /\ step'[w].at # "post"
    BY <1>2, <1>3, <1>10, <2>1 DEF Takes, StepKept, Holding, OthersKept
  <2>3. \A i \in Jobs : Moved(i)
    BY <1>1, <1>2, <2>2, RowsSame, TakesKeeps DEF Jobs1
  <2> QED BY <1>1, <2>2, <2>3, KeptActor, QuietEnds
<1>11. CASE Plan(w)
  <2>1. CASE \E verdict \in {"approved", "rejected"} : Tell(w, "reserve", verdict, 0)
    <3>1. PICK verdict \in {"approved", "rejected"} : Tell(w, "reserve", verdict, 0)
      BY <2>1
    <3>2. CallOK(j, "reserve", verdict, 0) /\ verdict \in Said
      BY DEF CallOK, Said
    <3> QED BY <1>6, <1>8, <3>1, <3>2
  <2> QED BY <1>9, <1>10, <1>11, <2>1 DEF Plan
<1>12. CASE Answer(w)
  <2>1. step[w].at = "answer" /\ step[w].id = 1 /\ remote[j] # <<>>
    BY <1>5, <1>12 DEF Answer, Working, CallOK
  <2>2. CallOK(j, "submitted", "none", 1) /\ CallOK(j, "mark_unknown", "none", 0)
    BY <2>1 DEF CallOK, RemoteEnds
  <2> QED BY <1>6, <1>8, <1>12, <2>1, <2>2 DEF Answer, Goto, Said
<1>13. CASE Reconcile(w)
  <2>1. CASE Review(w)
    BY <1>9, <2>1
  <2>2. ASSUME NEW i \in DOMAIN remote[worker[w].job],
               Tell(w, "submitted", remote[worker[w].job][i], i)
        PROVE  OrdersOK' /\ MediaTypes'
    <3>1. remote[j] \in Seq({"running"} \cup RemoteEnds) /\ Len(remote[j]) =< 1
      BY <1>2, <1>5 DEF MediaTypes, RowOK
    <3>2. i = 1 /\ remote[j] # <<>> /\ remote[j][1] \in {"running"} \cup RemoteEnds
      BY <1>4, <2>2, <3>1
    <3>3. PICK s \in {"running"} \cup RemoteEnds : s = remote[j][1]
      BY <3>2
    <3>4. CallOK(j, "submitted", s, 1) /\ s \in Said
      BY <3>2, <3>3 DEF CallOK, SaidTrue, Said
    <3> QED BY <1>4, <1>6, <1>8, <2>2, <3>2, <3>3, <3>4
  <2> QED BY <1>13, <2>1, <2>2 DEF Reconcile
<1>14. CASE Poll(w)
  <2>1. task[j].remote = 1 /\ remote[j] # <<>> /\ remote[j] \in Seq({"running"} \cup RemoteEnds)
    BY <1>2, <1>5, <1>14 DEF Poll, Working, CallOK, RowOK, MediaTypes
  <2>2. PICK s \in {"running"} \cup RemoteEnds : s = remote[j][1]
    BY <2>1
  <2>3. CallOK(j, "polled", s, 0) /\ s \in Said
    BY <2>1, <2>2 DEF CallOK, SaidTrue, Said
  <2>4. Tell(w, "polled", s, 0)
    BY <1>4, <1>14, <2>1, <2>2 DEF Poll
  <2> QED BY <1>6, <1>8, <2>3, <2>4
<1>15. CASE Deadline(w)
  BY <1>9, <1>15 DEF Deadline
<1>16. CASE Publish(w)
  BY <1>9, <1>10, <1>16 DEF Publish
<1> QED BY <1>11, <1>12, <1>13, <1>14, <1>15, <1>16

LEMMA LeaveOrders ==
  ASSUME OrderInv, NEW w \in Workers, StoreFails(w) \/ FencedOut(w) \/ WorkerStops(w) \/ Interrupt(w)
  PROVE  OrdersOK' /\ MediaTypes' /\ Takes(w) /\ UNCHANGED <<task, remote>>
         /\ (\A o \in late' : o \in late \/ (LateOK(o) /\ o.fence = worker[w].fence /\ o.job = worker[w].job))
<1>1. UNCHANGED <<task, remote, usage>>
  BY DEF StoreFails, FencedOut, WorkerStops, Interrupt
<1>2. P!TypeOK /\ MediaTypes /\ step \in [Workers -> StepT]
  BY DEF OrderInv, P!IInv, MediaTypes, StepT
<1>3. worker[w].phase # "idle"
  BY SameWork, Returning, Leaving, <1>2 DEF StoreFails, FencedOut, WorkerStops, Interrupt
<1>4. late' \subseteq late \cup {Call(w, step[w].at) : x \in {step[w].at} \cap StoreSteps} \cup {Call(w, "mark_unknown")}
  BY DEF StoreFails, FencedOut, WorkerStops, Interrupt, InFlight, Call
<1>5. ASSUME NEW o \in late' PROVE o \in late \/ (LateOK(o) /\ o.fence = worker[w].fence /\ o.job = worker[w].job)
  <2>1. CASE o = Call(w, "mark_unknown")
    BY <1>3, <2>1, InFlightLate, CallOf DEF StoreSteps
  <2>2. CASE o = Call(w, step[w].at) /\ step[w].at \in StoreSteps
    BY <1>3, <2>2, CallOf DEF LateOK
  <2> QED BY <1>4, <1>5, <2>1, <2>2
<1>6. CASE Ends(w)
  BY <1>1, <1>5, <1>6, EndsActor, QuietEnds DEF Ends
<1>7. CASE StoreFails(w)
  <2>1. Ends(w)
    BY <1>2, <1>7, ReturnEnds DEF StoreFails
  <2> QED BY <1>5, <1>1, <1>6, <2>1 DEF Ends
<1>8. CASE FencedOut(w) \/ WorkerStops(w)
  <2>1. P!FencedOut(w) \/ P!WorkerStops(w)
    BY <1>8, SameWork DEF FencedOut, WorkerStops
  <2>2. step' = [step EXCEPT ![w] = Rest]
    BY <1>8 DEF FencedOut, WorkerStops
  <2>3. Rest \in StepT /\ Rest.at = "end" /\ step'[w] = Rest
    BY <1>2, <2>2 DEF Rest, StepT, Steps, Said
  <2>4. Ends(w)
    BY <1>2, <2>1, <2>2, <2>3, Leaving DEF Ends, Takes
  <2> QED BY <1>5, <1>1, <1>6, <2>4 DEF Ends
<1>9. CASE Interrupt(w)
  <2>1. P!HeartbeatCancelled(w)
    BY <1>9, SameWork DEF Interrupt
  <2>2. PICK at \in {"mark_unknown", "begin_cancel", "end"} :
          step' = [step EXCEPT ![w] = [Rest EXCEPT !.at = at]]
    BY <1>9 DEF Interrupt
  <2>3. /\ [Rest EXCEPT !.at = at] \in StepT /\ step'[w] = [Rest EXCEPT !.at = at]
        /\ step'[w].at = at
    BY <1>2, <2>2 DEF Rest, StepT, Steps, StoreSteps, Said
  <2>4. Takes(w) /\ worker'[w].phase = "finishing"
    BY <1>2, <2>1, <2>2, <2>3, Returning DEF Takes
  <2>5. ActorOK(w)
    BY <2>3, <2>4 DEF ActorOK, StepOK, CallOK
  <2> QED BY <1>1, <1>5, <2>3, <2>4, <2>5, QuietEnds
<1> QED BY <1>7, <1>8, <1>9

\* The order goes out, or is refused: either way no other will.
LEMMA PostOrders ==
  ASSUME OrderInv, NEW w \in Workers, Post(w)
  PROVE  OrdersOK' /\ MediaTypes'
<1>1. P!TypeOK /\ MediaTypes /\ step \in [Workers -> StepT]
  BY DEF OrderInv, P!IInv, MediaTypes, StepT
<1>2. /\ worker[w].phase = "working" /\ step[w].at = "post"
      /\ UNCHANGED <<task, usage, late>>
  BY DEF Post, Working
<1>3. PICK j \in Jobs : j = worker[w].job
  BY <1>2, CallOf
<1>4. Posting(j) /\ JobOK(j)
  BY <1>2, <1>3 DEF Posting, OrderInv, OrdersOK
<1>5. /\ remote[j] = <<>> /\ task[j].state \in Unanswered /\ task[j].approved # "no"
      /\ task[j].remote = 0
  BY <1>4 DEF JobOK, PostOK, RowOK
<1>6. \A v \in Workers : v # w /\ step[v].at = "post" => worker[v].job # j
  BY <1>2, <1>3 DEF OrderInv, OrdersOK, OneAtPost
<1>7. ASSUME Takes(w), step'[w].at # "post" PROVE ~Posting(j)'
  BY <1>6, <1>7 DEF Posting, Takes, OthersKept
<1>8. CASE Tell(w, "update_status", "failed", 0) /\ UNCHANGED remote
  <2>1. Goes(w, "update_status", "failed", 0) /\ Takes(w) /\ step'[w].at # "post"
    BY <1>1, <1>8, TellGoes DEF Goes, Steps, StoreSteps, Said, RemoteEnds
  <2>2. CallOK(j, "update_status", "failed", 0)'
    BY <1>2, <1>5, <1>7, <1>8, <2>1 DEF CallOK, SaidTrue, Ordered, Unanswered, RemoteEnds
  <2>3. ActorOK(w)
    BY <1>2, <1>3, <2>1, <2>2, GoesActor
  <2> QED BY <1>2, <1>8, <2>1, <2>3, QuietEnds
<1>9. CASE Goto(w, "mark_unknown") /\ UNCHANGED remote
  <2>1. Goes(w, "mark_unknown", "none", 0)
    BY <1>1, <1>9, GotoGoes DEF Steps, StoreSteps
  <2>2. CallOK(worker[w].job, "mark_unknown", "none", 0)
    BY DEF CallOK
  <2> QED BY <1>2, <1>9, <2>1, <2>2, QuietGoes
<1>10. CASE /\ remote' = [remote EXCEPT ![worker[w].job] = Append(@, "running")]
            /\ Tell(w, "answer", "none", Len(remote[worker[w].job]) + 1)
  <2>1. Len(remote[j]) + 1 = 1 /\ Append(remote[j], "running") = <<"running">>
    BY <1>5
  <2>2. Goes(w, "answer", "none", 1) /\ Takes(w) /\ step'[w].at # "post"
    <3>1. Tell(w, "answer", "none", 1)
      BY <1>3, <1>10, <2>1
    <3>2. Goes(w, "answer", "none", 1)
      BY <1>1, <3>1, TellGoes DEF Steps, Said
    <3> QED BY <3>2 DEF Goes
  <2>3. remote' = [remote EXCEPT ![j] = <<"running">>]
    BY <1>3, <1>10, <2>1
  <2>4. remote'[j] = <<"running">> /\ \A i \in Jobs : i # j => remote'[i] = remote[i]
    BY <1>1, <2>3 DEF MediaTypes
  <2>5. \A i \in Jobs : (Answered(i) => Answered(i)') /\ (Posting(i)' => Posting(i))
    BY <1>1, <2>2, TakesKeeps
  <2>6. Moved(j)
    BY <1>2, <1>4, <1>5, <2>4, <2>5 DEF Moved, Ordered
  <2>7. RowOK(j)'
    BY <1>2, <1>4, <1>5, <2>4, <2>5 DEF JobOK, RowOK, Ordered, Unanswered, TaskEnds
  <2>8. PostOK(j)'
    BY <1>7, <2>2 DEF PostOK
  <2>9. ASSUME NEW i \in Jobs, i # j PROVE Moved(i) /\ JobOK(i)'
    BY <1>2, <2>4, <2>5, <2>9, JobKept DEF OrderInv, OrdersOK
  <2>10. CallOK(j, "answer", "none", 1)'
    BY <2>4 DEF CallOK
  <2>11. ActorOK(w)
    BY <1>2, <1>3, <2>2, <2>10, GoesActor
  <2>12. OrdersOK'
    BY <1>2, <2>2, <2>6, <2>7, <2>8, <2>9, <2>11, HandlerNext DEF JobOK
  <2>13. remote' \in [Jobs -> Seq({"running"} \cup RemoteEnds)]
    BY <1>1, <2>3 DEF MediaTypes
  <2>14. step' \in [Workers -> StepT]
    BY <1>1, <2>2, TakesKeeps
  <2> QED BY <1>1, <1>2, <2>12, <2>13, <2>14 DEF MediaTypes, StepT
<1> QED BY <1>8, <1>9, <1>10 DEF Post

LEMMA DeleteOrders ==
  ASSUME OrderInv, NEW w \in Workers, Delete(w)
  PROVE  OrdersOK' /\ MediaTypes' /\ Takes(w) /\ UNCHANGED <<task, late>> /\ step'[w].at # "post"
<1>1. P!TypeOK /\ MediaTypes /\ step \in [Workers -> StepT]
  BY DEF OrderInv, P!IInv, MediaTypes, StepT
<1>2. /\ worker[w].phase # "idle" /\ step[w].at = "delete"
      /\ UNCHANGED <<task, usage, late>>
  BY DEF Delete
<1>3. PICK j \in Jobs : j = worker[w].job
  BY <1>2, CallOf
<1>4. CallOK(j, step[w].at, step[w].said, step[w].id) /\ JobOK(j)
  BY <1>2, <1>3, CallOf DEF OrderInv, OrdersOK
<1>5. /\ task[j].remote = 1 /\ remote[j] # <<>> /\ remote[j] \in Seq({"running"} \cup RemoteEnds)
      /\ Len(remote[j]) = 1
  <2>1. /\ task[j].remote = 1 /\ remote[j] # <<>> /\ remote[j] \in Seq({"running"} \cup RemoteEnds)
        /\ Len(remote[j]) =< 1
    BY <1>1, <1>2, <1>4 DEF CallOK, JobOK, RowOK, MediaTypes
  <2>2. PICK r \in Seq({"running"} \cup RemoteEnds) : r = remote[j]
    BY <2>1
  <2>3. Len(r) = 1
    <3>1. r # <<>> /\ Len(r) =< 1
      BY <2>1, <2>2
    <3>2. Len(r) # 0
      BY <3>1, EmptySeq
    <3>3. Len(r) \in Nat
      OBVIOUS
    <3>4. PICK n \in Nat : n = Len(r)
      BY <3>3
    <3>5. n =< 1 /\ n # 0
      BY <3>1, <3>2, <3>4
    <3> QED BY <3>4, <3>5
  <2> QED BY <2>1, <2>2, <2>3
<1>6. /\ EndCancelled(w) => Ends(w)
      /\ Goto(w, "end") => Goes(w, "end", "none", 0)
      /\ Goto(w, "mark_cancelled") => Goes(w, "mark_cancelled", "none", 0)
  BY <1>1, CancelEnds, GotoGoes DEF Steps, StoreSteps
<1>7. \/ EndCancelled(w) \/ Goto(w, "end")
      \/ Goto(w, "mark_cancelled") /\ remote' # remote
      \/ Goto(w, "mark_cancelled") /\ remote' = remote
  BY DEF Delete
<1>8. Takes(w) /\ step'[w].at # "post"
  BY <1>6, <1>7 DEF Ends, Goes, Rest
<1>9. PICK q : q = [remote[j] EXCEPT ![1] = IF @ = "running" THEN "cancelled" ELSE @]
  OBVIOUS
<1>10. /\ q \in Seq({"running"} \cup RemoteEnds) /\ Len(q) = 1 /\ q # <<>> /\ q[1] \in RemoteEnds
       /\ remote[j][1] \in RemoteEnds => q[1] = remote[j][1]
  BY <1>5, <1>9 DEF RemoteEnds
<1>11. \/ remote' = remote /\ ~Goto(w, "mark_cancelled")
       \/ remote' = [remote EXCEPT ![j] = q]
  <2>1. [remote EXCEPT ![j][1] = IF @ = "running" THEN "cancelled" ELSE @] = [remote EXCEPT ![j] = q]
    BY <1>9
  <2>2. CASE remote' = remote /\ (EndCancelled(w) \/ Goto(w, "end"))
    <3>1. step'[w].at = "end"
      BY <1>6, <2>2 DEF Ends, Goes, Rest
    <3>2. Goto(w, "mark_cancelled") => step'[w].at = "mark_cancelled"
      BY <1>6 DEF Goes
    <3> QED BY <2>2, <3>1, <3>2
  <2> QED BY <1>2, <1>3, <1>5, <2>1, <2>2 DEF Delete
<1>12. remote' = remote \/ remote' = [remote EXCEPT ![j] = q]
  BY <1>11
<1>13. /\ \A i \in Jobs : i # j => remote'[i] = remote[i]
       /\ remote'[j] = remote[j] \/ remote'[j] = q
       /\ remote' \in [Jobs -> Seq({"running"} \cup RemoteEnds)]
  BY <1>1, <1>10, <1>12 DEF MediaTypes
<1>14. \A i \in Jobs : (Answered(i) => Answered(i)') /\ (Posting(i)' => Posting(i))
  BY <1>1, <1>8, TakesKeeps
<1>15. ASSUME NEW i \in Jobs, remote'[i] = remote[i] PROVE Moved(i) /\ JobOK(i)'
  BY <1>2, <1>14, <1>15, JobKept DEF OrderInv, OrdersOK
<1>16. ASSUME remote'[j] = q PROVE Moved(j) /\ JobOK(j)'
  <2>1. Moved(j)
    BY <1>2, <1>5, <1>10, <1>14, <1>16 DEF Moved, Ordered
  <2>2. RowOK(j)'
    BY <1>2, <1>4, <1>5, <1>10, <1>14, <1>16 DEF JobOK, RowOK, Ordered, RemoteEnds
  <2>3. PostOK(j)'
    BY <1>2, <1>4, <1>5, <1>14 DEF JobOK, PostOK
  <2> QED BY <2>1, <2>2, <2>3 DEF JobOK
<1>17. \A i \in Jobs : Moved(i) /\ JobOK(i)'
  BY <1>13, <1>15, <1>16
<1>18. ActorOK(w)
  <2>1. CASE Ends(w)
    BY <2>1, EndsActor
  <2>2. CASE Goes(w, "end", "none", 0)
    <3>1. CallOK(j, "end", "none", 0)'
      BY DEF CallOK
    <3> QED BY <1>2, <1>3, <2>2, <3>1, GoesActor
  <2>3. CASE Goto(w, "mark_cancelled")
    <3>1. remote'[j] = q
      BY <1>1, <1>11, <2>3 DEF MediaTypes
    <3>2. CallOK(j, "mark_cancelled", "none", 0)'
      BY <1>10, <3>1 DEF CallOK
    <3> QED BY <1>2, <1>3, <1>6, <2>3, <3>2, GoesActor
  <2> QED BY <1>6, <1>7, <2>1, <2>2, <2>3
<1>19. OrdersOK'
  BY <1>2, <1>8, <1>17, <1>18, HandlerNext
<1>20. step' \in [Workers -> StepT]
  BY <1>1, <1>8, TakesKeeps
<1> QED BY <1>1, <1>2, <1>8, <1>13, <1>19, <1>20 DEF MediaTypes, StepT

LEMMA CleanUpOrders ==
  ASSUME OrderInv, NEW w \in Workers, CleanUp(w)
  PROVE  /\ OrdersOK' /\ MediaTypes' /\ Takes(w) /\ UNCHANGED <<worker, remote, late>>
         /\ step'[w].at \in {"delete", "end"}
         /\ \/ UNCHANGED task
            \/ /\ R!Owned(w)
               /\ Wrote(task[worker[w].job], task'[worker[w].job], Call(w, step[w].at))
               /\ task' = [task EXCEPT ![worker[w].job] = task'[worker[w].job]]
<1>1. P!TypeOK /\ MediaTypes /\ step \in [Workers -> StepT]
  BY DEF OrderInv, P!IInv, MediaTypes, StepT
<1>2. /\ worker[w].phase = "finishing" /\ step[w].at \in StoreSteps
      /\ UNCHANGED <<remote, late>>
  BY DEF CleanUp, Call
<1>3. PICK j \in Jobs : j = worker[w].job
  BY <1>2, CallOf
<1>4. PICK o : o = Call(w, step[w].at)
  OBVIOUS
<1>5. /\ o.job = j /\ o.at = step[w].at /\ o.at \in StoreSteps /\ o.fence \in Nat
      /\ o.said = step[w].said /\ o.id = step[w].id
      /\ CallOK(j, step[w].at, step[w].said, step[w].id)
  BY <1>2, <1>3, <1>4, CallOf
<1>6. ASSUME NEW at \in {"delete", "end"}, Goto(w, at)
      PROVE  Goes(w, at, "none", 0) /\ Takes(w) /\ UNCHANGED worker /\ step'[w].at = at
  BY <1>1, <1>6, GotoGoes DEF Goes, Steps
<1>7. \/ R!Owned(w) /\ \E u \in Written(o) : Commit(o, u) /\
            Goto(w, IF o.at = "begin_cancel" THEN "delete" ELSE "end")
      \/ Goto(w, "end") /\ UNCHANGED <<task, usage>>
  BY <1>4 DEF CleanUp
<1>8. CASE Goto(w, "end") /\ UNCHANGED <<task, usage>>
  <2>1. CallOK(worker[w].job, "end", "none", 0)
    BY DEF CallOK
  <2> QED BY <1>2, <1>6, <1>8, <2>1, QuietGoes
<1>9. ASSUME R!Owned(w), NEW u \in Written(o), Commit(o, u),
             NEW at, at = IF o.at = "begin_cancel" THEN "delete" ELSE "end", Goto(w, at)
      PROVE  /\ OrdersOK' /\ MediaTypes' /\ Wrote(task[j], task'[j], o)
             /\ task' = [task EXCEPT ![j] = task'[j]]
  <2>1. Goes(w, at, "none", 0) /\ Takes(w) /\ step'[w].at # "post"
    BY <1>6, <1>9
  <2>2. \A i \in Jobs : (Answered(i) => Answered(i)') /\ (Posting(i)' => Posting(i))
    BY <1>1, <2>1, TakesKeeps
  <2>3. /\ Jobs1(Jobs) /\ Wrote(task[j], u, o)
        /\ task' = [task EXCEPT ![j] = u]
        /\ task' \in [Jobs -> Task] /\ usage' \in [Jobs -> SUBSET Nat]
    BY <1>2, <1>5, <1>9, <2>2, CommitRows
  <2>4. task'[j] = u
    BY <1>1, <2>3 DEF MediaTypes
  <2>5. CallOK(j, at, "none", 0)'
    <3>1. CASE at = "delete"
      <4>1. u.state = "cancel_pending"
        BY <1>9, <2>3, <3>1 DEF Wrote, WritesOK
      <4>2. RowOK(j)'
        BY <2>3 DEF Jobs1, JobOK
      <4> QED BY <2>4, <3>1, <4>1, <4>2 DEF CallOK, RowOK
    <3>2. CASE at = "end"
      BY <3>2 DEF CallOK
    <3> QED BY <1>9, <3>1, <3>2
  <2>6. ActorOK(w)
    BY <1>2, <1>3, <1>9, <2>1, <2>5, GoesActor
  <2>7. OrdersOK'
    BY <1>2, <2>1, <2>3, <2>6, HandlerNext DEF Jobs1
  <2>8. step' \in [Workers -> StepT]
    BY <1>1, <2>1, TakesKeeps
  <2> QED BY <1>1, <1>2, <2>3, <2>4, <2>7, <2>8 DEF MediaTypes, StepT
<1>10. CASE R!Owned(w) /\ \E u \in Written(o) : Commit(o, u) /\
               Goto(w, IF o.at = "begin_cancel" THEN "delete" ELSE "end")
  <2>1. PICK u \in Written(o), at \in {"delete", "end"} :
          /\ Commit(o, u) /\ Goto(w, at)
          /\ at = IF o.at = "begin_cancel" THEN "delete" ELSE "end"
    BY <1>10
  <2> QED BY <1>2, <1>3, <1>4, <1>6, <1>9, <1>10, <2>1
<1> QED BY <1>7, <1>8, <1>10

\* A call whose handler is gone.
LEMMA LateOrders ==
  ASSUME OrderInv, NEW o \in late, LateCommit(o)
  PROVE  /\ OrdersOK' /\ MediaTypes' /\ UNCHANGED <<runtimeVars, step>> /\ late' \subseteq late
         /\ \/ UNCHANGED task
            \/ /\ LeaseGood(o) /\ Wrote(task[o.job], task'[o.job], o)
               /\ task' = [task EXCEPT ![o.job] = task'[o.job]]
<1>1. MediaTypes /\ o.at \in StoreSteps /\ o.fence \in Nat /\ CallOK(o.job, o.at, o.said, o.id)
  BY DEF OrderInv, OrdersOK, MediaTypes
<1>2. PICK j \in Jobs : j = o.job
  BY DEF OrderInv, MediaTypes
<1>3. late' \subseteq late /\ UNCHANGED <<runtimeVars, remote, step>>
  BY DEF LateCommit
<1>4. /\ \A i \in Jobs : (Answered(i) => Answered(i)') /\ (Posting(i)' => Posting(i))
      /\ \A w \in Workers : StepKept(w) /\ worker'[w] = worker[w]
      /\ resumeInput' = resumeInput
  BY <1>3 DEF runtimeVars, Answered, Posting, StepKept
<1>5. ASSUME Jobs1(Jobs), task' \in [Jobs -> Task], usage' \in [Jobs -> SUBSET Nat]
      PROVE  OrdersOK' /\ MediaTypes'
  <2>1. \A i \in Jobs : resumeInput'[i] = "approve" => Answered(i)'
    BY <1>4 DEF OrderInv, OrdersOK
  <2>2. \A w \in Workers : ActorOK(w)
    BY <1>4, <1>5, KeptActor DEF Jobs1
  <2>3. \A v \in Workers : v # NoWorker => StepKept(v)
    BY <1>4
  <2>4. OrdersOK'
    BY <1>3, <1>5, <2>1, <2>2, <2>3, OrdersNext DEF Jobs1
  <2> QED BY <1>1, <1>3, <1>5, <2>4 DEF MediaTypes
<1>6. CASE UNCHANGED <<task, usage>>
  <2>1. Jobs1(Jobs)
    BY <1>3, <1>4, <1>6, RowsSame
  <2> QED BY <1>1, <1>3, <1>5, <1>6, <2>1 DEF MediaTypes
<1>7. ASSUME LeaseGood(o), NEW u \in Written(o), Commit(o, u)
      PROVE  /\ OrdersOK' /\ MediaTypes' /\ Wrote(task[j], task'[j], o)
             /\ task' = [task EXCEPT ![j] = task'[j]]
  <2>1. /\ Jobs1(Jobs) /\ Wrote(task[j], u, o)
        /\ task' = [task EXCEPT ![j] = u]
        /\ task' \in [Jobs -> Task] /\ usage' \in [Jobs -> SUBSET Nat]
    BY <1>1, <1>2, <1>3, <1>4, <1>7, CommitRows
  <2>2. task'[j] = u
    BY <1>1, <2>1 DEF MediaTypes
  <2> QED BY <1>5, <2>1, <2>2
<1> QED BY <1>2, <1>3, <1>6, <1>7 DEF LateCommit

LEMMA RemoteOrders ==
  ASSUME OrderInv, NEW j \in Jobs, RemoteEndsTask(j)
  PROVE  OrdersOK' /\ MediaTypes'
<1>1. MediaTypes /\ JobOK(j)
  BY DEF OrderInv, OrdersOK
<1>2. UNCHANGED <<runtimeVars, task, usage, step, late>>
  BY DEF RemoteEndsTask
<1>3. PICK i \in DOMAIN remote[j], s \in {"succeeded", "failed"} :
        remote[j][i] = "running" /\ remote' = [remote EXCEPT ![j][i] = s]
  BY DEF RemoteEndsTask
<1>4. PICK r \in Seq({"running"} \cup RemoteEnds) : r = remote[j]
  BY <1>1 DEF MediaTypes
<1>5. Len(r) =< 1 /\ i = 1 /\ r # <<>> /\ r[1] = "running"
  BY <1>1, <1>3, <1>4 DEF JobOK, RowOK
<1>6. PICK q : q = [r EXCEPT ![1] = s]
  OBVIOUS
<1>7. q \in Seq({"running"} \cup RemoteEnds) /\ Len(q) =< 1 /\ q # <<>> /\ q[1] \in RemoteEnds
  BY <1>4, <1>5, <1>6 DEF RemoteEnds
<1>8. remote' = [remote EXCEPT ![j] = q]
  BY <1>3, <1>4, <1>5, <1>6
<1>9. /\ remote'[j] = q /\ \A k \in Jobs : k # j => remote'[k] = remote[k]
      /\ remote' \in [Jobs -> Seq({"running"} \cup RemoteEnds)]
  BY <1>1, <1>7, <1>8 DEF MediaTypes
<1>10. /\ \A k \in Jobs : (Answered(k) => Answered(k)') /\ (Posting(k)' => Posting(k))
       /\ \A w \in Workers : StepKept(w)
       /\ resumeInput' = resumeInput
  BY <1>2 DEF runtimeVars, Answered, Posting, StepKept
<1>11. Moved(j)
  BY <1>2, <1>4, <1>5, <1>7, <1>9, <1>10 DEF Moved, Ordered, RemoteEnds
<1>12. RowOK(j)'
  BY <1>1, <1>2, <1>4, <1>5, <1>7, <1>9, <1>10 DEF JobOK, RowOK, Ordered, RemoteEnds
<1>13. PostOK(j)'
  BY <1>1, <1>4, <1>5, <1>10 DEF JobOK, PostOK
<1>14. \A k \in Jobs : Moved(k) /\ JobOK(k)'
  <2>1. ASSUME NEW k \in Jobs, k # j PROVE Moved(k) /\ JobOK(k)'
    BY <1>2, <1>9, <1>10, <2>1, JobKept DEF OrderInv, OrdersOK
  <2> QED BY <1>11, <1>12, <1>13, <2>1 DEF JobOK
<1>15. \A k \in Jobs : resumeInput'[k] = "approve" => Answered(k)'
  BY <1>10 DEF OrderInv, OrdersOK
<1>16. \A w \in Workers : ActorOK(w)
  BY <1>10, <1>14, KeptActor
<1>17. OrdersOK'
  <2>1. \A v \in Workers : v # NoWorker => StepKept(v)
    BY <1>10
  <2> QED BY <1>2, <1>14, <1>15, <1>16, <2>1, OrdersNext
<1> QED BY <1>1, <1>2, <1>9, <1>17 DEF MediaTypes

-----------------------------------------------------------------------------
(* The job store's own steps.                                              *)

LEMMA Delivered ==
  ASSUME P!TypeOK, NEW c \in Commands, P!Deliver(c)
  PROVE  /\ inbox \subseteq inbox' /\ UNCHANGED <<worker, fence, owner, lease>>
         /\ \A j \in Jobs : resumeInput'[j] = "approve" => resumeInput[j] = "approve" \/ Answered(j)'
         /\ \A j \in Jobs : Answered(j) => Answered(j)'
<1>1. /\ inbox' = inbox \cup {c} /\ UNCHANGED <<worker, fence, owner, lease>>
      /\ \/ UNCHANGED resumeInput
         \/ c.type = "job.resume" /\ resumeInput' = [resumeInput EXCEPT ![c.job] = c.action]
  BY DEF P!Deliver, P!AcceptTask, P!AcceptCancel, P!AcceptResume, P!NewInInbox
<1>2. resumeInput \in [Jobs -> P!ResumeActions \cup {"none"}]
  BY DEF P!TypeOK
<1>3. ASSUME NEW j \in Jobs, resumeInput'[j] = "approve" PROVE resumeInput[j] = "approve" \/ Answered(j)'
  BY <1>1, <1>2, <1>3 DEF Answered
<1> QED BY <1>1, <1>3 DEF Answered

\* A claim takes a job for a worker that had none, and gives it a new token.
LEMMA Claimed ==
  ASSUME P!TypeOK, NEW w \in Workers, NEW j \in Jobs, P!Claim(w, j)
  PROVE  /\ OthersKept(w) /\ UNCHANGED <<inbox, resumeInput>>
         /\ worker'[w].job = j /\ worker'[w].fence = fence[j] + 1 /\ worker'[w].phase = "working"
         /\ worker[w].phase = "idle" /\ status[j] # "none" /\ status'[j] # "none"
<1>1. worker' = [worker EXCEPT ![w] =
         [P!Idle EXCEPT !.job = j, !.fence = fence[j] + 1, !.phase = "working",
                        !.draft = P!ApprovedDraft(j)]]
  BY DEF P!Claim
<1>2. /\ worker'[w].job = j /\ worker'[w].fence = fence[j] + 1 /\ worker'[w].phase = "working"
  BY <1>1 DEF P!TypeOK, P!Idle
<1>3. status[j] # "none" /\ status'[j] # "none"
  BY DEF P!Claim, P!Claimable, P!ClaimRows
<1> QED BY <1>1, <1>2, <1>3 DEF P!Claim, OthersKept, P!TypeOK

LEMMA Finished ==
  ASSUME P!TypeOK, NEW w \in Workers, P!Finish(w)
  PROVE  /\ OthersKept(w) /\ UNCHANGED <<inbox, resumeInput, fence>> /\ Leaves(w)
         /\ worker[w].phase = "finishing"
BY DEF P!Finish, P!TypeOK, P!Idle, OthersKept, Leaves

\* What the store writes into the rows of the cancellations it settles.
LEMMA SettledRows ==
  ASSUME OrderInv, NEW S, CancelTasks(S), UNCHANGED <<remote, usage>>,
         \A j \in Jobs : (Answered(j) => Answered(j)') /\ (Posting(j)' => Posting(j))
  PROVE  /\ Jobs1(Jobs) /\ task' \in [Jobs -> Task]
         /\ \A j \in Jobs :
              /\ task'[j].fence = task[j].fence
              /\ task[j].state = "none" => task'[j].state = "none"
              /\ task'[j].state = "submitting" => task[j].state = "submitting" /\ j \notin S
<1>1. MediaTypes /\ \A j \in Jobs : JobOK(j)
  BY DEF OrderInv, OrdersOK
<1>2. ASSUME NEW j \in Jobs
      PROVE  /\ Moved(j) /\ JobOK(j)' /\ task'[j] \in Task
             /\ task'[j].fence = task[j].fence
             /\ task[j].state = "none" => task'[j].state = "none"
             /\ task'[j].state = "submitting" => task[j].state = "submitting" /\ j \notin S
  <2>1. CASE j \in S
    <3>1. task'[j] = Cancelled(task[j])
      BY <2>1 DEF CancelTasks
    <3> QED BY <1>1, <2>1, <3>1, Cancelling
  <2>2. CASE j \notin S
    <3>1. task'[j] = task[j]
      BY <2>2 DEF CancelTasks
    <3> QED BY <1>1, <2>2, <3>1, JobKept DEF MediaTypes
  <2> QED BY <2>1, <2>2
<1>3. task' = [j \in Jobs |-> task'[j]]
  BY DEF CancelTasks
<1> QED BY <1>2, <1>3 DEF Jobs1

LEMMA StoreOrders ==
  ASSUME OrderInv, NEW a, NEW S, CancelTasks(S), UNCHANGED <<remote, usage, late>>,
         \A j \in Jobs : Answered(j) => Answered(j)',
         \A j \in Jobs : resumeInput'[j] = "approve" => resumeInput[j] = "approve" \/ Answered(j)',
         \A v \in Workers : v # a => StepKept(v),
         a \in Workers, StepOK(a)', step'[a].at # "post",
         \E x \in StepT : step' = [step EXCEPT ![a] = x]
  PROVE  OrdersOK' /\ MediaTypes'
<1>1. MediaTypes
  BY DEF OrderInv
<1>2. \A j \in Jobs : Posting(j)' => Posting(j)
  BY DEF Posting, StepKept
<1>3. Jobs1(Jobs) /\ task' \in [Jobs -> Task]
  BY <1>2, SettledRows
<1>4. \A j \in Jobs : resumeInput'[j] = "approve" => Answered(j)'
  BY DEF OrderInv, OrdersOK
<1>5. ActorOK(a)
  BY DEF ActorOK
<1>6. OrdersOK'
  BY <1>3, <1>4, <1>5, OrdersNext DEF Jobs1
<1>7. step' \in [Workers -> StepT]
  BY <1>1 DEF MediaTypes, StepT
<1> QED BY <1>1, <1>3, <1>6, <1>7 DEF MediaTypes, StepT

LEMMA CommandOrders ==
  ASSUME OrderInv, (\E c \in Commands : Deliver(c)) \/ (\E j \in Jobs : LeaseExpires(j))
  PROVE  OrdersOK' /\ MediaTypes'
<1>1. P!TypeOK /\ MediaTypes
  BY DEF OrderInv, P!IInv
<1>2. CASE \E c \in Commands : Deliver(c)
  <2>1. PICK c \in Commands : Deliver(c)
    BY <1>2
  <2>2. P!Deliver(c)
    BY <2>1, SameDeliver DEF Deliver
  <2>3. /\ UNCHANGED <<remote, usage, step, late, worker>>
        /\ \A j \in Jobs : (Answered(j) => Answered(j)') /\ (resumeInput'[j] = "approve" => resumeInput[j] = "approve" \/ Answered(j)')
    BY <1>1, <2>1, <2>2, Delivered DEF Deliver
  <2>4. PICK S : CancelTasks(S)
    BY <2>1 DEF Deliver
  <2>5. \A v \in Workers : StepKept(v)
    BY <2>3 DEF StepKept
  <2>6. \A i \in Jobs : Posting(i)' => Posting(i)
    BY <2>3 DEF Posting
  <2>7. Jobs1(Jobs) /\ task' \in [Jobs -> Task]
    BY <2>3, <2>4, <2>6, SettledRows
  <2>8. \A v \in Workers : ActorOK(v)
    BY <2>5, <2>7, KeptActor DEF Jobs1
  <2>9. \A i \in Jobs : resumeInput'[i] = "approve" => Answered(i)'
    BY <2>3 DEF OrderInv, OrdersOK
  <2>10. \A v \in Workers : v # NoWorker => StepKept(v)
    BY <2>5
  <2>11. OrdersOK'
    BY <2>3, <2>7, <2>8, <2>9, <2>10, OrdersNext DEF Jobs1
  <2> QED BY <1>1, <2>3, <2>7, <2>11 DEF MediaTypes
<1>3. CASE \E j \in Jobs : LeaseExpires(j)
  <2>1. UNCHANGED <<task, remote, usage, step, late, worker, inbox, resumeInput>>
    BY <1>3, SameExpire DEF LeaseExpires, P!LeaseExpires, mediaVars
  <2>2. \A v \in Workers : StepKept(v)
    BY <2>1 DEF StepKept
  <2>3. \A i \in Jobs : (Answered(i) => Answered(i)') /\ (Posting(i)' => Posting(i))
    BY <2>1 DEF Posting, Answered
  <2>4. Jobs1(Jobs)
    BY <2>1, <2>3, RowsSame
  <2>5. \A v \in Workers : ActorOK(v)
    BY <2>2, <2>4, KeptActor DEF Jobs1
  <2>6. \A i \in Jobs : resumeInput'[i] = "approve" => Answered(i)'
    BY <2>1, <2>3 DEF OrderInv, OrdersOK
  <2>7. \A v \in Workers : v # NoWorker => StepKept(v)
    BY <2>2
  <2>8. OrdersOK'
    BY <2>1, <2>4, <2>5, <2>6, <2>7, OrdersNext DEF Jobs1
  <2> QED BY <1>1, <2>1, <2>8 DEF MediaTypes
<1> QED BY <1>2, <1>3

LEMMA ClaimOrders ==
  ASSUME OrderInv, NEW w \in Workers, Claim(w) \/ Finish(w)
  PROVE  OrdersOK' /\ MediaTypes'
<1>1. P!TypeOK /\ MediaTypes /\ step \in [Workers -> StepT] /\ StepOK(w)
  BY DEF OrderInv, P!IInv, OrdersOK, MediaTypes, StepT
<1>2. UNCHANGED <<remote, usage, late>>
  BY DEF Claim, Finish
<1>3. ASSUME NEW S, CancelTasks(S), OthersKept(w), UNCHANGED <<inbox, resumeInput>>,
             StepOK(w)', step'[w].at # "post", NEW x \in StepT, step' = [step EXCEPT ![w] = x]
      PROVE  OrdersOK' /\ MediaTypes'
  <2>1. \A v \in Workers : v # w => StepKept(v)
    BY <1>1, <1>3 DEF StepKept, OthersKept
  <2>2. /\ \A i \in Jobs : Answered(i) => Answered(i)'
        /\ \A i \in Jobs : resumeInput'[i] = "approve" => resumeInput[i] = "approve" \/ Answered(i)'
    BY <1>3 DEF Answered
  <2> QED BY <1>2, <1>3, <2>1, <2>2, StoreOrders
<1>4. ASSUME NEW at \in {"start", "end"}, step'[w].at = at, worker'[w].phase = "idle" => at = "end"
      PROVE  StepOK(w)' /\ step'[w].at # "post"
  BY <1>4 DEF StepOK, CallOK
<1>5. CASE Claim(w)
  <2>1. CancelTasks(R!Swept)
    BY <1>5 DEF Claim
  <2>2. CASE R!ClaimNothing(w) /\ UNCHANGED step
    <3>1. UNCHANGED <<worker, inbox, resumeInput>> /\ OthersKept(w) /\ worker[w].phase = "idle"
      BY <2>2, SameClaims DEF P!ClaimNothing, OthersKept
    <3>2. step[w].at = "end" /\ step' = [step EXCEPT ![w] = step[w]] /\ step[w] \in StepT
      BY <1>1, <2>2, <3>1 DEF StepOK
    <3>3. StepOK(w)' /\ step'[w].at # "post"
      BY <1>4, <2>2, <3>2
    <3> QED BY <1>3, <2>1, <3>1, <3>2, <3>3
  <2>3. CASE \E j \in Jobs : R!Claim(w, j) /\ step' = [step EXCEPT ![w] = [Rest EXCEPT !.at = "start"]]
    <3>1. PICK j \in Jobs : P!Claim(w, j)
      BY <2>3, SameClaims
    <3>2. step' = [step EXCEPT ![w] = [Rest EXCEPT !.at = "start"]]
      BY <2>3
    <3>3. [Rest EXCEPT !.at = "start"] \in StepT /\ step'[w].at = "start"
      BY <1>1, <3>2 DEF Rest, StepT, Steps, StoreSteps, Said
    <3>4. OthersKept(w) /\ UNCHANGED <<inbox, resumeInput>> /\ worker'[w].phase = "working"
      BY <1>1, <3>1, Claimed
    <3>5. StepOK(w)' /\ step'[w].at # "post"
      BY <1>4, <3>3, <3>4
    <3> QED BY <1>3, <2>1, <3>2, <3>3, <3>4, <3>5
  <2> QED BY <1>5, <2>2, <2>3 DEF Claim
<1>6. CASE Finish(w)
  <2>1. step' = step /\ step[w].at = "end"
    BY <1>6 DEF Finish
  <2>2. step' = [step EXCEPT ![w] = step[w]] /\ step[w] \in StepT
    BY <1>1, <2>1
  <2>3. StepOK(w)' /\ step'[w].at # "post"
    BY <1>4, <2>1
  <2>4. \E S : CancelTasks(S)
    <3>1. CASE UNCHANGED task
      <4>1. CancelTasks({})
        BY <1>1, <3>1 DEF CancelTasks, MediaTypes
      <4> QED BY <4>1
    <3> QED BY <1>6, <3>1 DEF Finish
  <2>5. OthersKept(w) /\ UNCHANGED <<inbox, resumeInput>>
    BY <1>1, <1>6, SameFinish, Finished, Leaving DEF Finish, RowsKept
  <2> QED BY <1>3, <2>2, <2>3, <2>4, <2>5
<1> QED BY <1>5, <1>6

-----------------------------------------------------------------------------
(* One submission, honest ends.                                            *)

LEMMA OrdersStep == OrderInv /\ P!IInv' /\ [Next]_vars => OrderInv'
<1> SUFFICES ASSUME OrderInv, [Next]_vars PROVE OrdersOK' /\ MediaTypes'
  BY DEF OrderInv
<1>1. CASE \E c \in Commands : Deliver(c)
  BY <1>1, CommandOrders
<1>2. CASE \E j \in Jobs : LeaseExpires(j)
  BY <1>2, CommandOrders
<1>3. CASE \E j \in Jobs : RemoteEndsTask(j)
  BY <1>3, RemoteOrders
<1>4. CASE \E o \in late : LateCommit(o)
  BY <1>4, LateOrders
<1>5. ASSUME NEW w \in Workers,
             Claim(w) \/ Handle(w) \/ Poll(w) \/ Deadline(w) \/ WorkerStops(w)
      PROVE  OrdersOK' /\ MediaTypes'
  <2>1. CASE Claim(w) \/ Finish(w)
    BY <2>1, ClaimOrders
  <2>2. CASE StoreAnswers(w)
    BY <2>2, AnswersOrders
  <2>3. CASE StoreFails(w) \/ FencedOut(w) \/ WorkerStops(w) \/ Interrupt(w)
    BY <2>3, LeaveOrders
  <2>4. CASE Plan(w) \/ Answer(w) \/ Reconcile(w) \/ Poll(w) \/ Deadline(w) \/ Publish(w)
    BY <2>4, SayOrders
  <2>5. CASE Post(w)
    BY <2>5, PostOrders
  <2>6. CASE Delete(w)
    BY <2>6, DeleteOrders
  <2>7. CASE CleanUp(w)
    BY <2>7, CleanUpOrders
  <2> QED BY <1>5, <2>1, <2>2, <2>3, <2>4, <2>5, <2>6, <2>7 DEF Handle
<1>6. CASE UNCHANGED vars
  <2>1. UNCHANGED <<task, remote, usage, step, late, worker, inbox, resumeInput>>
    BY <1>6 DEF vars, mediaVars, runtimeVars
  <2> QED BY <2>1 DEF OrderInv, MediaTypes, OrdersOK, JobOK, RowOK, PostOK, Posting, Ordered,
          Answered, OneAtPost, StepOK, CallOK, SaidTrue
<1> QED BY <1>1, <1>2, <1>3, <1>4, <1>5, <1>6 DEF Next

LEMMA OrdersInit == Init /\ P!IInv => OrderInv
<1> SUFFICES ASSUME Init, P!IInv PROVE MediaTypes /\ OrdersOK
  BY DEF OrderInv
<1>1. /\ task = [j \in Jobs |-> NoTask] /\ remote = [j \in Jobs |-> <<>>]
      /\ usage = [j \in Jobs |-> {}] /\ step = [w \in Workers |-> Rest] /\ late = {}
  BY DEF Init
<1>2. \A j \in Jobs : resumeInput[j] = "none"
  BY SameInit DEF Init, P!Init
<1>3. NoTask \in Task /\ Rest \in StepT /\ Rest.at = "end"
  BY DEF NoTask, Task, TaskStates, Rest, StepT, Steps, Said
<1>4. MediaTypes
  BY <1>1, <1>3 DEF MediaTypes, StepT
<1>5. ASSUME NEW j \in Jobs PROVE JobOK(j) /\ ~Posting(j)
  BY <1>1, <1>3 DEF JobOK, RowOK, PostOK, Posting, NoTask, Unanswered, TaskEnds, Ordered
<1>6. ASSUME NEW w \in Workers PROVE StepOK(w) /\ step[w].at = "end"
  BY <1>1, <1>3 DEF StepOK, CallOK
<1> QED BY <1>1, <1>2, <1>4, <1>5, <1>6 DEF OrdersOK, OneAtPost

THEOREM OrderInvariance == Spec => []OrderInv
<1>1. Init /\ P!IInv => OrderInv
  BY OrdersInit
<1>2. OrderInv /\ P!IInv' /\ [Next]_vars => OrderInv'
  BY OrdersStep
<1> QED BY <1>1, <1>2, StoreInvariance, PTL DEF Spec

\* A video is ordered at most once, and only after its plan was accepted:
\* crashes, lost answers, late store calls, approvals and reconciliations
\* included (execute_video_task, PostgresMediaTaskStore).
THEOREM OrderedOnce == Spec => []OneSubmission
<1>1. OrderInv => OneSubmission
  <2> SUFFICES ASSUME OrderInv, NEW j \in Jobs
               PROVE  /\ Len(remote[j]) =< 1
                      /\ remote[j] # <<>> /\ task[j].approved # "model" => Answered(j)
    BY DEF OneSubmission, ReviewedBeforeOrder, Answered
  <2>1. RowOK(j) /\ task[j] \in Task
    BY DEF OrderInv, OrdersOK, JobOK, MediaTypes
  <2> QED BY <2>1 DEF RowOK, Task
<1> QED BY <1>1, OrderInvariance, PTL

\* The row never says of a running video that it has ended, nor forgets one, and
\* the use of an ended one is recorded.
THEOREM HonestEnds == Spec => []EndsHonestly
<1>1. OrderInv => EndsHonestly
  <2> SUFFICES ASSUME OrderInv, NEW j \in Jobs
                 PROVE  /\ \A i \in DOMAIN remote[j] : remote[j][i] = "running" =>
                             /\ task[j].state \notin TaskEnds
                             /\ task[j].remote = i \/ task[j].state \in Unanswered
                        /\ usage[j] = IF task[j].remote # 0 /\ task[j].state \in TaskEnds
                                      THEN {task[j].remote} ELSE {}
    BY DEF EndsHonestly, UsageRecorded
  <2>2. RowOK(j) /\ remote[j] \in Seq({"running"} \cup RemoteEnds)
    <3>1. JobOK(j) /\ MediaTypes
      BY DEF OrderInv, OrdersOK
    <3> QED BY <3>1 DEF JobOK, MediaTypes
  <2>3. ASSUME NEW i \in DOMAIN remote[j] PROVE i = 1 /\ remote[j] # <<>>
    BY <2>2, <2>3 DEF RowOK
  <2> QED BY <2>2, <2>3 DEF RowOK
<1> QED BY <1>1, OrderInvariance, PTL

-----------------------------------------------------------------------------
(* Whose turn it is.                                                       *)

\* A worker that holds a good lease of a job whose order is being sent is the
\* one that sends it, or has just claimed the job of one that did.
HandOK(w) ==
  LET j == worker[w].job
  IN /\ worker[w].phase = "finishing" =>
          step[w].at \in {"mark_unknown", "begin_cancel", "delete", "mark_cancelled", "end"}
     /\ R!Owned(w) /\ task[j].state = "submitting" =>
          \/ /\ worker[w].phase = "working"
             /\ \/ step[w].at = "start" /\ task[j].fence < worker[w].fence
                \/ step[w].at \in {"post", "answer", "submitted", "mark_unknown", "update_status"}
          \/ worker[w].phase = "finishing" /\ worker[w].outcome # "waiting_review"
\* A call of a handler that is gone carries a token no handler at work has.
CallGone(o) ==
  /\ o.fence =< fence[o.job]
  /\ \A w \in Workers :
       worker[w].job = o.job /\ worker[w].fence = o.fence =>
         worker[w].phase = "finishing" /\ worker[w].outcome # "waiting_review"
RowShown(j) ==
  /\ status[j] = "none" => task[j].state = "none"
  /\ task[j].fence =< fence[j]
  /\ status[j] \in {"waiting_review", "cancelled"} => task[j].state # "submitting"

DoubtOK ==
  /\ \A j \in Jobs : RowShown(j)
  /\ \A o \in late : CallGone(o)
  /\ \A w \in Workers : HandOK(w)
DoubtInv == OrderInv /\ DoubtOK

\* How a handler's step moves its worker.
Hands(w) ==
  \/ worker'[w] = worker[w]
  \/ Leaves(w)
  \/ /\ worker[w].phase = "working" /\ worker'[w].phase = "finishing"
     /\ Holding(w)

LEMMA HandlesHands ==
  ASSUME P!TypeOK, NEW w \in Workers, Handles(w)
  PROVE  RowsKept /\ OthersKept(w) /\ Hands(w)
<1>1. CASE P!HandlerReturns(w) \/ P!HeartbeatCancelled(w)
  BY <1>1, Returning DEF Hands
<1>2. CASE P!FencedOut(w) \/ P!WorkerStops(w)
  BY <1>2, Leaving DEF Hands
<1>3. CASE P!RecordModelCall(w) \/ P!RecordArtifact(w) \/ UNCHANGED runtimeVars
  BY <1>3, Telling DEF Hands, OthersKept
<1> QED BY <1>1, <1>2, <1>3 DEF Handles

LEMMA OwnedIs ==
  ASSUME NEW w
  PROVE  R!Owned(w) <=>
           /\ worker[w].job \in Jobs /\ owner[worker[w].job] = WorkerId[w]
           /\ fence[worker[w].job] = worker[w].fence
           /\ status[worker[w].job] \in {"running", "cancel_requested"}
           /\ lease[worker[w].job] = "live"
BY DEF R!Owned, R!Leased

LEMMA OneOwner ==
  ASSUME P!IInv, NEW v \in Workers, NEW w \in Workers, R!Owned(v), R!Owned(w),
         worker[v].job = worker[w].job
  PROVE  v = w
BY OwnedIs DEF P!IInv, P!ClaimsOK

\* A handler's step takes nobody's lease.
LEMMA OwnedKept ==
  ASSUME NEW w \in Workers, RowsKept, OthersKept(w), Hands(w), NEW v \in Workers, R!Owned(v)'
  PROVE  R!Owned(v) /\ worker'[v].job = worker[v].job /\ worker'[v].fence = worker[v].fence
<1>1. worker'[v].job \in Jobs
  BY DEF R!Owned
<1>2. worker'[v].job = worker[v].job /\ worker'[v].fence = worker[v].fence
  BY <1>1, RuntimeAssumption DEF OthersKept, Hands, Leaves, Holding
<1> QED BY <1>2 DEF R!Owned, R!Leased, RowsKept

LEMMA TakesDoubt ==
  ASSUME DoubtInv, NEW w \in Workers, Takes(w), Hands(w), HandOK(w)',
         \/ UNCHANGED task
         \/ /\ R!Owned(w)
            /\ Wrote(task[worker[w].job], task'[worker[w].job], Call(w, step[w].at))
            /\ task' = [task EXCEPT ![worker[w].job] = task'[worker[w].job]],
         \A o \in late' :
           \/ o \in late
           \/ /\ o.fence = worker[w].fence /\ o.job = worker[w].job /\ o.job \in Jobs
              /\ Leaves(w) \/ (worker'[w].phase = "finishing" /\ worker'[w].outcome # "waiting_review")
  PROVE  DoubtOK'
<1>1. P!IInv /\ P!TypeOK /\ P!ClaimsOK /\ MediaTypes /\ RowsKept /\ OthersKept(w)
  BY DEF DoubtInv, OrderInv, P!IInv, Takes
<1>2. ASSUME NEW j \in Jobs PROVE RowShown(j)'
  <2>1. RowShown(j)
    BY DEF DoubtInv, DoubtOK
  <2>2. CASE task'[j] = task[j]
    BY <1>1, <2>1, <2>2 DEF RowShown, RowsKept
  <2>3. CASE task'[j] # task[j]
    <3>1. R!Owned(w) /\ j = worker[w].job /\ Wrote(task[j], task'[j], Call(w, step[w].at))
      BY <1>1, <2>3 DEF MediaTypes
    <3>2. /\ status[j] \in {"running", "cancel_requested"} /\ fence[j] = worker[w].fence
          /\ task'[j].fence \in {task[j].fence, worker[w].fence}
      BY <3>1, OwnedIs DEF Wrote, Call
    <3>3. fence[j] \in Nat /\ task[j].fence \in Nat
      BY <1>1 DEF P!TypeOK, MediaTypes, Task
    <3> QED BY <1>1, <2>1, <3>2, <3>3 DEF RowShown, RowsKept
  <2> QED BY <2>2, <2>3
<1>3. ASSUME NEW v \in Workers PROVE HandOK(v)'
  <2>1. CASE v = w
    BY <2>1
  <2>2. CASE v # w
    <3>1. worker'[v] = worker[v] /\ step'[v] = step[v] /\ HandOK(v)
      BY <1>1, <1>3, <2>2 DEF Takes, OthersKept, MediaTypes, DoubtInv, DoubtOK
    <3>2. R!Owned(v)' => R!Owned(v)
      BY <1>1, OwnedKept
    <3>3. R!Owned(v) => task'[worker[v].job] = task[worker[v].job]
      <4>1. R!Owned(v) /\ R!Owned(w) => worker[v].job # worker[w].job
        BY <1>1, <2>2, OneOwner
      <4>2. R!Owned(v) => worker[v].job \in Jobs
        BY DEF R!Owned
      <4> QED BY <1>1, <4>1, <4>2 DEF MediaTypes
    <3> QED BY <3>1, <3>2, <3>3 DEF HandOK
  <2> QED BY <2>1, <2>2
<1>4. ASSUME NEW o \in late' PROVE CallGone(o)'
  <2>1. CASE o \in late
    <3>1. CallGone(o) /\ o.job \in Jobs
      BY <1>1, <2>1 DEF DoubtInv, DoubtOK, MediaTypes
    <3>2. o.fence =< fence'[o.job]
      BY <1>1, <3>1 DEF CallGone, RowsKept
    <3>3. ASSUME NEW v \in Workers, worker'[v].job = o.job, worker'[v].fence = o.fence
          PROVE  worker'[v].phase = "finishing" /\ worker'[v].outcome # "waiting_review"
      <4>1. worker'[v] = worker[v] \/ (worker[v].phase = "working" /\ worker[v].job = o.job /\ worker[v].fence = o.fence)
        BY <1>1, <3>1, <3>3, RuntimeAssumption DEF OthersKept, Hands, Leaves, Holding
      <4> QED BY <3>1, <3>3, <4>1 DEF CallGone
    <3> QED BY <3>2, <3>3 DEF CallGone
  <2>2. CASE /\ o.fence = worker[w].fence /\ o.job = worker[w].job /\ o.job \in Jobs
             /\ Leaves(w) \/ (worker'[w].phase = "finishing" /\ worker'[w].outcome # "waiting_review")
    <3>1. o.fence =< fence'[o.job]
      BY <1>1, <2>2 DEF P!ClaimsOK, RowsKept
    <3>2. ASSUME NEW v \in Workers, worker'[v].job = o.job, worker'[v].fence = o.fence
          PROVE  worker'[v].phase = "finishing" /\ worker'[v].outcome # "waiting_review"
      <4>1. v = w
        BY <1>1, <2>2, <3>2 DEF OthersKept, P!ClaimsOK
      <4> QED BY <2>2, <3>2, <4>1, RuntimeAssumption DEF Leaves
    <3> QED BY <3>1, <3>2 DEF CallGone
  <2> QED BY <1>4, <2>1, <2>2
<1> QED BY <1>2, <1>3, <1>4 DEF DoubtOK

\* Only a handler about to order a video leaves a row that says "submitting".
LEMMA WroteSubmitting ==
  ASSUME OrderInv, NEW w \in Workers, worker[w].phase # "idle", R!Owned(w), HandOK(w),
         step[w].at \in StoreSteps, NEW j \in Jobs, j = worker[w].job,
         NEW u, Wrote(task[j], u, Call(w, step[w].at)), u.state = "submitting"
  PROVE  step[w].at = "begin_submit" /\ worker[w].phase = "working"
<1>1. /\ CallOK(j, step[w].at, step[w].said, step[w].id)
      /\ Call(w, step[w].at).at = step[w].at /\ Call(w, step[w].at).said = step[w].said
      /\ Call(w, step[w].at).id = step[w].id /\ Call(w, step[w].at).fence = worker[w].fence
  BY CallOf
<1>2. RowOK(j) /\ task[j] \in Task /\ task[j].fence \in Nat
  BY DEF OrderInv, OrdersOK, JobOK, MediaTypes, Task
<1>3. WritesOK(task[j], u, step[w].at, step[w].said, step[w].id)
  BY <1>1 DEF Wrote
<1>4. step[w].at \in {"start", "get", "begin_submit"}
  <2>1. CASE step[w].at = "submitted"
    BY <1>2, <1>3, <2>1 DEF WritesOK, RowOK, Unanswered
  <2>2. CASE step[w].at \in {"update_status", "polled"}
    BY <1>1, <1>3, <2>2 DEF WritesOK, CallOK, RemoteEnds
  <2> QED BY <1>3, <2>1, <2>2 DEF WritesOK, StoreSteps
<1>5. CASE step[w].at \in {"start", "get"}
  <2>1. task[j].state = "submitting" /\ task[j].fence = worker[w].fence
    BY <1>1, <1>3, <1>5 DEF WritesOK, Wrote
  <2> QED BY <1>2, <1>5, <2>1 DEF HandOK
<1>6. CASE step[w].at = "begin_submit"
  BY <1>6 DEF HandOK, OrderInv, P!IInv, P!TypeOK, P!WorkerState
<1> QED BY <1>4, <1>5, <1>6

LEMMA DoubtParts ==
  ASSUME DoubtInv
  PROVE  /\ OrderInv /\ P!IInv /\ P!TypeOK /\ P!ClaimsOK /\ MediaTypes
         /\ step \in [Workers -> StepT]
         /\ \A w \in Workers : HandOK(w)
         /\ \A w \in Workers : worker[w].phase \in {"idle", "working", "finishing"}
         /\ \A j \in Jobs : RowShown(j)
BY DEF DoubtInv, DoubtOK, OrderInv, P!IInv, MediaTypes, StepT, P!TypeOK, P!WorkerState

\* A worker that lets its job go holds no lease.
LEMMA LeavesHand == ASSUME NEW w, Leaves(w) PROVE HandOK(w)'
<1>1. worker'[w].job \notin Jobs /\ worker'[w].phase # "finishing"
  BY RuntimeAssumption DEF Leaves
<1> QED BY <1>1 DEF HandOK, R!Owned

LEMMA AnswersDoubt ==
  ASSUME DoubtInv, NEW w \in Workers, StoreAnswers(w)
  PROVE  DoubtOK'
<1>1. OrderInv /\ P!TypeOK /\ MediaTypes /\ HandOK(w) /\ step \in [Workers -> StepT]
  BY DoubtParts
<1>2. /\ worker[w].phase = "working" /\ step[w].at \in StoreSteps /\ R!Owned(w) /\ late' = late
  BY DEF StoreAnswers, Call
<1>3. PICK j \in Jobs : j = worker[w].job
  BY <1>1, <1>2, CallOf
<1>4. PICK u : u = task'[j]
  OBVIOUS
<1>5. /\ Continues(w, u) /\ Wrote(task[j], u, Call(w, step[w].at)) /\ task' = [task EXCEPT ![j] = u]
      /\ step[w].at = "begin_submit" => step'[w].at = "post"
  BY <1>1, <1>3, <1>4, AnswersOrders
<1>6. Takes(w)
  BY <1>5, ContinuesTakes
<1>7. RowsKept /\ OthersKept(w) /\ Hands(w)
  BY <1>1, HandlerMoves, HandlesHands
<1>8. Ends(w) \/ UNCHANGED worker
  BY <1>5 DEF Continues, Goes
<1>9. step'[w].at = "post" => UNCHANGED worker
  BY <1>8 DEF Ends, Rest
<1>10. HandOK(w)'
  <2>1. worker'[w].phase = "finishing" => step'[w].at = "end"
    BY <1>2, <1>8 DEF Ends, Rest
  <2>2. ASSUME R!Owned(w)', task'[worker'[w].job].state = "submitting"
        PROVE  worker'[w].phase = "working" /\ step'[w].at = "post"
    <3>1. worker'[w].job = j
      BY <1>3, <1>7, <2>2, OwnedKept
    <3>2. step[w].at = "begin_submit"
      BY <1>1, <1>2, <1>3, <1>4, <1>5, <2>2, <3>1, WroteSubmitting
    <3> QED BY <1>2, <1>5, <1>9, <3>2
  <2> QED BY <2>1, <2>2 DEF HandOK
<1>11. Wrote(task[worker[w].job], task'[worker[w].job], Call(w, step[w].at))
       /\ task' = [task EXCEPT ![worker[w].job] = task'[worker[w].job]]
  BY <1>3, <1>4, <1>5
<1> QED BY <1>2, <1>6, <1>7, <1>10, <1>11, TakesDoubt

\* The steps that touch no row.
LEMMA QuietDoubt ==
  ASSUME DoubtInv, NEW w \in Workers, Takes(w), RowsKept, OthersKept(w), Hands(w), UNCHANGED task,
         worker'[w].phase = "finishing" =>
           step'[w].at \in {"mark_unknown", "begin_cancel", "delete", "mark_cancelled", "end"},
         worker[w].phase = "working" => step[w].at # "start",
         worker[w].phase = "working" /\ step[w].at \in {"post", "answer", "submitted", "mark_unknown", "update_status"} =>
           UNCHANGED worker /\ step'[w].at \in {"post", "answer", "submitted", "mark_unknown", "update_status"},
         late' = late
  PROVE  DoubtOK'
<1>1. HandOK(w) /\ worker[w].phase \in {"idle", "working", "finishing"}
  BY DoubtParts
<1>2. HandOK(w)'
  <2>1. ASSUME R!Owned(w)', task'[worker'[w].job].state = "submitting"
        PROVE  \/ worker'[w].phase = "working" /\
                  step'[w].at \in {"post", "answer", "submitted", "mark_unknown", "update_status"}
               \/ worker'[w].phase = "finishing" /\ worker'[w].outcome # "waiting_review"
    <3>1. R!Owned(w) /\ worker'[w].job = worker[w].job
      BY <2>1, OwnedKept
    <3>2. task[worker[w].job].state = "submitting"
      BY <2>1, <3>1
    <3>3. CASE worker[w].phase = "working"
      BY <1>1, <3>1, <3>2, <3>3 DEF HandOK
    <3>4. CASE worker[w].phase = "finishing"
      <4>1. worker'[w] = worker[w]
        BY <2>1, <3>4, RuntimeAssumption DEF Hands, Leaves, R!Owned
      <4> QED BY <1>1, <3>1, <3>2, <3>4, <4>1 DEF HandOK
    <3> QED BY <1>1, <3>1, <3>2, <3>3, <3>4 DEF HandOK
  <2> QED BY <2>1 DEF HandOK
<1> QED BY <1>2, TakesDoubt

LEMMA SayDoubt ==
  ASSUME DoubtInv, NEW w \in Workers,
         Plan(w) \/ Answer(w) \/ Reconcile(w) \/ Poll(w) \/ Deadline(w) \/ Publish(w)
  PROVE  DoubtOK'
<1>1. OrderInv /\ P!TypeOK /\ MediaTypes /\ step \in [Workers -> StepT]
  BY DoubtParts
<1>2. /\ UNCHANGED <<task, late>> /\ worker[w].phase = "working"
      /\ step[w].at \in {"plan", "answer", "reconcile", "poll", "publish"}
  BY DEF Plan, Answer, Reconcile, Poll, Deadline, Publish, Working
<1>3. RowsKept /\ OthersKept(w) /\ Hands(w)
  BY <1>1, HandlerMoves, HandlesHands
<1>4. \/ Review(w) \/ Fail(w) \/ (\E o, v : Return(w, o, v))
      \/ (\E at, said, id : Tell(w, at, said, id))
      \/ (R!RecordModelCall(w) \/ R!RecordArtifact(w)) /\ UNCHANGED step
  BY DEF Plan, Answer, Reconcile, Poll, Deadline, Publish, Goto
<1>5. \/ step' = [step EXCEPT ![w] = Rest]
      \/ UNCHANGED <<step, worker>>
      \/ UNCHANGED worker /\ \E x : step' = [step EXCEPT ![w] = x]
  BY <1>4, SameWork, Telling DEF Review, Fail, Return, Tell, runtimeVars
<1>6. Answer(w) => /\ UNCHANGED worker
                   /\ step'[w].at \in {"submitted", "mark_unknown"}
  BY <1>1 DEF Answer, Goto, Tell, runtimeVars
<1>7. step[w].at = "answer" => Answer(w)
  BY DEF Plan, Reconcile, Poll, Deadline, Publish, Working
<1>8. worker'[w].phase = "finishing" => step'[w].at = "end"
  BY <1>1, <1>2, <1>5 DEF Rest
<1>9. Takes(w)
  <2>1. MediaTypes'
    BY <1>1, SayOrders
  <2>2. step' \in [Workers -> StepT]
    BY <2>1 DEF MediaTypes, StepT
  <2>3. step' = [step EXCEPT ![w] = step'[w]] /\ step'[w] \in StepT
    BY <1>1, <1>5, <2>2
  <2>4. \/ Holding(w) /\ (worker'[w].phase = "idle" => worker[w].phase = "idle")
        \/ Leaves(w) /\ step'[w].at = "end"
    <3>1. CASE worker'[w] = worker[w]
      BY <3>1 DEF Holding
    <3>2. CASE worker'[w] # worker[w]
      BY <1>1, <1>3, <1>5, <3>2 DEF Hands, Rest
    <3> QED BY <3>1, <3>2
  <2> QED BY <1>3, <2>3, <2>4 DEF Takes
<1> QED BY <1>2, <1>3, <1>6, <1>7, <1>8, <1>9, QuietDoubt

LEMMA PostDoubt ==
  ASSUME DoubtInv, NEW w \in Workers, Post(w)
  PROVE  DoubtOK'
<1>1. OrderInv /\ P!TypeOK /\ MediaTypes /\ step \in [Workers -> StepT]
  BY DoubtParts
<1>2. /\ UNCHANGED <<task, late>> /\ worker[w].phase = "working" /\ step[w].at = "post"
      /\ UNCHANGED runtimeVars
  BY DEF Post, Working, Goto, Tell
<1>3. RowsKept /\ OthersKept(w) /\ Hands(w) /\ UNCHANGED worker
  BY <1>2 DEF RowsKept, OthersKept, Hands, runtimeVars
<1>4. \E x : step' = [step EXCEPT ![w] = x]
  BY DEF Post, Goto, Tell
<1>5. step'[w].at \in {"update_status", "mark_unknown", "answer"}
  BY <1>1 DEF Post, Goto, Tell
<1>6. step' \in [Workers -> StepT]
  BY <1>1, PostOrders DEF MediaTypes, StepT
<1>7. Takes(w)
  BY <1>1, <1>3, <1>4, <1>6 DEF Takes, Holding
<1> QED BY <1>2, <1>3, <1>5, <1>7, QuietDoubt

LEMMA DeleteDoubt ==
  ASSUME DoubtInv, NEW w \in Workers, Delete(w)
  PROVE  DoubtOK'
<1>1. OrderInv /\ P!TypeOK /\ MediaTypes /\ step \in [Workers -> StepT]
  BY DoubtParts
<1>2. Takes(w) /\ UNCHANGED <<task, late>> /\ step[w].at = "delete"
  BY <1>1, DeleteOrders DEF Delete
<1>3. RowsKept /\ OthersKept(w) /\ Hands(w)
  BY <1>1, HandlerMoves, HandlesHands
<1>4. step'[w].at \in {"mark_cancelled", "end"}
  BY <1>1 DEF Delete, Goto, Tell, EndCancelled, Rest
<1> QED BY <1>2, <1>3, <1>4, QuietDoubt

LEMMA CleanUpDoubt ==
  ASSUME DoubtInv, NEW w \in Workers, CleanUp(w)
  PROVE  DoubtOK'
<1>1. OrderInv /\ P!TypeOK /\ MediaTypes /\ HandOK(w)
  BY DoubtParts
<1>2. /\ Takes(w) /\ UNCHANGED <<worker, late>> /\ step'[w].at \in {"delete", "end"}
      /\ \/ UNCHANGED task
         \/ /\ R!Owned(w)
            /\ Wrote(task[worker[w].job], task'[worker[w].job], Call(w, step[w].at))
            /\ task' = [task EXCEPT ![worker[w].job] = task'[worker[w].job]]
  BY <1>1, CleanUpOrders
<1>3. worker[w].phase = "finishing" /\ step[w].at \in StoreSteps
  BY DEF CleanUp, Call
<1>4. PICK j \in Jobs : j = worker[w].job
  BY <1>1, <1>3, CallOf
<1>5. Hands(w) /\ RowsKept /\ OthersKept(w)
  BY <1>2 DEF Hands, Takes
<1>6. HandOK(w)'
  <2>1. ASSUME R!Owned(w)', task'[j].state = "submitting"
        PROVE  worker[w].outcome # "waiting_review"
    <3>1. R!Owned(w)
      BY <1>5, <2>1, OwnedKept
    <3>2. CASE UNCHANGED task
      BY <1>1, <1>3, <1>4, <2>1, <3>1, <3>2 DEF HandOK
    <3>3. CASE Wrote(task[worker[w].job], task'[worker[w].job], Call(w, step[w].at))
      <4>1. worker[w].phase = "working"
        BY <1>1, <1>3, <1>4, <2>1, <3>1, <3>3, WroteSubmitting
      <4> QED BY <1>3, <4>1
    <3> QED BY <1>2, <3>2, <3>3
  <2> QED BY <1>2, <1>3, <1>4, <2>1 DEF HandOK
<1> QED BY <1>2, <1>5, <1>6, TakesDoubt

LEMMA LeaveDoubt ==
  ASSUME DoubtInv, NEW w \in Workers, StoreFails(w) \/ FencedOut(w) \/ WorkerStops(w) \/ Interrupt(w)
  PROVE  DoubtOK'
<1>1. OrderInv /\ P!TypeOK /\ MediaTypes /\ step \in [Workers -> StepT]
  BY DoubtParts
<1>2. /\ Takes(w) /\ UNCHANGED task
      /\ \A o \in late' : o \in late \/ (LateOK(o) /\ o.fence = worker[w].fence /\ o.job = worker[w].job)
  BY <1>1, LeaveOrders
<1>3. RowsKept /\ OthersKept(w) /\ Hands(w)
  BY <1>1, HandlerMoves, HandlesHands
<1>4. CASE FencedOut(w) \/ WorkerStops(w)
  <2>1. Leaves(w)
    BY <1>1, <1>4, SameWork, Leaving DEF FencedOut, WorkerStops
  <2> QED BY <1>2, <1>3, <2>1, LeavesHand, TakesDoubt DEF LateOK
<1>5. ASSUME worker'[w].phase = "finishing", worker'[w].outcome # "waiting_review",
             step'[w].at \in {"mark_unknown", "begin_cancel", "end"}
      PROVE  DoubtOK'
  <2>1. HandOK(w)'
    BY <1>5 DEF HandOK
  <2> QED BY <1>2, <1>3, <1>5, <2>1, TakesDoubt DEF LateOK
<1>6. CASE StoreFails(w)
  <2>1. P!HandlerReturns(w) /\ worker'[w].outcome = "failed" /\ step' = [step EXCEPT ![w] = Rest]
    BY <1>6, SameWork DEF StoreFails, Fail, Return
  <2>2. worker'[w].phase = "finishing" /\ step'[w].at = "end"
    BY <1>1, <2>1, Returning DEF Rest
  <2> QED BY <1>5, <2>1, <2>2
<1>7. CASE Interrupt(w)
  <2>1. P!HeartbeatCancelled(w)
    BY <1>7, SameWork DEF Interrupt
  <2>2. worker'[w].phase = "finishing" /\ worker'[w].outcome = "cancelled"
    BY <1>1, <2>1, Returning
  <2>3. step'[w].at \in {"mark_unknown", "begin_cancel", "end"}
    BY <1>1, <1>7 DEF Interrupt, Rest
  <2> QED BY <1>5, <2>2, <2>3
<1> QED BY <1>4, <1>6, <1>7

-----------------------------------------------------------------------------
(* The store's steps, and the theorem.                                     *)

LEMMA SameCalls ==
  ASSUME DoubtInv, UNCHANGED <<worker, fence, late>>
  PROVE  \A o \in late' : CallGone(o)'
BY DEF DoubtInv, DoubtOK, CallGone

LEMMA DeliverDoubt ==
  ASSUME DoubtInv, NEW c \in Commands, Deliver(c)
  PROVE  DoubtOK'
<1>1. OrderInv /\ P!TypeOK /\ MediaTypes /\ P!Deliver(c) /\ c.job \in Jobs
  BY DoubtParts, SameDeliver, RuntimeAssumption DEF Deliver
<1>2. PICK S : S = {j \in {c.job} : c.type = "job.cancel" /\ status[j] \in R!Cancellable}
  OBVIOUS
<1>3. /\ CancelTasks(S) /\ UNCHANGED <<remote, usage, step, late>>
      /\ UNCHANGED <<worker, fence, owner, lease>>
      /\ \A j \in Jobs : Answered(j) => Answered(j)'
  BY <1>1, <1>2, Delivered DEF Deliver
<1>4. \A j \in Jobs :
        /\ task'[j].fence = task[j].fence
        /\ task[j].state = "none" => task'[j].state = "none"
        /\ task'[j].state = "submitting" => task[j].state = "submitting" /\ j \notin S
  <2>1. \A j \in Jobs : Posting(j)' => Posting(j)
    BY <1>3 DEF Posting
  <2> QED BY <1>1, <1>3, <2>1, SettledRows
<1>5. ASSUME NEW j \in Jobs
      PROVE  /\ status'[j] \in {"none", "waiting_review"} => status'[j] = status[j]
             /\ status'[j] \in R!Leased => status[j] \in R!Leased
             /\ status'[j] = "cancelled" => status[j] \in {"none", "cancelled"} \/ j \in S
  <2>1. CASE P!AcceptTask(c)
    BY <1>1, <2>1 DEF P!AcceptTask, P!TypeOK, R!Leased
  <2>2. CASE P!AcceptCancel(c)
    BY <1>1, <1>2, <2>2 DEF P!AcceptCancel, P!Cancellable, R!Cancellable, P!TypeOK, R!Leased
  <2>3. CASE P!AcceptResume(c)
    BY <1>1, <2>3 DEF P!AcceptResume, P!TypeOK, R!Leased
  <2> QED BY <1>1, <2>1, <2>2, <2>3 DEF P!Deliver
<1>6. ASSUME NEW j \in Jobs PROVE RowShown(j)'
  <2>1. RowShown(j)
    BY DoubtParts
  <2> QED BY <1>3, <1>4, <1>5, <2>1 DEF RowShown
<1>7. ASSUME NEW w \in Workers PROVE HandOK(w)'
  <2>1. R!Owned(w)' => R!Owned(w)
    BY <1>3, <1>5 DEF R!Owned
  <2>2. HandOK(w)
    BY DoubtParts
  <2>3. R!Owned(w) => worker[w].job \in Jobs
    BY DEF R!Owned
  <2> QED BY <1>3, <1>4, <2>1, <2>2, <2>3 DEF HandOK
<1> QED BY <1>3, <1>6, <1>7, SameCalls DEF DoubtOK

LEMMA ExpireDoubt ==
  ASSUME DoubtInv, NEW j \in Jobs, LeaseExpires(j)
  PROVE  DoubtOK'
<1>1. P!LeaseExpires(j) /\ UNCHANGED <<task, step, late>> /\ P!TypeOK
  BY DoubtParts, SameExpire DEF LeaseExpires, mediaVars
<1>2. /\ UNCHANGED <<worker, fence, owner, status>>
      /\ lease' = [lease EXCEPT ![j] = "expired"]
  BY <1>1 DEF P!LeaseExpires
<1>3. \A i \in Jobs : lease'[i] = "live" => lease[i] = "live"
  BY <1>1, <1>2 DEF P!TypeOK
<1>4. \A w \in Workers : R!Owned(w)' => R!Owned(w)
  BY <1>2, <1>3 DEF R!Owned, R!Leased
<1>5. \A w \in Workers : HandOK(w)'
  BY <1>1, <1>2, <1>4, DoubtParts DEF HandOK
<1>6. \A i \in Jobs : RowShown(i)'
  BY <1>1, <1>2, DoubtParts DEF RowShown
<1> QED BY <1>1, <1>2, <1>5, <1>6, SameCalls DEF DoubtOK

LEMMA LateDoubt ==
  ASSUME DoubtInv, NEW o \in late, LateCommit(o)
  PROVE  DoubtOK'
<1>1. OrderInv /\ P!TypeOK /\ MediaTypes /\ o.job \in Jobs /\ o.fence \in Nat
  BY DoubtParts DEF MediaTypes
<1>2. PICK j \in Jobs : j = o.job
  BY <1>1
<1>3. /\ UNCHANGED <<status, fence, owner, lease, worker, step>> /\ late' \subseteq late
      /\ \/ UNCHANGED task
         \/ /\ LeaseGood(o) /\ Wrote(task[j], task'[j], o)
            /\ task' = [task EXCEPT ![j] = task'[j]]
  BY <1>1, <1>2, LateOrders DEF runtimeVars
<1>4. \A i \in late' : CallGone(i)'
  BY <1>3 DEF DoubtInv, DoubtOK, CallGone
<1>5. \A w \in Workers : (R!Owned(w)' <=> R!Owned(w)) /\ HandOK(w)
  BY <1>3, DoubtParts DEF R!Owned, R!Leased
<1>6. CASE UNCHANGED task
  <2>1. \A w \in Workers : HandOK(w)'
    BY <1>3, <1>5, <1>6 DEF HandOK
  <2>2. \A i \in Jobs : RowShown(i)'
    BY <1>3, <1>6, DoubtParts DEF RowShown
  <2> QED BY <1>4, <2>1, <2>2 DEF DoubtOK
<1>7. CASE /\ LeaseGood(o) /\ Wrote(task[j], task'[j], o)
           /\ task' = [task EXCEPT ![j] = task'[j]]
  <2>1. /\ fence[j] = o.fence /\ status[j] \in {"running", "cancel_requested"}
        /\ task'[j].fence \in {task[j].fence, o.fence}
    BY <1>2, <1>7 DEF LeaseGood, Wrote, R!Leased
  <2>2. \A i \in Jobs : i # j => task'[i] = task[i]
    BY <1>1, <1>7 DEF MediaTypes
  <2>3. ASSUME NEW i \in Jobs PROVE RowShown(i)'
    <3>1. RowShown(i)
      BY DoubtParts
    <3> QED BY <1>1, <1>2, <1>3, <2>1, <2>2, <3>1 DEF RowShown
  <2>4. ASSUME NEW w \in Workers PROVE HandOK(w)'
    <3>1. ASSUME R!Owned(w), worker[w].job = j
          PROVE  worker[w].phase = "finishing" /\ worker[w].outcome # "waiting_review"
      <4>1. worker[w].fence = o.fence
        BY <2>1, <3>1 DEF R!Owned
      <4> QED BY <1>2, <3>1, <4>1 DEF DoubtInv, DoubtOK, CallGone
    <3>2. R!Owned(w) => worker[w].job \in Jobs
      BY DEF R!Owned
    <3> QED BY <1>3, <1>5, <2>2, <3>1, <3>2 DEF HandOK
  <2> QED BY <1>4, <2>3, <2>4 DEF DoubtOK
<1> QED BY <1>3, <1>6, <1>7

LEMMA ClaimDoubt ==
  ASSUME DoubtInv, NEW w \in Workers, Claim(w)
  PROVE  DoubtOK'
<1>1. OrderInv /\ P!TypeOK /\ P!ClaimsOK /\ MediaTypes /\ step \in [Workers -> StepT]
  BY DoubtParts
<1>2. CancelTasks(P!Swept) /\ UNCHANGED <<remote, usage, late>>
  BY SameClaims DEF Claim
<1>3. ASSUME NEW T \in SUBSET Jobs, P!ClaimRows(P!Swept, T, WorkerId[w]), worker[w].phase = "idle",
             OthersKept(w), UNCHANGED inbox, \A v \in Workers : v # w => step'[v] = step[v],
             step'[w].at # "post",
             \/ T = {} /\ UNCHANGED <<worker, step>>
             \/ \E j \in Jobs :
                  /\ T = {j} /\ status[j] # "none" /\ status'[j] # "none"
                  /\ worker'[w].job = j /\ worker'[w].fence = fence[j] + 1
                  /\ worker'[w].phase = "working" /\ step'[w].at = "start"
      PROVE  DoubtOK'
  <2>1. \A j \in Jobs : (Answered(j) => Answered(j)') /\ (Posting(j)' => Posting(j))
    BY <1>3 DEF Answered, Posting, OthersKept
  <2>2. \A j \in Jobs :
          /\ task'[j].fence = task[j].fence
          /\ task[j].state = "none" => task'[j].state = "none"
          /\ task'[j].state = "submitting" => task[j].state = "submitting" /\ j \notin P!Swept
    BY <1>1, <1>2, <2>1, SettledRows
  <2>3. /\ fence \in [Jobs -> Nat]
        /\ \A j \in Jobs :
             /\ fence'[j] = IF j \in T THEN fence[j] + 1 ELSE fence[j]
             /\ status'[j] = IF j \in P!Swept THEN "cancelled" ELSE IF j \in T THEN "running" ELSE status[j]
             /\ j \notin T /\ lease'[j] = "live" => lease[j] = "live" /\ j \notin P!Swept /\ owner'[j] = owner[j]
    BY <1>1, <1>3 DEF P!ClaimRows, P!TypeOK
  <2>4. ASSUME NEW j \in Jobs PROVE RowShown(j)'
    <3>1. RowShown(j) /\ task[j].fence \in Nat
      BY <1>1, DoubtParts DEF MediaTypes, Task
    <3>2. status'[j] = "none" => status[j] = "none"
      BY <2>3
    <3>3. task'[j].fence =< fence'[j]
      BY <2>2, <2>3, <3>1 DEF RowShown
    <3> QED BY <2>2, <2>3, <3>1, <3>2, <3>3 DEF RowShown
  <2>5. ASSUME NEW v \in Workers, \/ v # w \/ T = {} PROVE HandOK(v)'
    <3>1. worker'[v] = worker[v] /\ step'[v] = step[v] /\ HandOK(v)
      BY <1>3, <2>5, DoubtParts DEF OthersKept
    <3>2. ASSUME R!Owned(v)' PROVE R!Owned(v) /\ worker[v].job \in Jobs
      <4>1. PICK j \in Jobs : j = worker[v].job
        BY <3>1, <3>2 DEF R!Owned
      <4>2. worker[v].fence =< fence[j] /\ fence'[j] = worker[v].fence
        BY <1>1, <3>1, <3>2, <4>1 DEF P!ClaimsOK, R!Owned
      <4>3. j \notin T
        BY <2>3, <4>2
      <4> QED BY <2>3, <3>1, <3>2, <4>1, <4>3 DEF R!Owned, R!Leased
    <3> QED BY <2>2, <3>1, <3>2 DEF HandOK
  <2>6. HandOK(w)'
    <3>1. CASE T = {}
      BY <2>5, <3>1
    <3>2. ASSUME NEW j \in Jobs, worker'[w].job = j, worker'[w].fence = fence[j] + 1,
                 worker'[w].phase = "working", step'[w].at = "start"
          PROVE  HandOK(w)'
      <4>1. task'[j].fence < worker'[w].fence
        <5>1. RowShown(j) /\ task[j].fence \in Nat /\ fence[j] \in Nat
          BY <1>1, <2>3, DoubtParts DEF MediaTypes, Task
        <5> QED BY <2>2, <3>2, <5>1 DEF RowShown
      <4> QED BY <3>2, <4>1 DEF HandOK
    <3> QED BY <1>3, <3>1, <3>2
  <2>7. ASSUME NEW o \in late' PROVE CallGone(o)'
    <3>1. CallGone(o) /\ o.job \in Jobs /\ o.fence \in Nat
      BY <1>1, <1>2, <2>7 DEF DoubtInv, DoubtOK, MediaTypes
    <3>2. PICK i \in Jobs : i = o.job
      BY <3>1
    <3>3. o.fence =< fence[i] /\ o.fence =< fence'[i]
      BY <2>3, <3>1, <3>2 DEF CallGone
    <3>4. ASSUME NEW v \in Workers, worker'[v].job = i, worker'[v].fence = o.fence
          PROVE  worker'[v].phase = "finishing" /\ worker'[v].outcome # "waiting_review"
      <4>1. CASE worker'[v] = worker[v]
        BY <3>1, <3>2, <3>4, <4>1 DEF CallGone
      <4>2. CASE worker'[v] # worker[v]
        <5>1. v = w /\ worker'[w].fence = fence[i] + 1
          BY <1>3, <3>4, <4>2 DEF OthersKept
        <5> QED BY <2>3, <3>1, <3>3, <3>4, <5>1
      <4> QED BY <4>1, <4>2
    <3> QED BY <3>2, <3>3, <3>4 DEF CallGone
  <2> QED BY <2>4, <2>5, <2>6, <2>7 DEF DoubtOK
<1>4. CASE R!ClaimNothing(w) /\ UNCHANGED step
  <2>1. P!ClaimNothing(w)
    BY <1>4, SameClaims
  <2>2. StepOK(w)
    BY <1>1 DEF OrderInv, OrdersOK
  <2> QED BY <1>3, <1>4, <2>1, <2>2 DEF P!ClaimNothing, OthersKept, StepOK
<1>5. CASE \E j \in Jobs : R!Claim(w, j) /\ step' = [step EXCEPT ![w] = [Rest EXCEPT !.at = "start"]]
  <2>1. PICK j \in Jobs : P!Claim(w, j)
    BY <1>5, SameClaims
  <2>2. /\ \A v \in Workers : v # w => step'[v] = step[v]
        /\ step'[w].at = "start"
    BY <1>1, <1>5 DEF Rest
  <2>3. /\ OthersKept(w) /\ UNCHANGED <<inbox, resumeInput>>
        /\ worker'[w].job = j /\ worker'[w].fence = fence[j] + 1 /\ worker'[w].phase = "working"
        /\ worker[w].phase = "idle" /\ status[j] # "none" /\ status'[j] # "none"
    BY <1>1, <2>1, Claimed
  <2>4. P!ClaimRows(P!Swept, {j}, WorkerId[w]) /\ {j} \in SUBSET Jobs
    BY <2>1 DEF P!Claim
  <2> QED BY <1>3, <2>2, <2>3, <2>4
<1> QED BY <1>4, <1>5 DEF Claim

LEMMA FinishDoubt ==
  ASSUME DoubtInv, NEW w \in Workers, Finish(w)
  PROVE  DoubtOK'
<1>1. OrderInv /\ P!TypeOK /\ MediaTypes /\ HandOK(w)
  BY DoubtParts
<1>2. UNCHANGED <<remote, usage, step, late>> /\ step[w].at = "end"
  BY DEF Finish
<1>3. CASE R!FinishLost(w) /\ UNCHANGED task
  <2>1. RowsKept /\ OthersKept(w) /\ Leaves(w)
    BY <1>1, <1>3, SameFinish, Leaving
  <2>2. Takes(w) /\ Hands(w)
    <3>1. step' = [step EXCEPT ![w] = step[w]] /\ step[w] \in StepT
      BY <1>1, <1>2 DEF MediaTypes, StepT
    <3> QED BY <1>2, <2>1, <3>1 DEF Takes, Hands
  <2> QED BY <1>2, <1>3, <2>1, <2>2, LeavesHand, TakesDoubt
<1>4. CASE R!Finish(w) /\ CancelTasks({j \in {worker[w].job} : R!FinalStatus(w) = "cancelled"})
  <2>1. P!Finish(w) /\ R!FinalStatus(w) = P!FinalStatus(w)
    BY <1>4, SameFinish
  <2>2. /\ OthersKept(w) /\ UNCHANGED <<inbox, fence>> /\ Leaves(w)
        /\ worker[w].phase = "finishing" /\ R!Owned(w)
    BY <1>1, <2>1, Finished, SameOwned DEF P!Finish
  <2>3. PICK j \in Jobs : j = worker[w].job
    BY <2>2 DEF R!Owned
  <2>4. /\ status' = [status EXCEPT ![j] = P!FinalStatus(w)]
        /\ owner' = [owner EXCEPT ![j] = NoWorker]
        /\ lease' = [lease EXCEPT ![j] = "none"]
    BY <2>1, <2>3 DEF P!Finish
  <2>5. /\ \A i \in Jobs : i # j => status'[i] = status[i] /\ owner'[i] = owner[i] /\ lease'[i] = lease[i]
        /\ lease'[j] = "none" /\ status'[j] = P!FinalStatus(w)
    BY <1>1, <2>4 DEF P!TypeOK
  <2>6. \A i \in Jobs : (Answered(i) => Answered(i)') /\ (Posting(i)' => Posting(i))
    BY <1>2, <2>2, RuntimeAssumption DEF Answered, Posting, OthersKept, Leaves
  <2>7. \A i \in Jobs :
          /\ task'[i].fence = task[i].fence
          /\ task[i].state = "none" => task'[i].state = "none"
          /\ task'[i].state = "submitting" =>
               /\ task[i].state = "submitting"
               /\ i \notin {k \in {worker[w].job} : R!FinalStatus(w) = "cancelled"}
    BY <1>1, <1>2, <1>4, <2>6, SettledRows
  <2>8. /\ P!FinalStatus(w) # "none"
        /\ P!FinalStatus(w) = "waiting_review" => worker[w].outcome = "waiting_review"
    BY <1>1 DEF P!FinalStatus, P!TypeOK, P!WorkerState, P!Outcomes
  <2>9. ASSUME NEW i \in Jobs PROVE RowShown(i)'
    <3>1. RowShown(i)
      BY DoubtParts
    <3>2. CASE i # j
      BY <2>2, <2>5, <2>7, <3>1, <3>2 DEF RowShown
    <3>3. CASE i = j
      <4>1. status'[j] = "waiting_review" => task[j].state # "submitting"
        BY <1>1, <2>2, <2>3, <2>5, <2>8 DEF HandOK
      <4>2. status'[j] = "cancelled" => task'[j].state # "submitting"
        BY <2>1, <2>3, <2>5, <2>7
      <4> QED BY <2>2, <2>5, <2>7, <2>8, <3>1, <3>3, <4>1, <4>2 DEF RowShown
    <3> QED BY <3>2, <3>3
  <2>10. ASSUME NEW v \in Workers PROVE HandOK(v)'
    <3>1. CASE v = w
      BY <2>2, <3>1, LeavesHand
    <3>2. CASE v # w
      <4>1. worker'[v] = worker[v] /\ step'[v] = step[v] /\ HandOK(v)
        BY <1>2, <2>2, <3>2, DoubtParts DEF OthersKept
      <4>2. R!Owned(v)' => R!Owned(v) /\ worker[v].job \in Jobs
        BY <2>2, <2>5, <4>1 DEF R!Owned, R!Leased
      <4> QED BY <2>7, <4>1, <4>2 DEF HandOK
    <3> QED BY <3>1, <3>2
  <2>11. ASSUME NEW o \in late' PROVE CallGone(o)'
    <3>1. CallGone(o) /\ o.job \in Jobs
      BY <1>1, <1>2, <2>11 DEF DoubtInv, DoubtOK, MediaTypes
    <3> QED BY <2>2, <3>1, RuntimeAssumption DEF CallGone, OthersKept, Leaves
  <2> QED BY <2>9, <2>10, <2>11 DEF DoubtOK
<1> QED BY <1>3, <1>4 DEF Finish

LEMMA DoubtStep == DoubtInv /\ OrderInv' /\ [Next]_vars => DoubtInv'
<1> SUFFICES ASSUME DoubtInv, [Next]_vars PROVE DoubtOK'
  BY DEF DoubtInv
<1>1. CASE \E c \in Commands : Deliver(c)
  BY <1>1, DeliverDoubt
<1>2. CASE \E j \in Jobs : LeaseExpires(j)
  BY <1>2, ExpireDoubt
<1>3. CASE \E o \in late : LateCommit(o)
  BY <1>3, LateDoubt
<1>4. ASSUME NEW w \in Workers,
             Claim(w) \/ Handle(w) \/ Poll(w) \/ Deadline(w) \/ WorkerStops(w)
      PROVE  DoubtOK'
  <2>1. CASE Claim(w) \/ Finish(w)
    BY <2>1, ClaimDoubt, FinishDoubt
  <2>2. CASE StoreAnswers(w) \/ Post(w) \/ Delete(w) \/ CleanUp(w)
    BY <2>2, AnswersDoubt, PostDoubt, DeleteDoubt, CleanUpDoubt
  <2>3. CASE StoreFails(w) \/ FencedOut(w) \/ WorkerStops(w) \/ Interrupt(w)
    BY <2>3, LeaveDoubt
  <2>4. CASE Plan(w) \/ Answer(w) \/ Reconcile(w) \/ Poll(w) \/ Deadline(w) \/ Publish(w)
    BY <2>4, SayDoubt
  <2> QED BY <1>4, <2>1, <2>2, <2>3, <2>4 DEF Handle
<1>5. CASE UNCHANGED vars \/ \E j \in Jobs : RemoteEndsTask(j)
  <2>1. UNCHANGED <<task, step, late, status, fence, owner, lease, worker>>
    BY <1>5 DEF vars, runtimeVars, mediaVars, RemoteEndsTask
  <2>2. \A w \in Workers : R!Owned(w)' <=> R!Owned(w)
    BY <2>1 DEF R!Owned, R!Leased
  <2>3. \A w \in Workers : HandOK(w)'
    BY <2>1, <2>2, DoubtParts DEF HandOK
  <2>4. \A j \in Jobs : RowShown(j)'
    BY <2>1, DoubtParts DEF RowShown
  <2> QED BY <2>1, <2>3, <2>4, SameCalls DEF DoubtOK
<1> QED BY <1>1, <1>2, <1>3, <1>4, <1>5 DEF Next

THEOREM DoubtInvariance == Spec => []DoubtInv
<1>1. Init /\ OrderInv => DoubtInv
  <2> SUFFICES ASSUME Init, OrderInv PROVE DoubtOK
    BY DEF DoubtInv
  <2>1. P!Init /\ P!TypeOK
    BY SameInit DEF Init, OrderInv, P!IInv
  <2>2. /\ task = [j \in Jobs |-> NoTask] /\ late = {}
        /\ status = [j \in Jobs |-> "none"] /\ fence = [j \in Jobs |-> 0]
        /\ worker = [w \in Workers |-> P!Idle]
    BY <2>1 DEF Init, P!Init
  <2>3. \A j \in Jobs : RowShown(j)
    BY <2>2 DEF RowShown, NoTask
  <2>4. \A w \in Workers : HandOK(w)
    BY <2>2, RuntimeAssumption DEF HandOK, P!Idle, R!Owned
  <2> QED BY <2>2, <2>3, <2>4 DEF DoubtOK
<1>2. DoubtInv /\ OrderInv' /\ [Next]_vars => DoubtInv'
  BY DoubtStep
<1> QED BY <1>1, <1>2, OrderInvariance, PTL DEF Spec

\* When a reviewer is asked, or a cancellation settled, no row says that an
\* order is under way: one whose answer is missing is shown as unknown.
THEOREM DoubtShown == Spec => []DoubtIsShown
<1>1. DoubtInv => DoubtIsShown
  BY DEF DoubtInv, DoubtOK, RowShown, DoubtIsShown
<1> QED BY <1>1, DoubtInvariance, PTL
=============================================================================
