------------------------------ MODULE MediaTask ------------------------------
(***************************************************************************)
(* A video made by a paid provider under the lease of a Runtime job:       *)
(* generate_video and execute_video_task of workflows/media/video.py, the  *)
(* media_tasks rows of PostgresMediaTaskStore, and what the job store does *)
(* to them when it settles a cancellation.                                 *)
(*                                                                         *)
(* The provider cannot be asked twice for the same video, so the row says  *)
(* "submitting" before the one POST.  Every store call runs in a thread of *)
(* its own: when the handler is interrupted (the heartbeat sees a cancel   *)
(* or a lost lease, the process shuts down) the call may still commit      *)
(* afterwards, as long as the lease it was made under is good.             *)
(***************************************************************************)
EXTENDS Naturals, Sequences, FiniteSets

CONSTANTS Jobs, ContentJobs, Commands, Workers, WorkerIds, WorkerId, NoJob,
          NoWorker, MaxAttempts, MaxLosses, MaxRecords      \* of RuntimeJobs

VARIABLES inbox, cancellations, status, fence, owner, lease, result,
          resumeInput, events, worker, losses               \* of RuntimeJobs

R == INSTANCE RuntimeJobs

\* The jobs here are video jobs: none is run by the content graph.
ASSUME MediaJobsAssumption == ContentJobs = {}

\* RuntimeJobs' own assumptions, under which its theorems hold of these jobs.
ASSUME RuntimeAssumption ==
  /\ NoJob \notin Jobs
  /\ \A c \in Commands :
       c.job \in Jobs /\ c.type \in R!CommandTypes /\ c.action \in R!ResumeActions
  /\ WorkerId \in [Workers -> WorkerIds] /\ NoWorker \notin WorkerIds
  /\ MaxAttempts \in Nat \ {0} /\ MaxLosses \in Nat /\ MaxRecords \in Nat

VARIABLES
  task,    \* media_tasks: one row per job
  remote,  \* the provider's tasks of each job, in the order of their POSTs
  usage,   \* model_calls: the provider tasks whose use was recorded, per job
  step,    \* where each worker's handler is, and what it was last told
  late     \* store calls whose handler is gone and that may still commit

runtimeVars == <<inbox, cancellations, status, fence, owner, lease, result,
                 resumeInput, events, worker, losses>>
mediaVars == <<task, remote, usage, step, late>>
vars == <<runtimeVars, mediaVars>>

RemoteEnds == {"succeeded", "failed", "cancelled"}
TaskEnds == {"succeeded", "failed", "cancelled"}
Unanswered == {"submitting", "submission_unknown"}
TaskStates == {"none", "prepared", "running", "cancel_pending"} \cup Unanswered \cup TaskEnds
Task == [state : TaskStates, remote : Nat, approved : {"no", "model", "user"}, fence : Nat]
NoTask == [state |-> "none", remote |-> 0, approved |-> "no", fence |-> 0]

\* The steps that are one store call; "start" is generate_video's get, "polled"
\* the update_status of the polling loop.
StoreSteps == {"start", "get", "reserve", "approve_plan", "begin_submit", "submitted",
               "mark_unknown", "update_status", "polled", "begin_cancel", "mark_cancelled"}
Steps == StoreSteps \cup {"plan", "reconcile", "post", "answer", "poll", "delete", "publish", "end"}
Said == {"none", "approved", "rejected", "running"} \cup RemoteEnds
Rest == [at |-> "end", said |-> "none", id |-> 0]

TypeOK ==
  /\ R!TypeOK
  /\ task \in [Jobs -> Task]
  /\ remote \in [Jobs -> Seq({"running"} \cup RemoteEnds)]
  /\ usage \in [Jobs -> SUBSET Nat]
  /\ step \in [Workers -> [at : Steps, said : Said, id : Nat]]
  /\ \A o \in late : o.job \in Jobs /\ o.by \in WorkerIds /\ o.at \in StoreSteps

Init ==
  /\ R!Init
  /\ task = [j \in Jobs |-> NoTask]
  /\ remote = [j \in Jobs |-> <<>>]
  /\ usage = [j \in Jobs |-> {}]
  /\ step = [w \in Workers |-> Rest]
  /\ late = {}

-----------------------------------------------------------------------------
(* The store.  A method is the set of rows it may leave: empty when it       *)
(* refuses (ValueError).                                                     *)

\* _write: the row moves, and carries the fencing token of its writer.
Move(t, f, from, to) == {[t EXCEPT !.state = to, !.fence = f] : s \in {t.state} \cap from}

GetAgain(t, f) ==                        \* mutant: a dead worker's order is repeated
  {IF t.state = "submitting" /\ t.fence # f
   THEN [t EXCEPT !.state = "prepared", !.fence = f] ELSE t}
GetAsIs(t, f) == {t}                     \* mutant: nobody notices a dead worker's order
Get(t, f) ==
  {IF t.state = "submitting" /\ t.fence # f
   THEN [t EXCEPT !.state = "submission_unknown", !.fence = f] ELSE t}
\* Only a handler that found no row reserves one.
Reserve(t, f, said) ==
  {[u EXCEPT !.approved = IF said = "approved" THEN "model" ELSE "no"] :
     u \in Move(t, f, {"none"}, "prepared")}
ApprovePlan(t, f) ==
  {[u EXCEPT !.approved = "user"] : u \in Move(t, f, {"prepared"}, "prepared")}
BeginSubmit(t, f) ==
  IF t.approved # "no" THEN Move(t, f, {"prepared"}, "submitting") ELSE {}
Submitted(t, f, id) ==
  IF t.remote # 0 THEN {t : x \in {id} \cap {t.remote}}
  ELSE {[u EXCEPT !.remote = id] : u \in Move(t, f, Unanswered, "running")}
MarkUnsent(t, f) == Move(t, f, Unanswered, "prepared")    \* mutant: no answer, no order
MarkUnknown(t, f) == Move(t, f, Unanswered, "submission_unknown")
UpdateStatus(t, f, s) ==
  LET from == {"running", "cancel_pending", s}
                \cup {x \in {"submitting"} : s = "failed"}
      to == IF t.state = "cancel_pending" /\ s = "running" THEN "cancel_pending" ELSE s
  IN Move(t, f, from, to)
BeginCancel(t, f) == Move(t, f, {"running", "cancel_pending"}, "cancel_pending")
MarkCancelled(t, f) == Move(t, f, {"prepared", "cancel_pending", "cancelled"}, "cancelled")

\* The store call a worker is at, with the lease it is made under.
Call(w, at) == [at |-> at, said |-> step[w].said, id |-> step[w].id,
                job |-> worker[w].job, fence |-> worker[w].fence, by |-> WorkerId[w]]
Written(o) ==
  LET t == task[o.job] IN
  CASE o.at \in {"start", "get"} -> Get(t, o.fence)
    [] o.at = "reserve" -> Reserve(t, o.fence, o.said)
    [] o.at = "approve_plan" -> ApprovePlan(t, o.fence)
    [] o.at = "begin_submit" -> BeginSubmit(t, o.fence)
    [] o.at = "submitted" -> Submitted(t, o.fence, o.id)
    [] o.at = "mark_unknown" -> MarkUnknown(t, o.fence)
    [] o.at \in {"update_status", "polled"} -> UpdateStatus(t, o.fence, o.said)
    [] o.at = "begin_cancel" -> BeginCancel(t, o.fence)
    [] o.at = "mark_cancelled" -> MarkCancelled(t, o.fence)

\* _record_video_usage, in the transaction of the terminal state.
Recording == {"update_status", "polled", "mark_cancelled"}
Commit(o, u) ==
  /\ task' = [task EXCEPT ![o.job] = u]
  /\ usage' = IF o.at \in Recording /\ u.remote # 0 /\ u.state \in TaskEnds
              THEN [usage EXCEPT ![o.job] = @ \cup {u.remote}] ELSE usage

\* _scope and _write ask for the same lease as the job store's _owned.
LeaseGood(o) ==
  /\ owner[o.job] = o.by
  /\ fence[o.job] = o.fence
  /\ status[o.job] \in R!Leased
  /\ lease[o.job] = "live"

\* A call whose handler is gone commits, or fails with nobody to tell.
LateCommit(o) ==
  /\ late' = late \ {o}
  /\ IF LeaseGood(o) /\ Written(o) # {} THEN \E u \in Written(o) : Commit(o, u)
     ELSE UNCHANGED <<task, usage>>
  /\ UNCHANGED <<runtimeVars, remote, step>>

-----------------------------------------------------------------------------
(* The job store: what a settled cancellation does to the row.               *)

\* _media_cancellation_payload: it claims no end nobody has seen.
CancelledAtOnce(t) ==                    \* mutant: a running task is written off
  IF t.state \in {"prepared", "running"} THEN [t EXCEPT !.state = "cancelled"]
  ELSE IF t.state = "submitting" THEN [t EXCEPT !.state = "submission_unknown"] ELSE t
Cancelled(t) ==
  CASE t.state = "prepared" -> [t EXCEPT !.state = "cancelled"]
    [] t.state = "submitting" -> [t EXCEPT !.state = "submission_unknown"]
    [] t.state = "running" -> [t EXCEPT !.state = "cancel_pending"]
    [] OTHER -> t
CancelTasks(S) == task' = [j \in Jobs |-> IF j \in S THEN Cancelled(task[j]) ELSE task[j]]

Deliver(c) ==
  /\ R!Deliver(c)
  /\ CancelTasks({j \in {c.job} : c.type = "job.cancel" /\ status[j] \in R!Cancellable})
  /\ UNCHANGED <<remote, usage, step, late>>

Claim(w) ==
  /\ \/ /\ R!ClaimNothing(w)
        /\ UNCHANGED step
     \/ /\ \E j \in Jobs : R!Claim(w, j)
        /\ step' = [step EXCEPT ![w] = [Rest EXCEPT !.at = "start"]]
  /\ CancelTasks(R!Swept)
  /\ UNCHANGED <<remote, usage, late>>

\* finish waits until the interrupted handler has ended.
Finish(w) ==
  /\ step[w].at = "end"
  /\ \/ R!Finish(w) /\ CancelTasks({j \in {worker[w].job} : R!FinalStatus(w) = "cancelled"})
     \/ R!FinishLost(w) /\ UNCHANGED task
  /\ UNCHANGED <<remote, usage, step, late>>

LeaseExpires(j) == R!LeaseExpires(j) /\ UNCHANGED mediaVars

-----------------------------------------------------------------------------
(* The handler.                                                              *)

Working(w, at) == worker[w].phase = "working" /\ step[w].at = at
Tell(w, at, said, id) ==
  /\ step' = [step EXCEPT ![w] = [at |-> at, said |-> said, id |-> id]]
  /\ UNCHANGED runtimeVars
Goto(w, at) == Tell(w, at, "none", 0)

\* The handler returns, or raises what execute turns into outcome o.
Return(w, o, version) ==
  /\ R!HandlerReturns(w)
  /\ worker'[w].outcome = o /\ worker'[w].version = version
  /\ step' = [step EXCEPT ![w] = Rest]
Review(w) == Return(w, "waiting_review", 0)
Fail(w) == Return(w, "failed", 0)

\* JobCancelled out of the handler; finish comes to nothing on a lost lease.
EndCancelled(w) ==
  /\ IF R!Owned(w) THEN R!HeartbeatCancelled(w) ELSE R!FencedOut(w)
  /\ step' = [step EXCEPT ![w] = Rest]

\* execute_video_task from line 42 on, given the row t it has just been shown.
Execute(w, t) ==
  \/ t.state \in Unanswered /\ Review(w)
  \/ t.state = "prepared" /\ t.approved = "no" /\ Review(w)
  \/ t.state = "prepared" /\ t.approved # "no" /\ Goto(w, "begin_submit")
  \/ t.state = "running" /\ Goto(w, "poll")
  \/ t.state = "cancel_pending" /\ Goto(w, "delete")
  \/ t.state = "succeeded" /\ Goto(w, "publish")
  \/ t.state \in {"failed", "cancelled"} /\ Fail(w)

\* generate_video, lines 206 to 266: a plan that was rejected needs a user.
Start(w, t) ==
  \/ t.state = "none" /\ Goto(w, "plan")
  \/ /\ t.state = "prepared" /\ t.approved = "no"
     /\ IF resumeInput[worker[w].job] = "approve" THEN Goto(w, "approve_plan") ELSE Review(w)
  \/ t.state # "none" /\ (t.state = "prepared" => t.approved # "no") /\ Goto(w, "get")

\* What follows each store call, given the row it returned.
After(w, t) == LET s == step[w] IN
  \/ s.at = "start" /\ Start(w, t)
  \/ s.at = "reserve" /\ IF t.approved = "no" THEN Review(w) ELSE Goto(w, "get")
  \/ s.at = "approve_plan" /\ Goto(w, "get")
  \/ s.at = "get" /\ IF /\ t.state = "submission_unknown"
                        /\ resumeInput[worker[w].job] = "reconcile"
                     THEN Goto(w, "reconcile") ELSE Execute(w, t)
  \/ s.at = "begin_submit" /\ Goto(w, "post")
  \/ s.at = "submitted" /\ IF s.said = "none" THEN Execute(w, t)
                           ELSE Tell(w, "update_status", s.said, 0)
  \/ s.at \in {"update_status", "polled"} /\ Execute(w, t)
  \/ s.at = "mark_unknown" /\ Review(w)
  \/ s.at = "mark_cancelled" /\ EndCancelled(w)

StoreAnswers(w) ==
  LET o == Call(w, step[w].at)
  IN /\ worker[w].phase = "working" /\ o.at \in StoreSteps
     /\ R!Owned(w)
     /\ \E u \in Written(o) : Commit(o, u) /\ After(w, u)
     /\ UNCHANGED <<remote, late>>

\* A ValueError, or a database that does not answer: then the call may have
\* been made all the same.
StoreFails(w) ==
  LET o == Call(w, step[w].at)
  IN /\ worker[w].phase = "working" /\ o.at \in StoreSteps
     /\ \/ R!Owned(w) /\ Written(o) = {} /\ UNCHANGED late
        \/ late' = late \cup {o}
     /\ Fail(w)
     /\ UNCHANGED <<task, remote, usage>>

\* The planning and reviewing models, lines 207 to 254.
Plan(w) ==
  /\ Working(w, "plan")
  /\ \/ \E verdict \in {"approved", "rejected"} : Tell(w, "reserve", verdict, 0)
     \/ Fail(w)
     \/ Return(w, "accepted", 0)
     \/ R!RecordModelCall(w) /\ UNCHANGED step
  /\ UNCHANGED <<task, remote, usage, late>>

\* provider.submit: the request is refused, never arrives, or makes a task ...
Post(w) ==
  LET j == worker[w].job
  IN /\ Working(w, "post")
     /\ \/ Tell(w, "update_status", "failed", 0) /\ UNCHANGED remote
        \/ Goto(w, "mark_unknown") /\ UNCHANGED remote
        \/ /\ remote' = [remote EXCEPT ![j] = Append(@, "running")]
           /\ Tell(w, "answer", "none", Len(remote[j]) + 1)
     /\ UNCHANGED <<task, usage, late>>

\* ... whose id comes back, or is lost on the way.
Answer(w) ==
  /\ Working(w, "answer")
  /\ Tell(w, "submitted", "none", step[w].id) \/ Goto(w, "mark_unknown")
  /\ UNCHANGED <<task, remote, usage, late>>

\* Lines 20 to 39: the operator names a task of this job; a wrong id, or no
\* answer, asks again.
Reconcile(w) ==
  /\ Working(w, "reconcile")
  /\ \/ Review(w)
     \/ \E i \in DOMAIN remote[worker[w].job] :
          Tell(w, "submitted", remote[worker[w].job][i], i)
  /\ UNCHANGED <<task, remote, usage, late>>

\* provider.status answers (a failure changes nothing) ...
Poll(w) ==
  LET j == worker[w].job
  IN /\ Working(w, "poll")
     /\ Tell(w, "polled", remote[j][task[j].remote], 0)
     /\ UNCHANGED <<task, remote, usage, late>>

\* ... until the deadline passes.
Deadline(w) ==
  /\ Working(w, "poll")
  /\ Review(w)
  /\ UNCHANGED <<task, remote, usage, late>>

DeleteRepeats(w) ==                      \* mutant: a failed DELETE is tried again
  LET j == worker[w].job
  IN /\ worker[w].phase # "idle" /\ step[w].at = "delete"
     /\ \/ /\ remote' = [remote EXCEPT ![j][task[j].remote] = "cancelled"]
           /\ Goto(w, "mark_cancelled")
        \/ /\ remote' = remote
           /\ Goto(w, IF worker[w].phase = "working" THEN "poll" ELSE "begin_cancel")
     /\ UNCHANGED <<task, usage, late>>
\* cancel_remote_video, from the loop or while the handler is interrupted: a
\* DELETE may work and still not be answered, or not be supported.
Delete(w) ==
  LET j == worker[w].job
      i == task[j].remote
      deleted == [remote EXCEPT ![j][i] = IF @ = "running" THEN "cancelled" ELSE @]
      over == IF worker[w].phase = "working" THEN EndCancelled(w) ELSE Goto(w, "end")
  IN /\ worker[w].phase # "idle" /\ step[w].at = "delete"
     /\ \/ remote' = deleted /\ (Goto(w, "mark_cancelled") \/ over)
        \/ remote' = remote /\ over
     /\ UNCHANGED <<task, usage, late>>

\* Download, upload, record_artifact, and the new version.
Publish(w) ==
  /\ Working(w, "publish")
  /\ \/ Return(w, "completed", worker[w].fence)
     \/ Fail(w)
     \/ R!RecordArtifact(w) /\ UNCHANGED step
  /\ UNCHANGED <<task, remote, usage, late>>

-----------------------------------------------------------------------------
(* Interruptions.                                                            *)

\* A store call in flight goes on without its handler; a POST in flight is
\* followed by mark_unknown.
InFlight(w) ==
  {Call(w, at) : at \in {step[w].at} \cap StoreSteps}
InPost(w) == step[w].at \in {"post", "answer"}
InLoop(w) == step[w].at \in {"poll", "polled", "delete", "mark_cancelled"}

\* The heartbeat saw the cancel.
Interrupt(w) ==
  /\ R!HeartbeatCancelled(w)
  /\ step' = [step EXCEPT ![w] = [Rest EXCEPT !.at =
       IF InPost(w) THEN "mark_unknown" ELSE IF InLoop(w) THEN "begin_cancel" ELSE "end"]]
  /\ late' = late \cup InFlight(w)
  /\ UNCHANGED <<task, remote, usage>>

\* What the interrupted handler still does; its own errors are swallowed.
CleanUp(w) ==
  LET o == Call(w, step[w].at)
  IN /\ worker[w].phase = "finishing" /\ o.at \in StoreSteps
     /\ \/ /\ R!Owned(w)
           /\ \E u \in Written(o) : Commit(o, u)
           /\ Goto(w, IF o.at = "begin_cancel" THEN "delete" ELSE "end")
        \/ /\ ~R!Owned(w) \/ Written(o) = {}
           /\ Goto(w, "end")
           /\ UNCHANGED <<task, usage>>
     /\ UNCHANGED <<remote, late>>

\* The heartbeat, a store call or record_artifact (of a job being cancelled)
\* finds the lease gone.
FencedOut(w) ==
  /\ ~R!Owned(w) \/ step[w].at = "publish"
  /\ R!FencedOut(w)
  /\ step' = [step EXCEPT ![w] = Rest]
  /\ late' = late \cup InFlight(w)
  /\ UNCHANGED <<task, remote, usage>>

\* The process goes, or its heartbeat gets no answer: an orderly shutdown still
\* tries to mark the POST it was in.
WorkerStops(w) ==
  /\ R!WorkerStops(w)
  /\ step' = [step EXCEPT ![w] = Rest]
  /\ late' = late \cup InFlight(w)
               \cup (IF InPost(w) THEN {Call(w, "mark_unknown")} ELSE {})
  /\ UNCHANGED <<task, remote, usage>>

\* The provider's tasks end when they like.
RemoteEndsTask(j) ==
  /\ \E i \in DOMAIN remote[j], s \in {"succeeded", "failed"} :
       remote[j][i] = "running" /\ remote' = [remote EXCEPT ![j][i] = s]
  /\ UNCHANGED <<runtimeVars, task, usage, step, late>>

-----------------------------------------------------------------------------
Handle(w) ==
  \/ StoreAnswers(w) \/ StoreFails(w) \/ Plan(w) \/ Post(w) \/ Answer(w)
  \/ Reconcile(w) \/ Delete(w) \/ Publish(w) \/ CleanUp(w) \/ FencedOut(w)
  \/ Interrupt(w) \/ Finish(w)

Next ==
  \/ \E c \in Commands : Deliver(c)
  \/ \E w \in Workers : Claim(w) \/ Handle(w) \/ Poll(w) \/ Deadline(w) \/ WorkerStops(w)
  \/ \E j \in Jobs : LeaseExpires(j) \/ RemoteEndsTask(j)
  \/ \E o \in late : LateCommit(o)

Spec == Init /\ [][Next]_vars

(***************************************************************************)
(* As in RuntimeJobs, with a handler that takes its next step (store and   *)
(* provider calls have timeouts); the polling deadline passes however      *)
(* often the provider answers that the video is not ready.                 *)
(***************************************************************************)
Fairness ==
  /\ \A w \in Workers : WF_vars(Claim(w)) /\ WF_vars(Handle(w)) /\ SF_vars(Deadline(w))
  /\ \A j \in Jobs : WF_vars(LeaseExpires(j) /\ ~R!Held(j))

FairSpec == Spec /\ Fairness

-----------------------------------------------------------------------------
(* Properties.                                                             *)

\* A plan the review rejected is ordered only after a user approved it, restarts
\* between plan and order included (multimodal-models.md:76).
ReviewedBeforeOrder ==
  \A j \in Jobs :
    remote[j] # <<>> /\ task[j].approved # "model" =>
      \E c \in inbox : c.job = j /\ c.type = "job.resume" /\ c.action = "approve"

\* A video is ordered at most once, whatever crashes, lost answers, late store
\* calls, approvals and reconciliations come between the order and its result
\* (multimodal-models.md:78), and only if its plan was accepted.
OneSubmission == (\A j \in Jobs : Len(remote[j]) =< 1) /\ ReviewedBeforeOrder

\* The use of a provider task is recorded when its end is, on every path to it.
UsageRecorded ==
  \A j \in Jobs :
    usage[j] = IF task[j].remote # 0 /\ task[j].state \in TaskEnds
               THEN {task[j].remote} ELSE {}

\* The row and the provider agree, in both directions: a row that says the video
\* ended is right, so that no cancellation, refused order or stale answer reports
\* an end that has not happened (multimodal-models.md:82, remote_work_terminal);
\* and no running video is forgotten, the row names it or says that an order went
\* out whose answer is not known.  What an ended one cost is recorded.
EndsHonestly ==
  /\ \A j \in Jobs : \A i \in DOMAIN remote[j] : remote[j][i] = "running" =>
       /\ task[j].state \notin TaskEnds
       /\ task[j].remote = i \/ task[j].state \in Unanswered
  /\ UsageRecorded

\* Whenever a reviewer is asked about a job, or its cancellation is settled, an
\* order whose answer is missing is marked as unknown: the row does not say
\* "submitting", as if somebody were still waiting for it
\* (multimodal-models.md:78).
DoubtIsShown ==
  \A j \in Jobs :
    status[j] \in {"waiting_review", "cancelled"} => task[j].state # "submitting"

\* A handler always ends, interrupted or polling a video that never finishes:
\* what RuntimeJobs takes for granted of its handlers.
HandlerEnds ==
  \A w \in Workers : worker[w].phase # "idle" ~> worker[w].phase = "idle"
=============================================================================
