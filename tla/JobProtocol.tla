---------------------------- MODULE JobProtocol ----------------------------
(***************************************************************************)
(* Control and Runtime together: two databases that share nothing but      *)
(* messages.                                                               *)
(*                                                                         *)
(* Commands go out of Control's outbox, events out of the Runtime's event  *)
(* log, each through a relay that publishes before it marks (so that a     *)
(* message may be sent again) over topics that keep no order.  A message   *)
(* in an outbox may therefore arrive at any time from then on, any number  *)
(* of times; the second time the inbox of the receiver makes it a no-op.   *)
(* A message whose handler fails is not acknowledged and stays deliverable.*)
(***************************************************************************)
EXTENDS ControlJobs

CONSTANTS ContentJobs, Workers, WorkerIds, WorkerId, NoJob, NoWorker,
          MaxAttempts, MaxLosses, MaxRecords       \* of RuntimeJobs

VARIABLES inbox, cancellations, status, fence, owner, lease, result,
          resumeInput, events, worker, losses      \* of RuntimeJobs

R == INSTANCE RuntimeJobs

\* What RuntimeJobs assumes of its constants.
ASSUME RuntimeAssumption ==
  /\ ContentJobs \subseteq Jobs /\ NoJob \notin Jobs
  /\ \A c \in Commands :
       c.job \in Jobs /\ c.type \in R!CommandTypes /\ c.action \in R!ResumeActions
  /\ WorkerId \in [Workers -> WorkerIds] /\ NoWorker \notin WorkerIds
  /\ MaxAttempts \in Nat \ {0} /\ MaxLosses \in Nat /\ MaxRecords \in Nat

runtimeVars == <<inbox, cancellations, status, fence, owner, lease, result,
                 resumeInput, events, worker, losses>>
vars == <<controlVars, runtimeVars>>

TypeOK == ControlTypeOK /\ R!TypeOK
Init == ControlInit /\ R!Init

Submit ==
  \E c \in Commands :
    SubmitMutation(c) \/ SubmitGeneration(c) \/ SubmitCancel(c) \/ SubmitResume(c)

\* What users do: they ask for something, or write a version by hand.
UserActs == Submit \/ \E d \in Documents : EditDocument(d)

\* The relay and the topics: a command that was submitted arrives.
DeliverCommand(c) == c \in outbox /\ R!Deliver(c) /\ UNCHANGED controlVars

\* An event of the Runtime's log arrives.
DeliverEvent(j) ==
  \E i \in DOMAIN events[j] : Project(j, i, events[j]) /\ UNCHANGED runtimeVars

RuntimeStep ==
  /\ \/ \E w \in Workers : R!WorkerStep(w)
     \/ \E j \in Jobs : R!LeaseExpires(j)
  /\ UNCHANGED controlVars

Next ==
  \/ UserActs /\ UNCHANGED runtimeVars
  \/ \E c \in Commands : DeliverCommand(c)
  \/ \E j \in Jobs : DeliverEvent(j)
  \/ RuntimeStep

Spec == Init /\ [][Next]_vars

(***************************************************************************)
(* The relays and consumers keep running, so that a message that can be    *)
(* handled is (messaging.go and the Runtime's roles retry for ever), and   *)
(* the workers as in RuntimeJobs.  Users need do nothing.                  *)
(***************************************************************************)
Fairness ==
  /\ \A c \in Commands : WF_vars(DeliverCommand(c))
  /\ \A j \in Jobs : WF_vars(DeliverEvent(j))
  /\ \A w \in Workers :
       /\ WF_vars(R!ClaimAny(w) /\ UNCHANGED controlVars)
       /\ WF_vars(R!Work(w) /\ UNCHANGED controlVars)
  /\ \A j \in Jobs : WF_vars(R!LeaseExpires(j) /\ ~R!Held(j) /\ UNCHANGED controlVars)

FairSpec == Spec /\ Fairness

-----------------------------------------------------------------------------
(* Properties.                                                             *)

\* Control never announces an end the Runtime has not reached, however the
\* events and the commands were reordered and repeated on the way.
EndsAgree ==
  \A j \in Jobs : jobStatus[j] \in Ended => status[j] = jobStatus[j]

\* A command of job j the Runtime can still act on.
InFlight(j) ==
  \E c \in outbox \ inbox :
    c.job = j /\ (c.type = "job.resume" => status[j] = "waiting_review")

\* Once nothing is on its way, what Control shows of a job is what the Runtime
\* says of it: nothing Control assumed on its own (queued after a resume,
\* cancel_requested after a cancel) outlives the Runtime's answer.
ViewsAgree ==
  \A j \in Jobs :
    jobStatus[j] # "none" /\ ~InFlight(j) /\ sequence[j] = Len(events[j]) =>
      jobStatus[j] = Public[status[j]]

\* Control and the Runtime agree: on ends always, on the rest once all has arrived
\* (Project).
Agreement == EndsAgree /\ ViewsAgree

\* Two mutations of one project never run, or wait for a worker, at the same
\* time, although Control can only judge by events it may not have seen yet
\* (control/020_project_workflow_concurrency.sql).
OneMutation ==
  \A j, k \in Mutations :
    j # k /\ ProjectOf[j] = ProjectOf[k] =>
      ~(/\ status[j] \in {"accepted", "running", "cancel_requested"}
        /\ status[k] \in {"accepted", "running", "cancel_requested"})

\* A resume Control has accepted finds the job waiting for it, unless a cancel
\* overtakes it: it cannot reach a job that is still at work, where the Runtime
\* would refuse it and the review would be lost.
ResumeFindsReview ==
  \A c \in outbox \ inbox :
    c.type = "job.resume" =>
      status[c.job] \in {"waiting_review", "cancelled"}

\* The versions of a document are those its jobs were told to write: a job's
\* version has the number frozen at its submission, so that no other version
\* came in between, and a job that failed or was cancelled has none.
VersionsAsFrozen ==
  \A j \in Jobs : LET vs == versions[DocumentOf[j]] IN
    \A n \in DOMAIN vs : vs[n] = j =>
      frozen[j] = n /\ jobStatus[j] = "completed" /\ status[j] = "completed"

\* A cancelled job is shown to have ended, however its cancel, its task and its
\* events were delayed.
CancelSettles ==
  \A j \in Jobs : jobStatus[j] = "cancel_requested" ~> jobStatus[j] \in Ended

\* Every end the Runtime reaches is shown by Control (go-control-plane.md:
\* lost, repeated and reordered messages are recovered from).
EndShown ==
  \A j \in Jobs : status[j] \in Ended ~> jobStatus[j] \in Ended
=============================================================================
