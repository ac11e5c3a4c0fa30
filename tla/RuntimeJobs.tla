---------------------------- MODULE RuntimeJobs ----------------------------
(***************************************************************************)
(* The Runtime's job store and its workers: RuntimeMQStore of              *)
(* infrastructure/postgres/messaging.py and DurableWorker of               *)
(* execution/worker.py.                                                    *)
(*                                                                         *)
(* Commands reach the store in any order and any number of times (the MQ   *)
(* topics are unordered and deliver at least once), each handler is one    *)
(* database transaction, and workers lease jobs: a claim raises the job's  *)
(* fencing token, a lease may run out while its worker still runs, and a   *)
(* worker may stop at any point.  Every transition of a job appends to the *)
(* job's event log (runtime_event_outbox); the position of an event in the *)
(* log is its sequence number.                                             *)
(***************************************************************************)
EXTENDS Naturals, Sequences, FiniteSets

CONSTANTS
  Jobs,          \* job ids
  ContentJobs,   \* the jobs run by the generic content graph; the others
                 \* (novel, media, operations) return what they like
  Commands,      \* records [id, job, type, action] the Control plane may issue
  Workers,       \* worker processes
  WorkerIds,     \* values of settings.worker_id
  WorkerId,      \* [Workers -> WorkerIds]; processes may share one
  NoJob, NoWorker,
  MaxAttempts,   \* settings.worker_max_attempts
  MaxLosses,     \* bound: leases lost while their worker was still at work
  MaxRecords     \* bound: model calls and artifacts recorded per job

CommandTypes == {"workflow.run", "job.cancel", "job.resume"}
ResumeActions == {"approve", "revise", "reconcile"}

ASSUME JobsAssumption ==
  /\ ContentJobs \subseteq Jobs
  /\ NoJob \notin Jobs
ASSUME CommandsAssumption ==
  \A c \in Commands :
    c.job \in Jobs /\ c.type \in CommandTypes /\ c.action \in ResumeActions
ASSUME WorkersAssumption ==
  WorkerId \in [Workers -> WorkerIds] /\ NoWorker \notin WorkerIds
ASSUME BoundsAssumption ==
  /\ MaxAttempts \in Nat \ {0}
  /\ MaxLosses \in Nat
  /\ MaxRecords \in Nat

VARIABLES
  inbox,         \* command_inbox: the commands already handled
  cancellations, \* runtime_cancellations: jobs a cancel command named
  status,        \* runtime_jobs.status, "none" when there is no row
  fence,         \* runtime_jobs.fencing_token, and attempt, which moves with it
  owner,         \* runtime_jobs.lease_owner
  lease,         \* lease_expires_at: "none", "live" or "expired"
  result,        \* the content version in runtime_jobs.result, 0 for none
  resumeInput,   \* runtime_jobs.resume_input's action, "none" before a resume
  events,        \* runtime_event_outbox, one log per job
  worker,        \* what each worker process is doing
  losses         \* bound: number of leases lost so far

vars == <<inbox, cancellations, status, fence, owner, lease, result,
          resumeInput, events, worker, losses>>
rowVars == <<status, fence, owner, lease, result, resumeInput>>

Active == {"accepted", "running", "cancel_requested", "waiting_review"}
Terminal == {"completed", "failed", "cancelled"}
Statuses == {"none"} \cup Active \cup Terminal
Leased == {"running", "cancel_requested"}

(***************************************************************************)
(* An event of a job's log.  "version" is the content version its payload  *)
(* names, 0 for none; "fence" is the fencing token of the row at the time. *)
(***************************************************************************)
Lifecycle == Active \cup Terminal \cup {"retry_scheduled"}
Reports == {"usage", "trace", "artifact", "content.version.committed"}
Event == [kind : Lifecycle \cup Reports, version : Nat, fence : Nat]
Ev(k, v, f) == [kind |-> k, version |-> v, fence |-> f]

Outcomes == {"completed", "failed", "cancelled", "accepted", "waiting_review"}
WorkerState == [job : Jobs \cup {NoJob}, fence : Nat, draft : Nat,
                phase : {"idle", "working", "finishing"},
                outcome : Outcomes, version : Nat]
Idle == [job |-> NoJob, fence |-> 0, draft |-> 0, phase |-> "idle",
         outcome |-> "failed", version |-> 0]

TypeOK ==
  /\ inbox \subseteq Commands
  /\ cancellations \subseteq Jobs
  /\ status \in [Jobs -> Statuses]
  /\ fence \in [Jobs -> Nat]
  /\ owner \in [Jobs -> WorkerIds \cup {NoWorker}]
  /\ lease \in [Jobs -> {"none", "live", "expired"}]
  /\ result \in [Jobs -> Nat]
  /\ resumeInput \in [Jobs -> ResumeActions \cup {"none"}]
  /\ events \in [Jobs -> Seq(Event)]
  /\ worker \in [Workers -> WorkerState]
  /\ losses \in Nat

Init ==
  /\ inbox = {}
  /\ cancellations = {}
  /\ status = [j \in Jobs |-> "none"]
  /\ fence = [j \in Jobs |-> 0]
  /\ owner = [j \in Jobs |-> NoWorker]
  /\ lease = [j \in Jobs |-> "none"]
  /\ result = [j \in Jobs |-> 0]
  /\ resumeInput = [j \in Jobs |-> "none"]
  /\ events = [j \in Jobs |-> <<>>]
  /\ worker = [w \in Workers |-> Idle]
  /\ losses = 0

-----------------------------------------------------------------------------
(* Commands.                                                               *)

\* _inbox: a known id is a replay (or a payload conflict): nothing changes.
NewInInbox(c) ==
  /\ \A d \in inbox : d.id # c.id
  /\ inbox' = inbox \cup {c}

\* accept_task: a recorded cancellation turns a late task into a cancelled row.
AcceptTask(c) ==
  LET s == IF c.job \in cancellations THEN "cancelled" ELSE "accepted"
  IN /\ c.type = "workflow.run"
     /\ status[c.job] = "none"
     /\ NewInInbox(c)
     /\ status' = [status EXCEPT ![c.job] = s]
     /\ events' = [events EXCEPT ![c.job] = Append(@, Ev(s, 0, fence[c.job]))]
     /\ UNCHANGED <<cancellations, fence, owner, lease, result, resumeInput,
                    worker, losses>>

CancellableAnyState == Active \cup Terminal           \* mutant: no state check
Cancellable == {"accepted", "running", "waiting_review"}

\* accept_control of job.cancel: a running job is only asked to stop.
AcceptCancel(c) ==
  /\ c.type = "job.cancel"
  /\ NewInInbox(c)
  /\ cancellations' = cancellations \cup {c.job}
  /\ \/ /\ status[c.job] \in Cancellable
        /\ LET s == IF status[c.job] = "running" THEN "cancel_requested"
                                                 ELSE "cancelled"
           IN /\ status' = [status EXCEPT ![c.job] = s]
              /\ result' = [result EXCEPT ![c.job] = 0]
              /\ events' = [events EXCEPT ![c.job] =
                              Append(@, Ev(s, 0, fence[c.job]))]
     \/ /\ status[c.job] \notin Cancellable
        /\ UNCHANGED <<status, result, events>>
  /\ UNCHANGED <<fence, owner, lease, resumeInput, worker, losses>>

\* accept_control of job.resume: refused (and not acknowledged) in any other
\* state.  The draft under review stays in result.
AcceptResume(c) ==
  /\ c.type = "job.resume"
  /\ status[c.job] = "waiting_review"
  /\ NewInInbox(c)
  /\ status' = [status EXCEPT ![c.job] = "accepted"]
  /\ resumeInput' = [resumeInput EXCEPT ![c.job] = c.action]
  /\ events' = [events EXCEPT ![c.job] =
                  Append(@, Ev("accepted", 0, fence[c.job]))]
  /\ UNCHANGED <<cancellations, fence, owner, lease, result, worker, losses>>

-----------------------------------------------------------------------------
(* Workers.                                                                *)

\* claim_next first settles the cancellations no worker can settle any more.
SweptNever == {}                        \* mutant: cancellations left to workers
Swept == {j \in Jobs : status[j] = "cancel_requested" /\ lease[j] = "expired"}
Claimable(j) ==
  \/ status[j] = "accepted"
  \/ status[j] = "running" /\ lease[j] = "expired"

\* The row of a job after a claim that swept S and picked the jobs in P.
ClaimRows(S, P, id) ==
  /\ status' = [j \in Jobs |-> IF j \in S THEN "cancelled"
                               ELSE IF j \in P THEN "running" ELSE status[j]]
  /\ fence' = [j \in Jobs |-> IF j \in P THEN fence[j] + 1 ELSE fence[j]]
  /\ owner' = [j \in Jobs |-> IF j \in S THEN NoWorker
                              ELSE IF j \in P THEN id ELSE owner[j]]
  /\ lease' = [j \in Jobs |-> IF j \in S THEN "none"
                              ELSE IF j \in P THEN "live" ELSE lease[j]]
  /\ result' = [j \in Jobs |-> IF j \in S THEN 0 ELSE result[j]]
  /\ events' = [j \in Jobs |->
                  IF j \in S THEN Append(events[j], Ev("cancelled", 0, fence[j]))
                  ELSE IF j \in P
                    THEN Append(events[j], Ev("running", 0, fence[j] + 1))
                    ELSE events[j]]

\* What the claimed row tells generate_content, lines 66-71: the draft to
\* publish as it is, 0 when there is none or it must be revised.  No action in
\* resume_input is read as "approve".
ApprovedDraftOnce(j) ==       \* mutant: forgets the draft after a lost lease
  IF resumeInput[j] = "approve" /\ fence[j] = result[j] THEN result[j] ELSE 0
ApprovedDraft(j) ==
  IF j \in ContentJobs /\ resumeInput[j] \in {"none", "approve"} THEN result[j] ELSE 0

\* claim_next: which due job is first is left open (created_at, SKIP LOCKED).
Claim(w, j) ==
  /\ worker[w].phase = "idle"
  /\ Claimable(j)
  /\ ClaimRows(Swept, {j}, WorkerId[w])
  /\ worker' = [worker EXCEPT ![w] =
       [Idle EXCEPT !.job = j, !.fence = fence[j] + 1, !.phase = "working",
                    !.draft = ApprovedDraft(j)]]
  /\ UNCHANGED <<inbox, cancellations, resumeInput, losses>>

\* claim_next that finds no job still commits the sweep.
ClaimNothing(w) ==
  /\ worker[w].phase = "idle"
  /\ \A j \in Jobs : ~Claimable(j)
  /\ Swept # {}
  /\ ClaimRows(Swept, {}, WorkerId[w])
  /\ UNCHANGED <<inbox, cancellations, resumeInput, worker, losses>>

OwnedByName(w) ==                          \* mutant: no fencing token
  LET j == worker[w].job
  IN j \in Jobs /\ owner[j] = WorkerId[w] /\ status[j] \in Leased /\ lease[j] = "live"

\* _owned: the row is still leased to this claim.
Owned(w) ==
  LET j == worker[w].job
  IN /\ j \in Jobs
     /\ owner[j] = WorkerId[w]
     /\ fence[j] = worker[w].fence
     /\ status[j] \in Leased
     /\ lease[j] = "live"

\* A FencingTokenError ends the work and leaves the row to its lease: renew
\* raises it on a lost lease, record_artifact also once a cancel is pending.
FencedOut(w) ==
  /\ worker[w].phase = "working"
  /\ ~Owned(w) \/ status[worker[w].job] = "cancel_requested"
  /\ worker' = [worker EXCEPT ![w] = Idle]
  /\ UNCHANGED <<inbox, cancellations, rowVars, events, losses>>

\* renew on a pending cancel interrupts the handler (otherwise it leaves the
\* lease live).
HeartbeatCancelled(w) ==
  /\ worker[w].phase = "working"
  /\ Owned(w)
  /\ status[worker[w].job] = "cancel_requested"
  /\ worker' = [worker EXCEPT ![w].phase = "finishing", ![w].outcome = "cancelled"]
  /\ UNCHANGED <<inbox, cancellations, rowVars, events, losses>>

\* record_model_call: two events of the same transaction.
Recorded(j) == Len(SelectSeq(events[j], LAMBDA e : e.kind \in Reports))
RecordModelCall(w) ==
  LET j == worker[w].job
  IN /\ worker[w].phase = "working"
     /\ Owned(w)
     /\ Recorded(j) < MaxRecords
     /\ events' = [events EXCEPT ![j] =
          Append(Append(@, Ev("usage", 0, fence[j])), Ev("trace", 0, fence[j]))]
     /\ UNCHANGED <<inbox, cancellations, rowVars, worker, losses>>

\* record_artifact: refused once a cancel is pending (FencedOut).
RecordArtifact(w) ==
  LET j == worker[w].job
  IN /\ worker[w].phase = "working"
     /\ Owned(w)
     /\ status[j] = "running"
     /\ Recorded(j) < MaxRecords
     /\ events' = [events EXCEPT ![j] = Append(@, Ev("artifact", 0, fence[j]))]
     /\ UNCHANGED <<inbox, cancellations, rowVars, worker, losses>>

\* What the handler may end with, as execute translates it: a new version is
\* named after the claim (uuid5 of job and fencing token), a retryable error
\* goes back to the queue while the attempts last.  Media handlers also ask for
\* a review without a draft (of a plan, or of what happened at the provider).
HandlerOutcomes(w) ==
  LET done(v) == [outcome |-> "completed", version |-> v]
      failed == [outcome |-> "failed", version |-> 0]
      retry == IF worker[w].fence < MaxAttempts
               THEN [outcome |-> "accepted", version |-> 0] ELSE failed
      review(v) == [outcome |-> "waiting_review", version |-> v]
  IN IF worker[w].draft # 0 THEN {done(worker[w].draft), failed}
     ELSE {done(0), done(worker[w].fence), review(worker[w].fence), retry, failed}
          \cup {review(0) : j \in {worker[w].job} \ ContentJobs}

HandlerReturns(w) ==
  /\ worker[w].phase = "working"
  /\ \E o \in HandlerOutcomes(w) :
       worker' = [worker EXCEPT ![w].phase = "finishing",
                                ![w].outcome = o.outcome,
                                ![w].version = o.version]
  /\ UNCHANGED <<inbox, cancellations, rowVars, events, losses>>

\* What finish writes: a pending cancel overrides the outcome.
FinalStatusAsIs(w) == worker[w].outcome      \* mutant: the cancel is overlooked
FinalStatus(w) ==
  IF status[worker[w].job] = "cancel_requested" THEN "cancelled"
  ELSE worker[w].outcome
FinalVersion(w) ==
  IF FinalStatus(w) \in {"completed", "waiting_review"} THEN worker[w].version
  ELSE 0
FinalEventsOfHandler(w) ==                  \* mutant: tells the handler's outcome
  <<Ev(worker[w].outcome, FinalVersion(w), worker[w].fence)>>
FinalEvents(w) ==
  LET s == FinalStatus(w)
      v == FinalVersion(w)
      f == worker[w].fence
      outcome == Ev(IF s = "accepted" THEN "retry_scheduled" ELSE s, v, f)
  IN IF s = "completed" /\ v # 0
     THEN <<outcome, Ev("content.version.committed", v, f)>>
     ELSE <<outcome>>

Finish(w) ==
  LET j == worker[w].job
  IN /\ worker[w].phase = "finishing"
     /\ Owned(w)
     /\ status' = [status EXCEPT ![j] = FinalStatus(w)]
     /\ result' = [result EXCEPT ![j] = FinalVersion(w)]
     /\ owner' = [owner EXCEPT ![j] = NoWorker]
     /\ lease' = [lease EXCEPT ![j] = "none"]
     /\ events' = [events EXCEPT ![j] = @ \o FinalEvents(w)]
     /\ worker' = [worker EXCEPT ![w] = Idle]
     /\ UNCHANGED <<inbox, cancellations, fence, resumeInput, losses>>

\* finish on a lost lease raises FencingTokenError: nothing is written.
FinishLost(w) ==
  /\ worker[w].phase = "finishing"
  /\ ~Owned(w)
  /\ worker' = [worker EXCEPT ![w] = Idle]
  /\ UNCHANGED <<inbox, cancellations, rowVars, events, losses>>

\* A crash, a shutdown, or an exception out of finish: the lease is left to
\* run out.
WorkerStops(w) ==
  /\ worker[w].phase # "idle"
  /\ losses < MaxLosses
  /\ losses' = losses + 1
  /\ worker' = [worker EXCEPT ![w] = Idle]
  /\ UNCHANGED <<inbox, cancellations, rowVars, events>>

Held(j) == \E w \in Workers : worker[w].job = j /\ worker[w].fence = fence[j]

\* Time passes: the lease of a worker that is gone, or of one that is too slow
\* to renew it.
LeaseExpires(j) ==
  /\ lease[j] = "live"
  /\ \/ ~Held(j) /\ UNCHANGED losses
     \/ Held(j) /\ losses < MaxLosses /\ losses' = losses + 1
  /\ lease' = [lease EXCEPT ![j] = "expired"]
  /\ UNCHANGED <<inbox, cancellations, status, fence, owner, result,
                 resumeInput, events, worker>>

-----------------------------------------------------------------------------
Deliver(c) == AcceptTask(c) \/ AcceptCancel(c) \/ AcceptResume(c)
Work(w) ==
  \/ FencedOut(w)
  \/ HeartbeatCancelled(w)
  \/ HandlerReturns(w)
  \/ Finish(w)
  \/ FinishLost(w)
ClaimAny(w) == ClaimNothing(w) \/ \E j \in Jobs : Claim(w, j)
WorkerStep(w) ==
  \/ ClaimAny(w)
  \/ Work(w)
  \/ RecordModelCall(w)
  \/ RecordArtifact(w)
  \/ WorkerStops(w)

Next ==
  \/ \E c \in Commands : Deliver(c)
  \/ \E w \in Workers : WorkerStep(w)
  \/ \E j \in Jobs : LeaseExpires(j)

Spec == Init /\ [][Next]_vars

(***************************************************************************)
(* The worker loop keeps polling and a handler call ends (its provider     *)
(* calls have timeouts), and the lease of a worker that is gone runs out.  *)
(* Nothing forces a command to arrive.                                     *)
(***************************************************************************)
Fairness ==
  /\ \A w \in Workers : WF_vars(ClaimAny(w)) /\ WF_vars(Work(w))
  /\ \A j \in Jobs : WF_vars(LeaseExpires(j) /\ ~Held(j))

FairSpec == Spec /\ Fairness

-----------------------------------------------------------------------------
(* Properties.                                                             *)

Log(j) == DOMAIN events[j]
Told(e) == IF e.kind = "retry_scheduled" THEN "accepted" ELSE e.kind

\* The row of a job and its log never disagree: its status is what the last
\* lifecycle event of its log tells, whichever of the control handlers, the
\* sweep and the workers moved it, so that whoever folds the events (Control)
\* learns every transition (messaging.py: state and outbox in one transaction).
LogTellsStatus ==
  \A j \in Jobs :
    \/ status[j] = "none" /\ events[j] = <<>>
    \/ \E i \in Log(j) :
         /\ events[j][i].kind \in Lifecycle
         /\ Told(events[j][i]) = status[j]
         /\ \A k \in Log(j) : k > i => events[j][k].kind \in Reports

\* Nothing follows the end of a job in its log but the version it commits: no
\* stale worker, late command or sweep speaks after a terminal event.
TerminalSeals ==
  \A j \in Jobs : \A i, k \in Log(j) :
    i < k /\ events[j][i].kind \in Terminal =>
      /\ events[j][i].kind = "completed"
      /\ events[j][k].kind = "content.version.committed"

\* Fencing, as the log shows it: once a newer claim is announced, no event of
\* an older claim follows, and every claim is announced once.
FencedLog ==
  \A j \in Jobs : \A i, k \in Log(j) :
    i < k => IF events[j][k].kind = "running"
             THEN events[j][i].fence < events[j][k].fence
             ELSE events[j][i].fence =< events[j][k].fence

\* No two processes hold the same job, even when they share a worker id (the
\* default "runtime-local") and one of them outlives its lease.
MutualExclusion ==
  \A v, w \in Workers :
    v # w /\ Owned(v) /\ Owned(w) => worker[v].job # worker[w].job
\* A lease has one holder, among the processes and in the log (claim_next).
OneHolder == MutualExclusion /\ FencedLog

\* An approved draft is published as it was reviewed, whatever crashes and
\* expired leases come between the approval and the commit
\* (runtime-handlers.md: approve reuses the draft).
LastReviewed(j) ==
  {i \in Log(j) : /\ events[j][i].kind = "waiting_review"
                  /\ \A k \in Log(j) : k > i => events[j][k].kind # "waiting_review"}
ApprovedDraftPublished ==
  \A j \in ContentJobs :
    status[j] = "completed" /\ resumeInput[j] = "approve" =>
      \A i \in LastReviewed(j) : result[j] = events[j][i].version

\* A cancellation the store has recorded is never overtaken: from then on a job
\* that has not ended can only end cancelled, and commits no version, however
\* late its task arrives and whatever its worker was about to write.
CancelWins ==
  [][\A j \in cancellations :
       status[j] \notin Terminal =>
         /\ status'[j] \in {"none", "cancel_requested", "cancelled"}
         /\ \A i \in DOMAIN events'[j] :
              i > Len(events[j]) =>
                events'[j][i].kind # "content.version.committed"]_vars

\* The store and its workers keep the promise of JobLifecycle: the abstract
\* job's state is the row's status, and what it published is the version in
\* the result of a completed row.
Published == [j \in Jobs |-> IF status[j] = "completed" THEN result[j] ELSE 0]
L == INSTANCE JobLifecycle
       WITH state <- status, cancelAsked <- cancellations, published <- Published
KeepsLifecycle == L!Spec

\* What the handlers of every other kind of job are modelled on: each job, seen
\* by its handlers, is a LeasedJob, whatever happens to the others.
Leasing(j) == [status |-> status[j], fence |-> fence[j], live |-> lease[j] = "live",
               resume |-> resumeInput[j]]
Holding(j) == [w \in Workers |-> IF worker[w].job = j THEN worker[w].fence ELSE 0]
LJ(j) == INSTANCE LeasedJob WITH job <- Leasing(j), hand <- Holding(j)
LeasesJobs ==
  /\ \A j \in Jobs : LJ(j)!Init
  /\ [][\A j \in Jobs : LJ(j)!Next \/ UNCHANGED <<Leasing(j), Holding(j)>>]_vars

\* Every job that is accepted comes to rest, cancelled jobs whose worker died
\* included: it ends, or waits for a reviewer.
JobSettles ==
  \A j \in Jobs :
    status[j] # "none" ~> status[j] \in Terminal \cup {"waiting_review"}
=============================================================================
