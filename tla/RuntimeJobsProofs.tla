------------------------- MODULE RuntimeJobsProofs -------------------------
(***************************************************************************)
(* Theorems of RuntimeJobs for every set of jobs, commands and workers.    *)
(* The inductive invariant has three parts: the rows and worker states are *)
(* well typed, every claim in progress has a fencing token of its own, and *)
(* the log of each job is well formed with respect to its row (LogOK).  On *)
(* top of it: only an answer follows a review in a log (ReviewsAnswered),  *)
(* and an approved draft stays what was reviewed (DraftsKept).  The second *)
(* half is what the module refines: the store and its workers implement    *)
(* JobLifecycle, a recorded cancellation wins, and each job, as its        *)
(* handlers see it, is a LeasedJob.  The first two need what AskedOK says  *)
(* of the jobs somebody asked to cancel; the third, that an idle process   *)
(* holds nothing and one at work has a token of its own (HandsOK).         *)
(***************************************************************************)
EXTENDS RuntimeJobs, SequenceTheorems, TLAPS

\* What a job's log must look like given its row's status and fencing token.
LogFenced(log, f) ==
  /\ \A i \in DOMAIN log : log[i].fence =< f
  /\ \A i, k \in DOMAIN log :
       i < k => IF log[k].kind = "running" THEN log[i].fence < log[k].fence
                                           ELSE log[i].fence =< log[k].fence
LogTells(log, st) ==
  \/ st = "none" /\ log = <<>>
  \/ \E i \in DOMAIN log :
       /\ log[i].kind \in Lifecycle
       /\ Told(log[i]) = st
       /\ \A k \in DOMAIN log : k > i => log[k].kind \in Reports
LogSealed(log) ==
  \A i, k \in DOMAIN log :
    i < k /\ log[i].kind \in Terminal =>
      /\ log[i].kind = "completed"
      /\ log[k].kind = "content.version.committed"
LogOK(log, st, f) == LogFenced(log, f) /\ LogTells(log, st) /\ LogSealed(log)

\* A worker works on a job with a token the store has issued; no two claims of
\* one job carry the same token.
ClaimsOK ==
  /\ \A w \in Workers :
       worker[w].job \in Jobs => worker[w].fence =< fence[worker[w].job]
  /\ \A w \in Workers : worker[w].phase # "idle" => worker[w].job \in Jobs
  /\ \A v, w \in Workers :
       v # w /\ worker[v].job = worker[w].job /\ worker[v].job \in Jobs =>
         worker[v].fence # worker[w].fence

LogsOK == \A j \in Jobs : LogOK(events[j], status[j], fence[j])

IInv == TypeOK /\ ClaimsOK /\ LogsOK

-----------------------------------------------------------------------------
(* Lemmas on logs.                                                         *)

\* Appending a lifecycle event to the log of a job that has not ended keeps the
\* log well formed for the new status and token.
LEMMA ExtendLog ==
  ASSUME NEW log \in Seq(Event), NEW st, NEW f \in Nat, NEW g \in Nat,
         NEW e \in Event, LogOK(log, st, f), st \notin Terminal,
         e.kind \in Lifecycle, e.fence = g, f =< g,
         e.kind = "running" => f < g
  PROVE  LogOK(Append(log, e), Told(e), g)
<1> DEFINE new == Append(log, e)
<1>1. /\ DOMAIN log = 1..Len(log) /\ DOMAIN new = 1..(Len(log) + 1)
      /\ Len(log) \in Nat
      /\ \A i \in DOMAIN log : new[i] = log[i] /\ log[i] \in Event
      /\ new[Len(log) + 1] = e
  OBVIOUS
<1> HIDE DEF new
<1>2. LogFenced(new, g)
  <2>1. /\ e.fence \in Nat
        /\ \A i \in DOMAIN log : log[i].fence \in Nat /\ log[i].fence =< f
    BY <1>1, SMT DEF LogOK, LogFenced, Event
  <2>2. \A i \in DOMAIN new : new[i].fence =< g
    BY <1>1, <2>1, SMT
  <2>3. ASSUME NEW i \in DOMAIN new, NEW k \in DOMAIN new, i < k
        PROVE  IF new[k].kind = "running" THEN new[i].fence < new[k].fence
                                          ELSE new[i].fence =< new[k].fence
    <3>1. i \in DOMAIN log
      BY <1>1, <2>3, SMT
    <3>2. CASE k \in DOMAIN log
      BY <1>1, <2>3, <3>1, <3>2, SMT DEF LogOK, LogFenced
    <3>3. CASE k = Len(log) + 1
      BY <1>1, <2>1, <3>1, <3>3, SMT
    <3> QED BY <1>1, <3>2, <3>3, SMT
  <2> QED BY <2>2, <2>3 DEF LogFenced
<1>3. LogTells(new, Told(e))
  BY <1>1, SMT DEF LogTells
<1>4. \A i \in DOMAIN log : log[i].kind \notin Terminal
  <2> SUFFICES ASSUME NEW i \in DOMAIN log, log[i].kind \in Terminal
               PROVE  FALSE
    OBVIOUS
  <2>1. PICK m \in DOMAIN log :
          /\ log[m].kind \in Lifecycle
          /\ Told(log[m]) = st
          /\ \A k \in DOMAIN log : k > m => log[k].kind \in Reports
    BY <1>1, SMT DEF LogOK, LogTells
  <2>2. i # m
    BY <2>1 DEF Told, Terminal
  <2>3. CASE i < m
    BY <2>1, <2>3, SMT DEF LogOK, LogSealed, Lifecycle, Active, Terminal
  <2>4. CASE i > m
    BY <2>1, <2>4, SMT DEF Reports, Terminal
  <2> QED BY <1>1, <2>2, <2>3, <2>4, SMT
<1>5. LogSealed(new)
  BY <1>1, <1>4, SMT DEF LogSealed
<1> QED BY <1>2, <1>3, <1>5 DEF LogOK, new

\* Appending a report: while the job runs, or the version a completed job
\* commits.
LEMMA ReportLog ==
  ASSUME NEW log \in Seq(Event), NEW st, NEW f \in Nat, NEW e \in Event,
         LogOK(log, st, f), st # "none", e.fence = f, e.kind \in Reports,
         \/ st \notin Terminal
         \/ st = "completed" /\ e.kind = "content.version.committed"
  PROVE  LogOK(Append(log, e), st, f)
<1> DEFINE new == Append(log, e)
<1>1. /\ DOMAIN log = 1..Len(log) /\ DOMAIN new = 1..(Len(log) + 1)
      /\ Len(log) \in Nat
      /\ \A i \in DOMAIN log : new[i] = log[i] /\ log[i] \in Event
      /\ new[Len(log) + 1] = e
  OBVIOUS
<1> HIDE DEF new
<1>2. LogFenced(new, f)
  <2>1. /\ e.fence \in Nat
        /\ \A i \in DOMAIN log : log[i].fence \in Nat /\ log[i].fence =< f
    BY <1>1, SMT DEF LogOK, LogFenced, Event
  <2>2. \A i \in DOMAIN new : new[i].fence =< f
    BY <1>1, <2>1, SMT
  <2>3. ASSUME NEW i \in DOMAIN new, NEW k \in DOMAIN new, i < k
        PROVE  IF new[k].kind = "running" THEN new[i].fence < new[k].fence
                                          ELSE new[i].fence =< new[k].fence
    <3>1. i \in DOMAIN log
      BY <1>1, <2>3, SMT
    <3>2. CASE k \in DOMAIN log
      BY <1>1, <2>3, <3>1, <3>2, SMT DEF LogOK, LogFenced
    <3>3. CASE k = Len(log) + 1
      BY <1>1, <2>1, <3>1, <3>3, SMT DEF Reports
    <3> QED BY <1>1, <3>2, <3>3, SMT
  <2> QED BY <2>2, <2>3 DEF LogFenced
<1>3. PICK m \in DOMAIN log :
        /\ log[m].kind \in Lifecycle
        /\ Told(log[m]) = st
        /\ \A k \in DOMAIN log : k > m => log[k].kind \in Reports
  BY <1>1, SMT DEF LogOK, LogTells
<1>4. LogTells(new, st)
  BY <1>1, <1>3, SMT DEF LogTells
<1>5. ASSUME NEW i \in DOMAIN log, log[i].kind \in Terminal
      PROVE  log[i].kind = "completed" /\ e.kind = "content.version.committed"
  <2>1. CASE i = m
    BY <1>3, <1>5, <2>1 DEF Told, Terminal
  <2>2. CASE i < m
    BY <1>3, <1>5, <2>2, SMT DEF LogOK, LogSealed, Lifecycle, Active, Terminal
  <2>3. CASE i > m
    BY <1>3, <1>5, <2>3, SMT DEF Reports, Terminal
  <2> QED BY <1>1, <2>1, <2>2, <2>3, SMT
<1>6. LogSealed(new)
  BY <1>1, <1>5, SMT DEF LogOK, LogSealed
<1> QED BY <1>2, <1>4, <1>6 DEF LogOK, new

-----------------------------------------------------------------------------
(* Types.                                                                  *)

LEMMA EventType ==
  ASSUME NEW k \in Lifecycle \cup Reports, NEW v \in Nat, NEW f \in Nat
  PROVE  /\ Ev(k, v, f) \in Event
         /\ Ev(k, v, f).kind = k
         /\ Ev(k, v, f).version = v
         /\ Ev(k, v, f).fence = f
BY DEF Ev, Event

\* What finish appends is a sequence of events.
LEMMA FinalEventsType ==
  ASSUME TypeOK, NEW w \in Workers, Owned(w)
  PROVE  /\ FinalStatus(w) \in Statuses
         /\ FinalVersion(w) \in Nat
         /\ FinalEvents(w) \in Seq(Event)
<1>1. /\ worker[w] \in WorkerState /\ worker[w].job \in Jobs
      /\ worker[w].fence \in Nat /\ worker[w].version \in Nat
      /\ worker[w].outcome \in Outcomes
  BY DEF TypeOK, Owned, WorkerState
<1>2. FinalStatus(w) \in Outcomes
  BY <1>1 DEF FinalStatus, Outcomes
<1>3. FinalVersion(w) \in Nat
  BY <1>1 DEF FinalVersion
<1>4. Ev(IF FinalStatus(w) = "accepted" THEN "retry_scheduled" ELSE FinalStatus(w),
         FinalVersion(w), worker[w].fence) \in Event
  BY <1>1, <1>2, <1>3, EventType DEF Outcomes, Lifecycle, Active, Terminal
<1>5. Ev("content.version.committed", FinalVersion(w), worker[w].fence) \in Event
  BY <1>1, <1>3, EventType DEF Reports
<1>6. FinalEvents(w) \in Seq(Event)
  BY <1>4, <1>5 DEF FinalEvents
<1> QED BY <1>2, <1>3, <1>6 DEF Outcomes, Statuses, Active, Terminal

\* Each step keeps the rows, logs and worker states well typed.
LEMMA TypeStep == IInv /\ [Next]_vars => TypeOK'
<1> SUFFICES ASSUME IInv, [Next]_vars PROVE TypeOK'
  OBVIOUS
<1> USE DEF rowVars
<1>0. TypeOK
  BY DEF IInv
<1>1. ASSUME NEW c \in Commands, AcceptTask(c) PROVE TypeOK'
  <2> DEFINE s == IF c.job \in cancellations THEN "cancelled" ELSE "accepted"
  <2>1. c.job \in Jobs /\ s \in Statuses /\ s \in Lifecycle
    BY CommandsAssumption DEF Statuses, Active, Terminal, Lifecycle
  <2>2. Ev(s, 0, fence[c.job]) \in Event
    BY <1>0, <2>1, EventType DEF TypeOK
  <2> QED BY <1>0, <1>1, <2>1, <2>2 DEF TypeOK, AcceptTask, NewInInbox
<1>2. ASSUME NEW c \in Commands, AcceptCancel(c) PROVE TypeOK'
  <2> DEFINE s == IF status[c.job] = "running" THEN "cancel_requested" ELSE "cancelled"
  <2>1. c.job \in Jobs /\ s \in Statuses /\ s \in Lifecycle
    BY CommandsAssumption DEF Statuses, Active, Terminal, Lifecycle
  <2>2. Ev(s, 0, fence[c.job]) \in Event
    BY <1>0, <2>1, EventType DEF TypeOK
  <2>3. CASE status[c.job] \in Cancellable
    <3>1. /\ status' = [status EXCEPT ![c.job] = s]
          /\ result' = [result EXCEPT ![c.job] = 0]
          /\ events' = [events EXCEPT ![c.job] = Append(@, Ev(s, 0, fence[c.job]))]
      BY <1>2, <2>3 DEF AcceptCancel
    <3>2. events' \in [Jobs -> Seq(Event)]
      BY <1>0, <2>1, <2>2, <3>1 DEF TypeOK
    <3>3. status' \in [Jobs -> Statuses] /\ result' \in [Jobs -> Nat]
      BY <1>0, <2>1, <3>1 DEF TypeOK
    <3> QED BY <1>0, <1>2, <2>1, <3>2, <3>3 DEF TypeOK, AcceptCancel, NewInInbox
  <2>4. CASE status[c.job] \notin Cancellable
    BY <1>0, <1>2, <2>1, <2>4 DEF TypeOK, AcceptCancel, NewInInbox
  <2> QED BY <2>3, <2>4
<1>3. ASSUME NEW c \in Commands, AcceptResume(c) PROVE TypeOK'
  <2>1. c.job \in Jobs /\ c.action \in ResumeActions
    BY CommandsAssumption
  <2>2. Ev("accepted", 0, fence[c.job]) \in Event
    BY <1>0, <2>1, EventType DEF TypeOK, Lifecycle, Active
  <2> QED BY <1>0, <1>3, <2>1, <2>2 DEF TypeOK, AcceptResume, NewInInbox, Statuses, Active
<1>4. ASSUME NEW S \in SUBSET Jobs, NEW P \in SUBSET Jobs, NEW w \in Workers,
             ClaimRows(S, P, WorkerId[w])
      PROVE  /\ status' \in [Jobs -> Statuses]
             /\ fence' \in [Jobs -> Nat]
             /\ owner' \in [Jobs -> WorkerIds \cup {NoWorker}]
             /\ lease' \in [Jobs -> {"none", "live", "expired"}]
             /\ result' \in [Jobs -> Nat]
             /\ events' \in [Jobs -> Seq(Event)]
  <2>1. \A j \in Jobs : fence[j] \in Nat /\ events[j] \in Seq(Event)
    BY <1>0 DEF TypeOK
  <2>2. \A j \in Jobs : /\ Ev("cancelled", 0, fence[j]) \in Event
                       /\ Ev("running", 0, fence[j] + 1) \in Event
    <3> SUFFICES ASSUME NEW j \in Jobs
                 PROVE  /\ Ev("cancelled", 0, fence[j]) \in Event
                        /\ Ev("running", 0, fence[j] + 1) \in Event
      OBVIOUS
    <3>1. /\ fence[j] \in Nat /\ fence[j] + 1 \in Nat
          /\ "cancelled" \in Lifecycle \cup Reports /\ "running" \in Lifecycle \cup Reports
      BY <2>1 DEF Lifecycle, Active, Terminal
    <3> QED BY <3>1, EventType
  <2>3. events' \in [Jobs -> Seq(Event)]
    BY <1>4, <2>1, <2>2 DEF ClaimRows
  <2>4. WorkerId[w] \in WorkerIds
    BY WorkersAssumption
  <2> QED BY <1>0, <1>4, <2>3, <2>4 DEF TypeOK, ClaimRows, Statuses, Active, Terminal
<1>5. ASSUME NEW w \in Workers, NEW j \in Jobs, Claim(w, j) PROVE TypeOK'
  <2>1. Swept \in SUBSET Jobs /\ {j} \in SUBSET Jobs
    BY DEF Swept
  <2>2. ApprovedDraft(j) \in Nat /\ fence[j] + 1 \in Nat
    BY <1>0 DEF ApprovedDraft, TypeOK
  <2>3. worker' \in [Workers -> WorkerState]
    BY <1>0, <1>5, <2>2 DEF TypeOK, Claim, WorkerState, Idle, Outcomes
  <2> QED BY <1>0, <1>4, <1>5, <2>1, <2>3 DEF TypeOK, Claim
<1>6. ASSUME NEW w \in Workers, ClaimNothing(w) PROVE TypeOK'
  <2>1. Swept \in SUBSET Jobs /\ {} \in SUBSET Jobs
    BY DEF Swept
  <2> QED BY <1>0, <1>4, <1>6, <2>1 DEF TypeOK, ClaimNothing
<1>7. Idle \in WorkerState
  BY DEF Idle, WorkerState, Outcomes
<1>8. ASSUME NEW w \in Workers,
             FencedOut(w) \/ FinishLost(w) \/ WorkerStops(w)
      PROVE  TypeOK'
  <2>1. worker' \in [Workers -> WorkerState]
    BY <1>0, <1>7, <1>8 DEF TypeOK, FencedOut, FinishLost, WorkerStops
  <2>2. losses' \in Nat
    BY <1>0, <1>8 DEF TypeOK, FencedOut, FinishLost, WorkerStops
  <2>3. UNCHANGED <<inbox, cancellations, rowVars, events>>
    BY <1>8 DEF FencedOut, FinishLost, WorkerStops
  <2> QED BY <1>0, <2>1, <2>2, <2>3 DEF TypeOK
<1>9. ASSUME NEW w \in Workers, HeartbeatCancelled(w) PROVE TypeOK'
  <2> DEFINE r == [worker[w] EXCEPT !.phase = "finishing", !.outcome = "cancelled"]
  <2>1. r \in WorkerState
    BY <1>0 DEF TypeOK, WorkerState, Outcomes
  <2>2. worker' = [worker EXCEPT ![w] = r]
    BY <1>9 DEF HeartbeatCancelled
  <2>3. worker' \in [Workers -> WorkerState]
    BY <1>0, <2>1, <2>2 DEF TypeOK
  <2> QED BY <1>0, <1>9, <2>3 DEF TypeOK, HeartbeatCancelled
<1>10. ASSUME NEW w \in Workers, HandlerReturns(w) PROVE TypeOK'
  <2>1. PICK o \in HandlerOutcomes(w) :
          worker' = [worker EXCEPT ![w].phase = "finishing",
                                   ![w].outcome = o.outcome, ![w].version = o.version]
    BY <1>10 DEF HandlerReturns
  <2>2. worker[w].draft \in Nat /\ worker[w].fence \in Nat
    BY <1>0 DEF TypeOK, WorkerState
  <2>3. o.outcome \in Outcomes /\ o.version \in Nat
    BY <2>1, <2>2, SMTT(30) DEF HandlerOutcomes, Outcomes
  <2> DEFINE r == [worker[w] EXCEPT !.phase = "finishing", !.outcome = o.outcome,
                                    !.version = o.version]
  <2>4. r \in WorkerState
    BY <1>0, <2>3 DEF TypeOK, WorkerState
  <2>5. worker' = [worker EXCEPT ![w] = r]
    BY <2>1
  <2>6. worker' \in [Workers -> WorkerState]
    BY <1>0, <2>4, <2>5 DEF TypeOK
  <2> QED BY <1>0, <1>10, <2>6 DEF TypeOK, HandlerReturns
<1>11. ASSUME NEW w \in Workers, RecordModelCall(w) \/ RecordArtifact(w) PROVE TypeOK'
  <2> DEFINE j == worker[w].job
  <2>1. j \in Jobs /\ fence[j] \in Nat /\ events[j] \in Seq(Event)
    BY <1>0, <1>11 DEF RecordModelCall, RecordArtifact, Owned, TypeOK
  <2>2. \A k \in Reports : Ev(k, 0, fence[j]) \in Event
    BY <2>1, EventType
  <2>3. events' \in [Jobs -> Seq(Event)]
    <3>1. CASE RecordModelCall(w)
      <4>1. Append(Append(events[j], Ev("usage", 0, fence[j])), Ev("trace", 0, fence[j]))
              \in Seq(Event)
        BY <2>1, <2>2 DEF Reports
      <4> QED BY <1>0, <2>1, <3>1, <4>1 DEF RecordModelCall, TypeOK
    <3>2. CASE RecordArtifact(w)
      <4>1. Append(events[j], Ev("artifact", 0, fence[j])) \in Seq(Event)
        BY <2>1, <2>2 DEF Reports
      <4> QED BY <1>0, <2>1, <3>2, <4>1 DEF RecordArtifact, TypeOK
    <3> QED BY <1>11, <3>1, <3>2
  <2> QED BY <1>0, <1>11, <2>3 DEF TypeOK, RecordModelCall, RecordArtifact
<1>12. ASSUME NEW w \in Workers, Finish(w) PROVE TypeOK'
  <2>1. /\ FinalStatus(w) \in Statuses /\ FinalVersion(w) \in Nat
        /\ FinalEvents(w) \in Seq(Event)
    BY <1>0, <1>12, FinalEventsType DEF Finish
  <2>2. worker[w].job \in Jobs
    BY <1>12 DEF Finish, Owned
  <2>3. events' \in [Jobs -> Seq(Event)]
    BY <1>0, <1>12, <2>1, <2>2 DEF Finish, TypeOK
  <2> QED BY <1>0, <1>7, <1>12, <2>1, <2>2, <2>3 DEF TypeOK, Finish
<1>13. ASSUME NEW j \in Jobs, LeaseExpires(j) PROVE TypeOK'
  BY <1>0, <1>13 DEF TypeOK, LeaseExpires
<1>14. CASE UNCHANGED vars
  BY <1>0, <1>14 DEF TypeOK, vars
<1> QED
  BY <1>1, <1>2, <1>3, <1>5, <1>6, <1>8, <1>9, <1>10, <1>11, <1>12, <1>13, <1>14
     DEF Next, Deliver, WorkerStep, ClaimAny, Work

-----------------------------------------------------------------------------
(* Claims.                                                                 *)

\* Steps that leave the tokens alone and only let workers go, or move on with
\* the same claim, keep the claims distinct.
LEMMA SameClaims ==
  ASSUME ClaimsOK, UNCHANGED fence,
         \A w \in Workers :
           \/ /\ worker'[w].job = worker[w].job
              /\ worker'[w].fence = worker[w].fence
              /\ worker'[w].phase # "idle" => worker[w].phase # "idle"
           \/ worker'[w].job \notin Jobs /\ worker'[w].phase = "idle"
  PROVE  ClaimsOK'
BY DEF ClaimsOK

\* Every step keeps the claims in progress distinct and issued by the store: a
\* claim takes a token above all earlier ones.
LEMMA ClaimsStep == IInv /\ [Next]_vars => ClaimsOK'
<1> SUFFICES ASSUME IInv, [Next]_vars PROVE ClaimsOK'
  OBVIOUS
<1> USE DEF rowVars
<1>0. TypeOK /\ ClaimsOK
  BY DEF IInv
<1>1. Idle.job \notin Jobs /\ Idle.phase = "idle"
  BY JobsAssumption DEF Idle
<1>2. ASSUME NEW w \in Workers, NEW r, worker' = [worker EXCEPT ![w] = r], UNCHANGED fence,
             \/ r = Idle
             \/ r.job = worker[w].job /\ r.fence = worker[w].fence /\ worker[w].phase # "idle"
      PROVE  ClaimsOK'
  <2>1. ASSUME NEW v \in Workers
        PROVE  worker'[v] = IF v = w THEN r ELSE worker[v]
    BY <1>0, <1>2 DEF TypeOK
  <2> QED BY <1>0, <1>1, <1>2, <2>1, SameClaims
<1>3. ASSUME NEW w \in Workers, NEW j \in Jobs, Claim(w, j) PROVE ClaimsOK'
  <2>1. /\ fence[j] \in Nat
        /\ fence' = [i \in Jobs |-> IF i \in {j} THEN fence[i] + 1 ELSE fence[i]]
    BY <1>0, <1>3 DEF Claim, ClaimRows, TypeOK
  <2>2. /\ worker'[w].job = j /\ worker'[w].fence = fence[j] + 1
        /\ \A v \in Workers : v # w => worker'[v] = worker[v]
    BY <1>0, <1>3 DEF Claim, TypeOK, Idle
  <2>3. \A v \in Workers : worker[v].fence \in Nat
    BY <1>0 DEF TypeOK, WorkerState
  <2>4. \A i \in Jobs : fence[i] \in Nat /\ fence'[i] \in Nat /\ fence[i] =< fence'[i]
    BY <1>0, <2>1 DEF TypeOK
  <2>5. ASSUME NEW v \in Workers, worker'[v].job \in Jobs
        PROVE  worker'[v].fence =< fence'[worker'[v].job]
    <3>1. CASE v = w
      BY <2>1, <2>2, <3>1
    <3>2. CASE v # w
      <4>1. worker[v].job \in Jobs /\ worker[v].fence =< fence[worker[v].job]
        BY <1>0, <2>2, <2>5, <3>2 DEF ClaimsOK
      <4> QED BY <2>2, <2>3, <2>4, <3>2, <4>1
    <3> QED BY <3>1, <3>2
  <2>6. ASSUME NEW v \in Workers, worker'[v].phase # "idle" PROVE worker'[v].job \in Jobs
    BY <1>0, <2>2, <2>6 DEF ClaimsOK
  <2>7. ASSUME NEW v \in Workers, v # w, worker[v].job = j
        PROVE  worker[v].fence # fence[j] + 1
    BY <1>0, <2>1, <2>3, <2>7 DEF ClaimsOK
  <2>8. ASSUME NEW u \in Workers, NEW v \in Workers, u # v,
               worker'[u].job = worker'[v].job, worker'[u].job \in Jobs
        PROVE  worker'[u].fence # worker'[v].fence
    BY <1>0, <2>2, <2>7, <2>8 DEF ClaimsOK
  <2> QED BY <2>5, <2>6, <2>8 DEF ClaimsOK
<1>4. ASSUME UNCHANGED <<fence, worker>> PROVE ClaimsOK'
  BY <1>0, <1>4 DEF ClaimsOK
<1>5. ASSUME NEW w \in Workers, ClaimNothing(w) PROVE ClaimsOK'
  <2>1. fence' = fence
    BY <1>0, <1>5 DEF ClaimNothing, ClaimRows, TypeOK
  <2> QED BY <1>4, <1>5, <2>1 DEF ClaimNothing
<1>6. ASSUME NEW c \in Commands, Deliver(c) PROVE ClaimsOK'
  BY <1>4, <1>6 DEF Deliver, AcceptTask, AcceptCancel, AcceptResume
<1>7. ASSUME NEW w \in Workers, FencedOut(w) \/ FinishLost(w) \/ WorkerStops(w) \/ Finish(w)
      PROVE  ClaimsOK'
  <2>1. worker' = [worker EXCEPT ![w] = Idle] /\ UNCHANGED fence
    BY <1>7 DEF FencedOut, FinishLost, WorkerStops, Finish
  <2> QED BY <1>2, <2>1
<1>8. ASSUME NEW w \in Workers, HeartbeatCancelled(w) PROVE ClaimsOK'
  <2> DEFINE r == [worker[w] EXCEPT !.phase = "finishing", !.outcome = "cancelled"]
  <2>1. worker' = [worker EXCEPT ![w] = r] /\ UNCHANGED fence /\ worker[w].phase # "idle"
    BY <1>8 DEF HeartbeatCancelled
  <2>2. r.job = worker[w].job /\ r.fence = worker[w].fence
    BY <1>0 DEF TypeOK, WorkerState
  <2> QED BY <1>2, <2>1, <2>2
<1>9. ASSUME NEW w \in Workers, HandlerReturns(w) PROVE ClaimsOK'
  <2>1. PICK o \in HandlerOutcomes(w) :
          worker' = [worker EXCEPT ![w].phase = "finishing",
                                   ![w].outcome = o.outcome, ![w].version = o.version]
    BY <1>9 DEF HandlerReturns
  <2> DEFINE r == [worker[w] EXCEPT !.phase = "finishing", !.outcome = o.outcome,
                                    !.version = o.version]
  <2>2. worker' = [worker EXCEPT ![w] = r] /\ UNCHANGED fence /\ worker[w].phase # "idle"
    BY <1>9, <2>1 DEF HandlerReturns
  <2>3. r.job = worker[w].job /\ r.fence = worker[w].fence
    BY <1>0 DEF TypeOK, WorkerState
  <2> QED BY <1>2, <2>2, <2>3
<1>10. ASSUME NEW w \in Workers, RecordModelCall(w) \/ RecordArtifact(w) PROVE ClaimsOK'
  BY <1>4, <1>10 DEF RecordModelCall, RecordArtifact
<1>11. ASSUME NEW j \in Jobs, LeaseExpires(j) PROVE ClaimsOK'
  BY <1>4, <1>11 DEF LeaseExpires
<1>12. CASE UNCHANGED vars
  BY <1>4, <1>12 DEF vars
<1> QED
  BY <1>3, <1>5, <1>6, <1>7, <1>8, <1>9, <1>10, <1>11, <1>12
     DEF Next, WorkerStep, ClaimAny, Work

-----------------------------------------------------------------------------
(* Logs.                                                                   *)

\* A step that changes the log of one job only.
LEMMA OneLog ==
  ASSUME TypeOK, LogsOK, NEW j \in Jobs, NEW log, NEW s,
         events' = [events EXCEPT ![j] = log], status' = [status EXCEPT ![j] = s],
         UNCHANGED fence, LogOK(log, s, fence[j])
  PROVE  LogsOK'
<1> SUFFICES ASSUME NEW i \in Jobs PROVE LogOK(events'[i], status'[i], fence'[i])
  BY DEF LogsOK
<1>1. CASE i = j
  BY <1>1 DEF TypeOK
<1>2. CASE i # j
  BY <1>2 DEF TypeOK, LogsOK
<1> QED BY <1>1, <1>2

\* Appending two elements one after the other appends the pair.
LEMMA ConcatPair ==
  ASSUME NEW S, NEW s \in Seq(S), NEW a \in S, NEW b \in S
  PROVE  s \o <<a, b>> = Append(Append(s, a), b)
<1> DEFINE l == s \o <<a, b>>
           r == Append(Append(s, a), b)
<1>1. l \in Seq(S) /\ r \in Seq(S) /\ Len(l) = Len(s) + 2 /\ Len(r) = Len(s) + 2
  BY SMTT(30)
<1>2. ASSUME NEW i \in 1 .. Len(s) + 2 PROVE l[i] = r[i]
  <2>1. CASE i =< Len(s)
    BY <2>1, SMTT(30)
  <2>2. CASE i = Len(s) + 1
    BY <2>2, SMTT(30)
  <2>3. CASE i = Len(s) + 2
    BY <2>3, SMTT(30)
  <2> QED BY <2>1, <2>2, <2>3
<1> HIDE DEF l, r
<1> QED BY <1>1, <1>2, SeqEqual

\* The log that finish writes: one outcome event, and the version it commits.
LEMMA FinishLog ==
  ASSUME TypeOK, NEW w \in Workers, NEW j, j = worker[w].job, Owned(w),
         LogOK(events[j], status[j], fence[j])
  PROVE  LogOK(events[j] \o FinalEvents(w), FinalStatus(w), fence[j])
<1> DEFINE s == FinalStatus(w)
           v == FinalVersion(w)
           f == worker[w].fence
           k == IF s = "accepted" THEN "retry_scheduled" ELSE s
           e == Ev(k, v, f)
           c == Ev("content.version.committed", v, f)
<1>1. /\ j \in Jobs /\ f = fence[j] /\ f \in Nat /\ status[j] \in Leased
      /\ worker[w].outcome \in Outcomes /\ events[j] \in Seq(Event)
  BY DEF Owned, TypeOK, WorkerState
<1>2. s \in Outcomes
  BY <1>1 DEF FinalStatus, Outcomes
<1>3. v \in Nat
  BY FinalEventsType
<1>4. k \in Lifecycle /\ k # "running"
  BY <1>2 DEF Outcomes, Lifecycle, Active, Terminal
<1>5. e \in Event /\ e.kind = k /\ e.fence = f
  BY <1>1, <1>3, <1>4, EventType
<1>6. Told(e) = s
  BY <1>2, <1>5 DEF Told, Outcomes
<1>7. status[j] \notin Terminal
  BY <1>1 DEF Leased, Terminal
<1>8. LogOK(Append(events[j], e), s, f)
  <2> HIDE DEF e, k, s
  <2> QED BY <1>1, <1>4, <1>5, <1>6, <1>7, ExtendLog
<1>9. Append(events[j], e) \in Seq(Event)
  BY <1>1, <1>5
<1>10. c \in Event /\ c.kind = "content.version.committed" /\ c.fence = f
  <2>1. "content.version.committed" \in Lifecycle \cup Reports
    BY DEF Reports
  <2> QED BY <1>1, <1>3, <2>1, EventType
<1>11. CASE s = "completed" /\ v # 0
  <2>1. LogOK(Append(Append(events[j], e), c), s, f)
    <3> HIDE DEF e, c, s
    <3> QED BY <1>1, <1>8, <1>9, <1>10, <1>11, ReportLog DEF Reports
  <2>2. events[j] \o <<e, c>> = Append(Append(events[j], e), c)
    <3> HIDE DEF e, c
    <3> QED BY <1>1, <1>5, <1>10, ConcatPair
  <2>3. FinalEvents(w) = <<e, c>>
    BY <1>11 DEF FinalEvents
  <2> QED BY <1>1, <2>1, <2>2, <2>3
<1>12. CASE ~(s = "completed" /\ v # 0)
  <2>1. events[j] \o <<e>> = Append(events[j], e)
    <3> HIDE DEF e
    <3> QED BY <1>1, <1>5
  <2>2. FinalEvents(w) = <<e>>
    BY <1>12 DEF FinalEvents
  <2> QED BY <1>1, <1>8, <2>1, <2>2
<1> QED BY <1>11, <1>12

\* Every step keeps every log well formed.
LEMMA LogsStep == IInv /\ [Next]_vars => LogsOK'
<1> SUFFICES ASSUME IInv, [Next]_vars PROVE LogsOK'
  OBVIOUS
<1> USE DEF rowVars
<1>0. TypeOK /\ LogsOK /\ \A j \in Jobs : events[j] \in Seq(Event) /\ fence[j] \in Nat
  BY DEF IInv, TypeOK
<1>1. ASSUME NEW j \in Jobs, NEW s \in Active \cup Terminal, s # "running",
             status[j] \notin Terminal
      PROVE  LogOK(Append(events[j], Ev(s, 0, fence[j])), s, fence[j])
  <2>1. /\ Ev(s, 0, fence[j]) \in Event /\ Ev(s, 0, fence[j]).kind = s
        /\ Ev(s, 0, fence[j]).fence = fence[j] /\ s \in Lifecycle
    BY <1>0, EventType DEF Lifecycle
  <2>2. Told(Ev(s, 0, fence[j])) = s
    BY <2>1 DEF Told, Active, Terminal
  <2>3. LogOK(events[j], status[j], fence[j])
    BY <1>0 DEF LogsOK
  <2> QED BY <1>0, <1>1, <2>1, <2>2, <2>3, ExtendLog
<1>2. ASSUME NEW j \in Jobs, status[j] \notin Terminal
      PROVE  LogOK(Append(events[j], Ev("running", 0, fence[j] + 1)), "running", fence[j] + 1)
  <2>1. /\ Ev("running", 0, fence[j] + 1) \in Event
        /\ Ev("running", 0, fence[j] + 1).kind = "running"
        /\ Ev("running", 0, fence[j] + 1).fence = fence[j] + 1
        /\ "running" \in Lifecycle /\ fence[j] + 1 \in Nat
        /\ fence[j] =< fence[j] + 1 /\ fence[j] < fence[j] + 1
    <3>1. fence[j] \in Nat /\ fence[j] + 1 \in Nat /\ "running" \in Lifecycle
      BY <1>0 DEF Lifecycle, Active
    <3> QED BY <3>1, EventType
  <2>2. Told(Ev("running", 0, fence[j] + 1)) = "running"
    BY <2>1 DEF Told
  <2>3. LogOK(events[j], status[j], fence[j])
    BY <1>0 DEF LogsOK
  <2> QED BY <1>0, <1>2, <2>1, <2>2, <2>3, ExtendLog
<1>3. ASSUME NEW c \in Commands, AcceptTask(c) PROVE LogsOK'
  <2> DEFINE s == IF c.job \in cancellations THEN "cancelled" ELSE "accepted"
  <2>1. c.job \in Jobs /\ s \in Active \cup Terminal /\ s # "running"
    BY CommandsAssumption DEF Active, Terminal
  <2>2. LogOK(Append(events[c.job], Ev(s, 0, fence[c.job])), s, fence[c.job])
    <3>1. status[c.job] \notin Terminal
      BY <1>3 DEF AcceptTask, Terminal
    <3> HIDE DEF s
    <3> QED BY <1>1, <2>1, <3>1
  <2> QED BY <1>0, <1>3, <2>1, <2>2, OneLog DEF AcceptTask
<1>4. ASSUME NEW c \in Commands, AcceptCancel(c) PROVE LogsOK'
  <2> DEFINE s == IF status[c.job] = "running" THEN "cancel_requested" ELSE "cancelled"
  <2>1. c.job \in Jobs /\ s \in Active \cup Terminal /\ s # "running" /\ UNCHANGED fence
    BY <1>4, CommandsAssumption DEF Active, Terminal, AcceptCancel
  <2>2. CASE status[c.job] \in Cancellable
    <3>1. /\ status' = [status EXCEPT ![c.job] = s]
          /\ events' = [events EXCEPT ![c.job] = Append(@, Ev(s, 0, fence[c.job]))]
      BY <1>4, <2>2 DEF AcceptCancel
    <3>2. LogOK(Append(events[c.job], Ev(s, 0, fence[c.job])), s, fence[c.job])
      <4>1. status[c.job] \notin Terminal
        BY <2>2 DEF Cancellable, Terminal
      <4> HIDE DEF s
      <4> QED BY <1>1, <2>1, <4>1
    <3>3. events' = [events EXCEPT ![c.job] = Append(events[c.job], Ev(s, 0, fence[c.job]))]
      BY <3>1
    <3> QED BY <1>0, <2>1, <3>1, <3>2, <3>3, OneLog
  <2>3. CASE status[c.job] \notin Cancellable
    BY <1>0, <1>4, <2>3 DEF AcceptCancel, LogsOK
  <2> QED BY <2>2, <2>3
<1>5. ASSUME NEW c \in Commands, AcceptResume(c) PROVE LogsOK'
  <2>1. c.job \in Jobs /\ status[c.job] \notin Terminal /\ UNCHANGED fence
    BY <1>5, CommandsAssumption DEF AcceptResume, Terminal
  <2>2. LogOK(Append(events[c.job], Ev("accepted", 0, fence[c.job])), "accepted", fence[c.job])
    BY <1>1, <2>1 DEF Active
  <2>3. /\ events' = [events EXCEPT ![c.job] = Append(events[c.job], Ev("accepted", 0, fence[c.job]))]
        /\ status' = [status EXCEPT ![c.job] = "accepted"]
    BY <1>5 DEF AcceptResume
  <2> QED BY <1>0, <2>1, <2>2, <2>3, OneLog
<1>6. ASSUME NEW P \in SUBSET Jobs, NEW id, ClaimRows(Swept, P, id),
             \A j \in P : Claimable(j)
      PROVE  LogsOK'
  <2> SUFFICES ASSUME NEW j \in Jobs PROVE LogOK(events'[j], status'[j], fence'[j])
    BY DEF LogsOK
  <2>1. LogOK(events[j], status[j], fence[j])
    BY <1>0 DEF LogsOK
  <2>2. CASE j \in Swept
    <3>1. j \notin P /\ status[j] \notin Terminal
      BY <1>6, <2>2 DEF Swept, Claimable, Terminal
    <3>2. /\ events'[j] = Append(events[j], Ev("cancelled", 0, fence[j]))
          /\ status'[j] = "cancelled" /\ fence'[j] = fence[j]
      BY <1>6, <2>2, <3>1 DEF ClaimRows
    <3> QED BY <1>1, <3>1, <3>2 DEF Terminal
  <2>3. CASE j \notin Swept /\ j \in P
    <3>1. status[j] \notin Terminal
      BY <1>6, <2>3 DEF Claimable, Terminal
    <3>2. /\ events'[j] = Append(events[j], Ev("running", 0, fence[j] + 1))
          /\ status'[j] = "running" /\ fence'[j] = fence[j] + 1
      BY <1>6, <2>3 DEF ClaimRows
    <3> QED BY <1>2, <3>1, <3>2
  <2>4. CASE j \notin Swept /\ j \notin P
    BY <1>6, <2>1, <2>4 DEF ClaimRows
  <2> QED BY <2>2, <2>3, <2>4
<1>7. ASSUME NEW w \in Workers, ClaimAny(w) PROVE LogsOK'
  <2>1. CASE ClaimNothing(w)
    BY <1>6, <2>1 DEF ClaimNothing
  <2>2. ASSUME NEW j \in Jobs, Claim(w, j) PROVE LogsOK'
    BY <1>6, <2>2 DEF Claim
  <2> QED BY <1>7, <2>1, <2>2 DEF ClaimAny
<1>8. ASSUME NEW w \in Workers, Finish(w) PROVE LogsOK'
  <2> DEFINE j == worker[w].job
  <2>1. j \in Jobs /\ Owned(w) /\ UNCHANGED fence
    BY <1>8 DEF Finish, Owned
  <2>2. LogOK(events[j] \o FinalEvents(w), FinalStatus(w), fence[j])
    BY <1>0, <2>1, FinishLog DEF LogsOK
  <2>3. /\ events' = [events EXCEPT ![j] = events[j] \o FinalEvents(w)]
        /\ status' = [status EXCEPT ![j] = FinalStatus(w)]
    BY <1>8 DEF Finish
  <2> QED BY <1>0, <2>1, <2>2, <2>3, OneLog
<1>9. ASSUME NEW w \in Workers, RecordModelCall(w) \/ RecordArtifact(w) PROVE LogsOK'
  <2> DEFINE j == worker[w].job
  <2>1. /\ j \in Jobs /\ status[j] \in Leased /\ UNCHANGED <<fence, status>>
        /\ LogOK(events[j], status[j], fence[j])
    BY <1>0, <1>9 DEF RecordModelCall, RecordArtifact, Owned, LogsOK
  <2>2. status[j] \notin Terminal /\ status[j] # "none"
    BY <2>1 DEF Leased, Terminal
  <2>3. ASSUME NEW k \in Reports
        PROVE  /\ Ev(k, 0, fence[j]) \in Event /\ Ev(k, 0, fence[j]).kind = k
               /\ Ev(k, 0, fence[j]).fence = fence[j]
    <3>1. k \in Lifecycle \cup Reports /\ fence[j] \in Nat /\ 0 \in Nat
      BY <1>0, <2>1
    <3> QED BY <3>1, EventType
  <2>4. \A k \in Reports : LogOK(Append(events[j], Ev(k, 0, fence[j])), status[j], fence[j])
    BY <1>0, <2>1, <2>2, <2>3, ReportLog
  <2>5. status' = [status EXCEPT ![j] = status[j]]
    BY <1>0, <2>1 DEF TypeOK
  <2>6. CASE RecordModelCall(w)
    <3> DEFINE log == Append(events[j], Ev("usage", 0, fence[j]))
    <3>1. log \in Seq(Event) /\ LogOK(log, status[j], fence[j])
      BY <1>0, <2>1, <2>3, <2>4 DEF Reports
    <3>2. LogOK(Append(log, Ev("trace", 0, fence[j])), status[j], fence[j])
      <4> HIDE DEF log
      <4>1. "trace" \in Reports
        BY DEF Reports
      <4> QED BY <1>0, <2>1, <2>2, <2>3, <3>1, <4>1, ReportLog
    <3>3. events' = [events EXCEPT ![j] = Append(log, Ev("trace", 0, fence[j]))]
      BY <2>6 DEF RecordModelCall
    <3> QED BY <1>0, <2>1, <2>5, <3>2, <3>3, OneLog
  <2>7. CASE RecordArtifact(w)
    <3>1. events' = [events EXCEPT ![j] = Append(events[j], Ev("artifact", 0, fence[j]))]
      BY <2>7 DEF RecordArtifact
    <3>2. LogOK(Append(events[j], Ev("artifact", 0, fence[j])), status[j], fence[j])
      BY <2>4 DEF Reports
    <3> QED BY <1>0, <2>1, <2>5, <3>1, <3>2, OneLog
  <2> QED BY <1>9, <2>6, <2>7
<1>10. ASSUME UNCHANGED <<status, fence, events>> PROVE LogsOK'
  BY <1>0, <1>10 DEF LogsOK
<1>11. ASSUME NEW w \in Workers,
              \/ FencedOut(w) \/ HeartbeatCancelled(w) \/ HandlerReturns(w)
              \/ FinishLost(w) \/ WorkerStops(w)
       PROVE  LogsOK'
  BY <1>10, <1>11
     DEF FencedOut, HeartbeatCancelled, HandlerReturns, FinishLost, WorkerStops
<1>12. ASSUME NEW j \in Jobs, LeaseExpires(j) PROVE LogsOK'
  BY <1>10, <1>12 DEF LeaseExpires
<1>13. CASE UNCHANGED vars
  BY <1>10, <1>13 DEF vars
<1> QED
  BY <1>3, <1>4, <1>5, <1>7, <1>8, <1>9, <1>11, <1>12, <1>13
     DEF Next, Deliver, WorkerStep, Work

-----------------------------------------------------------------------------
(* Theorems.                                                               *)

\* The inductive invariant holds in every reachable state.
THEOREM Invariance == Spec => []IInv
<1>1. Init => IInv
  <2> SUFFICES ASSUME Init PROVE IInv
    OBVIOUS
  <2>1. TypeOK
    BY WorkersAssumption DEF Init, TypeOK, Statuses, Active, Terminal, ResumeActions,
                            WorkerState, Idle, Outcomes
  <2>2. ClaimsOK
    BY JobsAssumption DEF Init, ClaimsOK, Idle
  <2>3. LogsOK
    BY DEF Init, LogsOK, LogOK, LogFenced, LogTells, LogSealed
  <2> QED BY <2>1, <2>2, <2>3 DEF IInv
<1>2. IInv /\ [Next]_vars => IInv'
  BY TypeStep, ClaimsStep, LogsStep DEF IInv
<1> QED BY <1>1, <1>2, PTL DEF Spec

\* The store's rows, logs and workers always have their types.
THEOREM TypeCorrect == Spec => []TypeOK
<1>1. IInv => TypeOK
  BY DEF IInv
<1> QED BY <1>1, Invariance, PTL

\* No two processes ever hold the same job, whatever their worker ids.
THEOREM Exclusion == Spec => []MutualExclusion
<1>1. IInv => MutualExclusion
  BY DEF IInv, ClaimsOK, MutualExclusion, Owned
<1> QED BY <1>1, Invariance, PTL

\* Fencing: once a newer claim is announced no event of an older one follows.
THEOREM Fencing == Spec => []FencedLog
<1>1. IInv => FencedLog
  BY DEF IInv, LogsOK, LogOK, LogFenced, FencedLog, Log
<1> QED BY <1>1, Invariance, PTL

\* A lease has one holder, among the processes and in the log.
THEOREM OneHolderAlways == Spec => []OneHolder
BY Exclusion, Fencing, PTL DEF OneHolder

\* Nothing but the committed version follows the end of a job in its log.
THEOREM Sealing == Spec => []TerminalSeals
<1>1. IInv => TerminalSeals
  BY DEF IInv, LogsOK, LogOK, LogSealed, TerminalSeals, Log
<1> QED BY <1>1, Invariance, PTL

\* The row's status is always what the last lifecycle event of its log tells.
THEOREM RowsAgree == Spec => []LogTellsStatus
<1>1. IInv => LogTellsStatus
  BY DEF IInv, LogsOK, LogOK, LogTells, LogTellsStatus, Log
<1> QED BY <1>1, Invariance, PTL

-----------------------------------------------------------------------------
(* What a step does to the log of a job.                                   *)

\* A worker or the sweep moves a job that is at work: one event, or two.  It
\* never says "accepted" or "cancel_requested": these answer a command.
Answers == {"accepted", "cancel_requested"}
Moved(j) ==
  /\ status[j] \in {"accepted"} \cup Leased
  /\ status'[j] # "none"
  /\ \/ \E e \in Event : e.kind \notin Answers /\ events'[j] = Append(events[j], e)
     \/ \E e, d \in Event :
          /\ e.kind \notin Answers \cup {"waiting_review"}
          /\ d.kind \notin Answers \cup {"waiting_review"}
          /\ events'[j] = Append(Append(events[j], e), d)
Untouched(j) == events'[j] = events[j] /\ status'[j] = status[j]

\* The events of a job that waits for a review: its last one says so.
LEMMA WaitingLast ==
  ASSUME NEW log \in Seq(Event), NEW st, NEW f, LogOK(log, st, f), log # <<>>
  PROVE  log[Len(log)].kind = "waiting_review" => st = "waiting_review"
<1> SUFFICES ASSUME log[Len(log)].kind = "waiting_review" PROVE st = "waiting_review"
  OBVIOUS
<1>1. Len(log) \in Nat /\ Len(log) \in DOMAIN log /\ DOMAIN log = 1 .. Len(log)
  OBVIOUS
<1>2. PICK m \in DOMAIN log :
        /\ Told(log[m]) = st
        /\ \A k \in DOMAIN log : k > m => log[k].kind \in Reports
  BY SMT DEF LogOK, LogTells
<1>3. m = Len(log)
  BY <1>1, <1>2, SMT DEF Reports
<1> QED BY <1>2, <1>3 DEF Told

\* What a worker's claim does to the log of each job.
LEMMA ClaimMoves ==
  ASSUME IInv, NEW P \in SUBSET Jobs, NEW id, ClaimRows(Swept, P, id),
         \A i \in P : Claimable(i), NEW j \in Jobs
  PROVE  Moved(j) \/ Untouched(j)
<1>0. events[j] \in Seq(Event) /\ fence[j] \in Nat
  BY DEF IInv, TypeOK
<1>1. CASE j \in Swept
  <2>1. Ev("cancelled", 0, fence[j]) \in Event /\ Ev("cancelled", 0, fence[j]).kind = "cancelled"
    <3>1. "cancelled" \in Lifecycle \cup Reports /\ fence[j] \in Nat /\ 0 \in Nat
      BY <1>0 DEF Lifecycle, Terminal
    <3> QED BY <3>1, EventType
  <2> QED BY <1>1, <2>1 DEF ClaimRows, Swept, Moved, Answers, Leased
<1>2. CASE j \notin Swept /\ j \in P
  <2>1. /\ Ev("running", 0, fence[j] + 1) \in Event
        /\ Ev("running", 0, fence[j] + 1).kind = "running"
    BY <1>0, EventType DEF Lifecycle, Active
  <2> QED BY <1>2, <2>1 DEF ClaimRows, Claimable, Moved, Answers, Leased
<1>3. CASE j \notin Swept /\ j \notin P
  BY <1>3 DEF ClaimRows, Untouched
<1> QED BY <1>1, <1>2, <1>3

\* What finishing a job does to its log.
LEMMA FinishMoves ==
  ASSUME IInv, NEW w \in Workers, Finish(w), NEW j \in Jobs
  PROVE  Moved(j) \/ Untouched(j)
<1> DEFINE i == worker[w].job
           s == FinalStatus(w)
           k == IF s = "accepted" THEN "retry_scheduled" ELSE s
           e == Ev(k, FinalVersion(w), worker[w].fence)
           d == Ev("content.version.committed", FinalVersion(w), worker[w].fence)
<1>1. /\ i \in Jobs /\ status[i] \in Leased /\ worker[w].outcome \in Outcomes
      /\ worker[w].fence \in Nat /\ Owned(w)
  BY DEF Finish, Owned, IInv, TypeOK, WorkerState
<1>2. /\ events \in [Jobs -> Seq(Event)] /\ status \in [Jobs -> Statuses]
      /\ events' = [events EXCEPT ![i] = @ \o FinalEvents(w)]
      /\ status' = [status EXCEPT ![i] = s]
  BY DEF Finish, IInv, TypeOK
<1>3. CASE j # i
  BY <1>1, <1>2, <1>3 DEF Untouched
<1>4. CASE j = i
  <2>0. events[j] \in Seq(Event)
    BY <1>2
  <2>1. s \in Outcomes /\ FinalVersion(w) \in Nat
    BY <1>1, FinalEventsType DEF FinalStatus, Outcomes, IInv
  <2>2. /\ e \in Event /\ e.kind = k /\ k \notin Answers
        /\ d \in Event /\ d.kind = "content.version.committed"
    <3>1. k \in Lifecycle /\ k \notin Answers
      BY <2>1 DEF Outcomes, Lifecycle, Active, Terminal, Answers
    <3>2. "content.version.committed" \in Reports
      BY DEF Reports
    <3> HIDE DEF k, s
    <3> QED BY <1>1, <2>1, <3>1, <3>2, EventType
  <2>3. events'[j] = events[j] \o FinalEvents(w) /\ status'[j] = s /\ s # "none"
    BY <1>1, <1>2, <1>4, <2>1 DEF Outcomes
  <2>4. CASE s = "completed" /\ FinalVersion(w) # 0
    <3>1. FinalEvents(w) = <<e, d>> /\ k = "completed"
      BY <2>4 DEF FinalEvents
    <3>2. events'[j] = Append(Append(events[j], e), d)
      <4> HIDE DEF e, d
      <4>1. events'[j] = events[j] \o <<e, d>>
        BY <2>3, <3>1
      <4>2. e \in Event /\ d \in Event
        BY <2>2
      <4> QED BY <2>0, <4>1, <4>2, ConcatPair
    <3> HIDE DEF e, d, s, k
    <3> QED BY <1>1, <1>4, <2>2, <2>3, <3>1, <3>2 DEF Moved, Answers
  <2>5. CASE ~(s = "completed" /\ FinalVersion(w) # 0)
    <3>1. FinalEvents(w) = <<e>>
      BY <2>5 DEF FinalEvents
    <3>2. events'[j] = Append(events[j], e)
      <4> HIDE DEF e
      <4> QED BY <2>0, <2>2, <2>3, <3>1
    <3> HIDE DEF e, s, k
    <3> QED BY <1>1, <1>4, <2>2, <2>3, <3>1, <3>2 DEF Moved, Answers
  <2> QED BY <2>4, <2>5
<1> QED BY <1>3, <1>4

\* Whatever a worker does, and the time that passes.
LEMMA WorkMoves ==
  ASSUME IInv,
         \/ \E w \in Workers : WorkerStep(w)
         \/ \E i \in Jobs : LeaseExpires(i),
         NEW j \in Jobs
  PROVE  (Moved(j) \/ Untouched(j)) /\ UNCHANGED <<inbox, cancellations>>
<1> USE DEF rowVars
<1>0. /\ events \in [Jobs -> Seq(Event)] /\ fence \in [Jobs -> Nat]
      /\ status \in [Jobs -> Statuses]
  BY DEF IInv, TypeOK
<1>1. ASSUME NEW i \in Jobs, LeaseExpires(i)
      PROVE  (Moved(j) \/ Untouched(j)) /\ UNCHANGED <<inbox, cancellations>>
  BY <1>1 DEF LeaseExpires, Untouched
<1>2. ASSUME NEW w \in Workers, ClaimAny(w)
      PROVE  (Moved(j) \/ Untouched(j)) /\ UNCHANGED <<inbox, cancellations>>
  <2>1. CASE ClaimNothing(w)
    BY <2>1, ClaimMoves DEF ClaimNothing
  <2>2. ASSUME NEW i \in Jobs, Claim(w, i)
        PROVE  (Moved(j) \/ Untouched(j)) /\ UNCHANGED <<inbox, cancellations>>
    BY <2>2, ClaimMoves DEF Claim
  <2> QED BY <1>2, <2>1, <2>2 DEF ClaimAny
<1>3. ASSUME NEW w \in Workers, Finish(w)
      PROVE  (Moved(j) \/ Untouched(j)) /\ UNCHANGED <<inbox, cancellations>>
  BY <1>3, FinishMoves DEF Finish
<1>4. ASSUME NEW w \in Workers, RecordModelCall(w) \/ RecordArtifact(w)
      PROVE  (Moved(j) \/ Untouched(j)) /\ UNCHANGED <<inbox, cancellations>>
  <2> DEFINE i == worker[w].job
  <2>1. /\ i \in Jobs /\ status[i] \in Leased /\ fence[i] \in Nat
        /\ UNCHANGED <<inbox, cancellations, status>>
    BY <1>0, <1>4 DEF RecordModelCall, RecordArtifact, Owned
  <2>2. ASSUME NEW k \in {"usage", "trace", "artifact"}
        PROVE  Ev(k, 0, fence[i]) \in Event /\ Ev(k, 0, fence[i]).kind = k
    BY <2>1, EventType DEF Reports
  <2>3. CASE j # i
    BY <1>0, <1>4, <2>1, <2>3 DEF RecordModelCall, RecordArtifact, Untouched
  <2>4. CASE j = i /\ RecordModelCall(w)
    <3>1. events'[j] = Append(Append(events[j], Ev("usage", 0, fence[i])), Ev("trace", 0, fence[i]))
      BY <1>0, <2>1, <2>4 DEF RecordModelCall
    <3>2. /\ Ev("usage", 0, fence[i]) \in Event /\ Ev("trace", 0, fence[i]) \in Event
          /\ Ev("usage", 0, fence[i]).kind = "usage" /\ Ev("trace", 0, fence[i]).kind = "trace"
      BY <2>2
    <3>3. status'[j] = status[j] /\ status[j] # "none"
      BY <2>1, <2>4 DEF Leased
    <3> QED BY <2>1, <2>4, <3>1, <3>2, <3>3 DEF Moved, Answers
  <2>5. CASE j = i /\ RecordArtifact(w)
    <3>1. events'[j] = Append(events[j], Ev("artifact", 0, fence[i]))
      BY <1>0, <2>1, <2>5 DEF RecordArtifact
    <3>2. Ev("artifact", 0, fence[i]) \in Event /\ Ev("artifact", 0, fence[i]).kind = "artifact"
      BY <2>2
    <3>3. status'[j] = status[j] /\ status[j] # "none"
      BY <2>1, <2>5 DEF Leased
    <3> QED BY <2>1, <2>5, <3>1, <3>2, <3>3 DEF Moved, Answers
  <2> QED BY <1>4, <2>1, <2>3, <2>4, <2>5
<1>5. ASSUME NEW w \in Workers,
             \/ FencedOut(w) \/ HeartbeatCancelled(w) \/ HandlerReturns(w)
             \/ FinishLost(w) \/ WorkerStops(w)
      PROVE  (Moved(j) \/ Untouched(j)) /\ UNCHANGED <<inbox, cancellations>>
  BY <1>5 DEF FencedOut, HeartbeatCancelled, HandlerReturns, FinishLost, WorkerStops, Untouched
<1> QED BY <1>1, <1>2, <1>3, <1>4, <1>5 DEF WorkerStep, Work

-----------------------------------------------------------------------------
(* Only an answer follows a review in the log: the resume of the reviewer, *)
(* or the cancellation.                                                    *)

Answered(log) ==
  \A i \in DOMAIN log :
    log[i].kind = "waiting_review" /\ i + 1 \in DOMAIN log =>
      log[i + 1].kind \in {"accepted", "cancelled"}
ReviewsAnswered == \A j \in Jobs : Answered(events[j])

LEMMA AnswerAppend ==
  ASSUME NEW log \in Seq(Event), Answered(log), NEW e \in Event,
         log # <<>> /\ log[Len(log)].kind = "waiting_review" =>
           e.kind \in {"accepted", "cancelled"}
  PROVE  Answered(Append(log, e))
<1> DEFINE new == Append(log, e)
<1>1. /\ DOMAIN log = 1..Len(log) /\ DOMAIN new = 1..(Len(log) + 1)
      /\ Len(log) \in Nat
      /\ \A i \in DOMAIN log : new[i] = log[i]
      /\ new[Len(log) + 1] = e
      /\ Len(log) # 0 => log # <<>>
  OBVIOUS
<1> HIDE DEF new
<1> SUFFICES ASSUME NEW i \in DOMAIN new, new[i].kind = "waiting_review", i + 1 \in DOMAIN new
             PROVE  new[i + 1].kind \in {"accepted", "cancelled"}
  BY DEF Answered, new
<1>2. CASE i + 1 \in DOMAIN log
  BY <1>1, <1>2, SMT DEF Answered
<1>3. CASE i + 1 = Len(log) + 1
  BY <1>1, <1>3, SMT
<1> QED BY <1>1, <1>2, <1>3, SMT

LEMMA ReviewsStep == IInv /\ ReviewsAnswered /\ [Next]_vars => ReviewsAnswered'
<1> SUFFICES ASSUME IInv, ReviewsAnswered, [Next]_vars, NEW j \in Jobs
             PROVE  Answered(events'[j])
  BY DEF ReviewsAnswered
<1>0. /\ events \in [Jobs -> Seq(Event)] /\ fence \in [Jobs -> Nat]
      /\ events[j] \in Seq(Event) /\ Answered(events[j]) /\ LogOK(events[j], status[j], fence[j])
      /\ events[j] # <<>> /\ events[j][Len(events[j])].kind = "waiting_review"
           => status[j] = "waiting_review"
  BY WaitingLast DEF IInv, TypeOK, LogsOK, ReviewsAnswered
<1>1. CASE Moved(j)
  <2>1. status[j] # "waiting_review"
    BY <1>1 DEF Moved, Leased
  <2>2. ASSUME NEW e \in Event, events'[j] = Append(events[j], e) PROVE Answered(events'[j])
    BY <1>0, <2>1, <2>2, AnswerAppend
  <2>3. ASSUME NEW e \in Event, NEW d \in Event, e.kind # "waiting_review",
               events'[j] = Append(Append(events[j], e), d)
        PROVE  Answered(events'[j])
    <3> DEFINE log == Append(events[j], e)
    <3>1. log \in Seq(Event) /\ Answered(log) /\ log[Len(log)] = e
      BY <1>0, <2>1, AnswerAppend
    <3> HIDE DEF log
    <3>2. Answered(Append(log, d))
      BY <2>3, <3>1, AnswerAppend
    <3> QED BY <2>3, <3>2 DEF log
  <2> QED BY <1>1, <2>2, <2>3 DEF Moved
<1>2. CASE Untouched(j)
  BY <1>0, <1>2 DEF Untouched
<1>3. ASSUME NEW c \in Commands, Deliver(c) PROVE Answered(events'[j])
  <2>0. c.job \in Jobs
    BY CommandsAssumption
  <2>1. CASE j # c.job \/ events' = events
    BY <1>0, <1>3, <2>0, <2>1 DEF Deliver, AcceptTask, AcceptCancel, AcceptResume
  <2>2. ASSUME NEW s \in {"accepted", "cancelled", "cancel_requested"}, j = c.job,
               s = "cancel_requested" => status[j] # "waiting_review",
               events' = [events EXCEPT ![j] = Append(@, Ev(s, 0, fence[j]))]
        PROVE  Answered(events'[j])
    <3>1. Ev(s, 0, fence[j]) \in Event /\ Ev(s, 0, fence[j]).kind = s
      BY <1>0, EventType DEF Lifecycle, Active, Terminal
    <3>2. events'[j] = Append(events[j], Ev(s, 0, fence[j]))
      BY <1>0, <2>2
    <3> QED BY <1>0, <2>2, <3>1, <3>2, AnswerAppend
  <2>3. CASE AcceptTask(c) /\ j = c.job
    <3> DEFINE s == IF c.job \in cancellations THEN "cancelled" ELSE "accepted"
    <3>1. s \in {"accepted", "cancelled"}
      OBVIOUS
    <3>2. events' = [events EXCEPT ![j] = Append(@, Ev(s, 0, fence[j]))]
      BY <2>3 DEF AcceptTask
    <3> HIDE DEF s
    <3> QED BY <2>2, <2>3, <3>1, <3>2
  <2>4. CASE AcceptCancel(c) /\ j = c.job /\ status[j] \in Cancellable
    <3> DEFINE s == IF status[j] = "running" THEN "cancel_requested" ELSE "cancelled"
    <3>1. s \in {"cancel_requested", "cancelled"}
          /\ (s = "cancel_requested" => status[j] # "waiting_review")
      OBVIOUS
    <3>2. events' = [events EXCEPT ![j] = Append(@, Ev(s, 0, fence[j]))]
      BY <2>4 DEF AcceptCancel
    <3> HIDE DEF s
    <3> QED BY <2>2, <2>4, <3>1, <3>2
  <2>5. CASE AcceptCancel(c) /\ j = c.job /\ status[j] \notin Cancellable
    BY <2>1, <2>5 DEF AcceptCancel
  <2>6. CASE AcceptResume(c) /\ j = c.job
    BY <2>2, <2>6 DEF AcceptResume
  <2> QED BY <1>3, <2>1, <2>3, <2>4, <2>5, <2>6 DEF Deliver
<1>4. CASE UNCHANGED vars
  BY <1>0, <1>4 DEF vars
<1> QED BY <1>1, <1>2, <1>3, <1>4, WorkMoves DEF Next

LEMMA ReviewInvariance == Spec => [](IInv /\ ReviewsAnswered)
<1>1. Init => ReviewsAnswered
  BY DEF Init, ReviewsAnswered, Answered
<1> QED BY <1>1, Invariance, ReviewsStep, PTL DEF Spec

-----------------------------------------------------------------------------
(* An approved draft stays what was reviewed.                              *)

\* v is the version of the last review in the log, if there was one.
Reviewed(log, v) ==
  \A i \in DOMAIN log :
    /\ log[i].kind = "waiting_review"
    /\ \A k \in DOMAIN log : k > i => log[k].kind # "waiting_review"
    => v = log[i].version

\* The row keeps the draft under review, and then the approved one, until the
\* job ends: completed means published as it was reviewed.
RowKeeps(j) ==
  /\ status[j] = "none" => resumeInput[j] = "none"
  /\ status[j] = "waiting_review" => result[j] # 0 /\ Reviewed(events[j], result[j])
  /\ status[j] \in {"accepted", "running"} /\ resumeInput[j] = "approve" =>
       result[j] # 0 /\ Reviewed(events[j], result[j])
  /\ status[j] = "completed" /\ resumeInput[j] = "approve" => Reviewed(events[j], result[j])

\* The worker that holds the job has the approved draft in its hands and can
\* only publish it or fail.
Holds(w, j) ==
  worker[w].job = j /\ worker[w].phase # "idle" /\ worker[w].fence = fence[j]
HandKeeps(w, j) ==
  Holds(w, j) =>
    /\ worker[w].fence # 0
    /\ worker[w].phase = "finishing" /\ worker[w].outcome = "waiting_review" =>
         worker[w].version # 0
    /\ status[j] = "running" /\ resumeInput[j] = "approve" =>
         /\ worker[w].draft = result[j]
         /\ worker[w].phase = "finishing" =>
              \/ worker[w].outcome = "completed" /\ worker[w].version = worker[w].draft
              \/ worker[w].outcome \in {"failed", "cancelled"}

DraftsKept == \A j \in ContentJobs : RowKeeps(j) /\ \A w \in Workers : HandKeeps(w, j)

\* An event that asks for no review leaves the reviewed version what it was,
\* and one that does names it.
LEMMA ReviewedAppend ==
  ASSUME NEW log \in Seq(Event), NEW e \in Event, NEW v,
         IF e.kind = "waiting_review" THEN v = e.version ELSE Reviewed(log, v)
  PROVE  Reviewed(Append(log, e), v)
<1> DEFINE new == Append(log, e)
<1>1. /\ DOMAIN log = 1..Len(log) /\ DOMAIN new = 1..(Len(log) + 1)
      /\ Len(log) \in Nat
      /\ \A i \in DOMAIN log : new[i] = log[i]
      /\ new[Len(log) + 1] = e
  OBVIOUS
<1> HIDE DEF new
<1> SUFFICES ASSUME NEW i \in DOMAIN new, new[i].kind = "waiting_review",
                    \A k \in DOMAIN new : k > i => new[k].kind # "waiting_review"
             PROVE  v = new[i].version
  BY DEF Reviewed, new
<1>2. CASE e.kind = "waiting_review"
  <2>1. i = Len(log) + 1
    BY <1>1, <1>2, SMT
  <2> QED BY <1>1, <1>2, <2>1
<1>3. CASE e.kind # "waiting_review"
  <2>1. i \in DOMAIN log /\ \A k \in DOMAIN log : k > i => log[k].kind # "waiting_review"
    BY <1>1, <1>3, SMT
  <2> QED BY <1>1, <1>3, <2>1, SMT DEF Reviewed
<1> QED BY <1>2, <1>3

\* A row that does not move, whatever is reported meanwhile.
LEMMA RowRests ==
  ASSUME NEW j, RowKeeps(j), events[j] \in Seq(Event),
         status'[j] = status[j], result'[j] = result[j], resumeInput'[j] = resumeInput[j],
         \/ events'[j] = events[j]
         \/ \E e \in Event : e.kind # "waiting_review" /\ events'[j] = Append(events[j], e)
         \/ \E e, d \in Event : /\ e.kind # "waiting_review" /\ d.kind # "waiting_review"
                                /\ events'[j] = Append(Append(events[j], e), d)
  PROVE  RowKeeps(j)'
<1>1. ASSUME NEW v, Reviewed(events[j], v) PROVE Reviewed(events'[j], v)
  <2>1. CASE events'[j] = events[j]
    BY <1>1, <2>1
  <2>2. ASSUME NEW e \in Event, e.kind # "waiting_review", events'[j] = Append(events[j], e)
        PROVE  Reviewed(events'[j], v)
    BY <1>1, <2>2, ReviewedAppend
  <2>3. ASSUME NEW e \in Event, NEW d \in Event, e.kind # "waiting_review", d.kind # "waiting_review",
               events'[j] = Append(Append(events[j], e), d)
        PROVE  Reviewed(events'[j], v)
    <3> DEFINE log == Append(events[j], e)
    <3>1. log \in Seq(Event) /\ Reviewed(log, v)
      BY <1>1, <2>3, ReviewedAppend
    <3> HIDE DEF log
    <3>2. Reviewed(Append(log, d), v)
      BY <2>3, <3>1, ReviewedAppend
    <3> QED BY <2>3, <3>2 DEF log
  <2> QED BY <2>1, <2>2, <2>3
<1> QED BY <1>1 DEF RowKeeps

\* A command that reaches the store.
LEMMA DeliveredDraft ==
  ASSUME IInv, DraftsKept, NEW c \in Commands, Deliver(c), NEW j \in ContentJobs
  PROVE  RowKeeps(j)' /\ \A w \in Workers : HandKeeps(w, j)'
<1>0. /\ c.job \in Jobs /\ j \in Jobs /\ events[j] \in Seq(Event) /\ fence[j] \in Nat
      /\ status \in [Jobs -> Statuses] /\ events \in [Jobs -> Seq(Event)]
      /\ result \in [Jobs -> Nat] /\ resumeInput \in [Jobs -> ResumeActions \cup {"none"}]
      /\ RowKeeps(j) /\ \A w \in Workers : HandKeeps(w, j)
      /\ UNCHANGED <<worker, fence>>
  BY CommandsAssumption, JobsAssumption
     DEF IInv, TypeOK, DraftsKept, Deliver, AcceptTask, AcceptCancel, AcceptResume
<1>1. CASE UNCHANGED <<status[j], result[j], resumeInput[j], events[j]>>
  BY <1>0, <1>1, RowRests DEF HandKeeps, Holds
<1>2. CASE status'[j] \in {"cancelled", "cancel_requested"}
  BY <1>0, <1>2 DEF RowKeeps, HandKeeps, Holds
<1>3. CASE AcceptTask(c) /\ c.job = j
  BY <1>0, <1>3 DEF AcceptTask, RowKeeps, HandKeeps, Holds
<1>4. CASE AcceptResume(c) /\ c.job = j
  <2>1. /\ status[j] = "waiting_review" /\ status'[j] = "accepted" /\ result'[j] = result[j]
        /\ events'[j] = Append(events[j], Ev("accepted", 0, fence[j]))
    BY <1>0, <1>4 DEF AcceptResume
  <2>2. Ev("accepted", 0, fence[j]) \in Event /\ Ev("accepted", 0, fence[j]).kind = "accepted"
    <3>1. "accepted" \in Lifecycle \cup Reports /\ fence[j] \in Nat
      BY <1>0 DEF Lifecycle, Active
    <3> QED BY <3>1, EventType
  <2>3. Reviewed(events'[j], result'[j])
    BY <1>0, <2>1, <2>2, ReviewedAppend DEF RowKeeps
  <2> QED BY <1>0, <2>1, <2>3 DEF RowKeeps, HandKeeps, Holds
<1>5. CASE AcceptCancel(c)
  <2>1. CASE c.job = j /\ status[j] \in Cancellable
    BY <1>0, <1>2, <1>5, <2>1 DEF AcceptCancel
  <2>2. CASE ~(c.job = j /\ status[j] \in Cancellable)
    BY <1>0, <1>1, <1>5, <2>2 DEF AcceptCancel
  <2> QED BY <2>1, <2>2
<1>6. CASE c.job # j /\ (AcceptTask(c) \/ AcceptResume(c))
  BY <1>0, <1>1, <1>6 DEF AcceptTask, AcceptResume
<1> QED BY <1>3, <1>4, <1>5, <1>6 DEF Deliver

\* A claim: the approved draft goes from the row into the hands of the worker.
LEMMA ClaimedDraft ==
  ASSUME IInv, DraftsKept, NEW w \in Workers, ClaimAny(w), NEW j \in ContentJobs
  PROVE  RowKeeps(j)' /\ \A v \in Workers : HandKeeps(v, j)'
<1>0. /\ j \in Jobs /\ events[j] \in Seq(Event) /\ fence[j] \in Nat /\ result[j] \in Nat
      /\ fence \in [Jobs -> Nat] /\ worker \in [Workers -> WorkerState]
      /\ RowKeeps(j) /\ \A v \in Workers : HandKeeps(v, j)
      /\ resumeInput' = resumeInput /\ ClaimsOK
  BY JobsAssumption DEF IInv, TypeOK, DraftsKept, ClaimAny, Claim, ClaimNothing
<1>1. CASE j \in Swept
  <2>1. status'[j] = "cancelled" /\ ~Claimable(j) /\ fence'[j] = fence[j]
    <3>1. ~Claimable(j)
      BY <1>1 DEF Swept, Claimable
    <3>2. ASSUME NEW P \in SUBSET Jobs, NEW id, ClaimRows(Swept, P, id), j \notin P
          PROVE  status'[j] = "cancelled" /\ fence'[j] = fence[j]
      BY <1>0, <1>1, <3>2 DEF ClaimRows
    <3>3. CASE ClaimNothing(w)
      BY <3>1, <3>2, <3>3 DEF ClaimNothing
    <3>4. ASSUME NEW i \in Jobs, Claim(w, i)
          PROVE  status'[j] = "cancelled" /\ fence'[j] = fence[j]
      BY <3>1, <3>2, <3>4 DEF Claim
    <3> QED BY <3>1, <3>3, <3>4 DEF ClaimAny
  <2>2. ASSUME NEW v \in Workers PROVE HandKeeps(v, j)'
    <3>1. CASE worker'[v] = worker[v]
      BY <1>0, <2>1, <3>1 DEF HandKeeps, Holds
    <3>2. CASE worker'[v] # worker[v]
      <4>1. worker'[v].job # j
        BY <1>0, <2>1, <3>2 DEF ClaimAny, Claim, ClaimNothing, Idle
      <4> QED BY <4>1 DEF HandKeeps, Holds
    <3> QED BY <3>1, <3>2
  <2> QED BY <2>1, <2>2 DEF RowKeeps
<1>2. CASE j \notin Swept /\ Claim(w, j)
  <2>1. /\ status[j] \in {"accepted", "running"} /\ status'[j] = "running"
        /\ result'[j] = result[j] /\ fence'[j] = fence[j] + 1
        /\ events'[j] = Append(events[j], Ev("running", 0, fence[j] + 1))
    BY <1>0, <1>2 DEF Claim, ClaimRows, Claimable
  <2>2. /\ Ev("running", 0, fence[j] + 1) \in Event
        /\ Ev("running", 0, fence[j] + 1).kind = "running"
    <3>1. "running" \in Lifecycle \cup Reports /\ fence[j] + 1 \in Nat
      BY <1>0 DEF Lifecycle, Active
    <3> QED BY <3>1, EventType
  <2>3. ASSUME NEW r, Reviewed(events[j], r) PROVE Reviewed(events'[j], r)
    BY <1>0, <2>1, <2>2, <2>3, ReviewedAppend
  <2>4. RowKeeps(j)'
    BY <1>0, <2>1, <2>3 DEF RowKeeps
  <2>5. HandKeeps(w, j)'
    <3>1. /\ worker'[w].job = j /\ worker'[w].fence = fence[j] + 1
          /\ worker'[w].phase = "working" /\ worker'[w].draft = ApprovedDraft(j)
      BY <1>0, <1>2 DEF Claim, Idle
    <3>2. resumeInput[j] = "approve" => ApprovedDraft(j) = result[j]
      BY DEF ApprovedDraft
    <3> QED BY <1>0, <2>1, <3>1, <3>2 DEF HandKeeps, Holds
  <2>6. ASSUME NEW v \in Workers, v # w PROVE HandKeeps(v, j)'
    <3>1. worker'[v] = worker[v]
      BY <1>0, <1>2, <2>6 DEF Claim
    <3>2. worker[v].job = j => worker[v].fence =< fence[j] /\ worker[v].fence \in Nat
      BY <1>0 DEF ClaimsOK, WorkerState
    <3> QED BY <1>0, <2>1, <3>1, <3>2 DEF HandKeeps, Holds
  <2> QED BY <2>4, <2>5, <2>6
<1>3. CASE j \notin Swept /\ ~Claim(w, j)
  <2>1. /\ status'[j] = status[j] /\ result'[j] = result[j] /\ fence'[j] = fence[j]
        /\ events'[j] = events[j]
    <3>1. CASE ClaimNothing(w)
      BY <1>0, <1>3, <3>1 DEF ClaimNothing, ClaimRows
    <3>2. ASSUME NEW i \in Jobs, Claim(w, i)
          PROVE  /\ status'[j] = status[j] /\ result'[j] = result[j] /\ fence'[j] = fence[j]
                 /\ events'[j] = events[j]
      <4>1. i # j
        BY <1>3, <3>2
      <4> QED BY <1>0, <1>3, <3>2, <4>1 DEF Claim, ClaimRows
    <3> QED BY <3>1, <3>2 DEF ClaimAny
  <2>2. ASSUME NEW v \in Workers PROVE HandKeeps(v, j)'
    <3>1. CASE worker'[v] = worker[v]
      BY <1>0, <2>1, <3>1 DEF HandKeeps, Holds
    <3>2. CASE worker'[v] # worker[v]
      <4>1. worker'[v].job # j
        BY <1>0, <1>3, <3>2 DEF ClaimAny, Claim, ClaimNothing, Idle
      <4> QED BY <4>1 DEF HandKeeps, Holds
    <3> QED BY <3>1, <3>2
  <2> QED BY <1>0, <2>1, <2>2, RowRests
<1> QED BY <1>1, <1>2, <1>3

\* Finishing the job: an approved draft is published, or the job fails.
LEMMA FinishedDraft ==
  ASSUME IInv, DraftsKept, NEW w \in Workers, Finish(w), NEW j \in ContentJobs
  PROVE  RowKeeps(j)' /\ \A v \in Workers : HandKeeps(v, j)'
<1> DEFINE i == worker[w].job
           s == FinalStatus(w)
           f == worker[w].fence
           k == IF s = "accepted" THEN "retry_scheduled" ELSE s
           e == Ev(k, FinalVersion(w), f)
           d == Ev("content.version.committed", FinalVersion(w), f)
<1>0. /\ j \in Jobs /\ events[j] \in Seq(Event) /\ result[j] \in Nat
      /\ worker \in [Workers -> WorkerState] /\ status \in [Jobs -> Statuses]
      /\ events \in [Jobs -> Seq(Event)] /\ result \in [Jobs -> Nat]
      /\ RowKeeps(j) /\ \A v \in Workers : HandKeeps(v, j)
      /\ resumeInput' = resumeInput /\ fence' = fence /\ ClaimsOK
      /\ worker' = [worker EXCEPT ![w] = Idle]
  BY JobsAssumption DEF IInv, TypeOK, DraftsKept, Finish
<1>1. /\ Owned(w) /\ i \in Jobs /\ f = fence[i] /\ status[i] \in Leased
      /\ worker[w].phase = "finishing" /\ worker[w].outcome \in Outcomes /\ f \in Nat
  BY <1>0 DEF Finish, Owned, WorkerState
<1>2. /\ events' = [events EXCEPT ![i] = @ \o FinalEvents(w)]
      /\ status' = [status EXCEPT ![i] = s]
      /\ result' = [result EXCEPT ![i] = FinalVersion(w)]
  BY DEF Finish
<1>3. CASE j # i
  <2>1. RowKeeps(j)'
    BY <1>0, <1>1, <1>2, <1>3, RowRests
  <2>2. ASSUME NEW v \in Workers PROVE HandKeeps(v, j)'
    BY <1>0, <1>1, <1>2, <1>3 DEF HandKeeps, Holds, Idle
  <2> QED BY <2>1, <2>2
<1>4. CASE j = i
  <2>1. status'[j] = s /\ result'[j] = FinalVersion(w) /\ events'[j] = events[j] \o FinalEvents(w)
    BY <1>0, <1>1, <1>2, <1>4
  <2>2. ASSUME NEW v \in Workers PROVE ~Holds(v, j)'
    <3>1. CASE v = w
      BY <1>0, <3>1 DEF Holds, Idle
    <3>2. CASE v # w
      BY <1>0, <1>1, <1>4, <3>2 DEF Holds, ClaimsOK
    <3> QED BY <3>1, <3>2
  <2>3. s \in {"completed", "failed", "cancelled", "accepted", "waiting_review"}
    BY <1>1 DEF FinalStatus, Outcomes
  <2>4. FinalVersion(w) \in Nat
    BY <1>1, FinalEventsType DEF IInv
  <2>5. /\ e \in Event /\ e.kind = k /\ e.version = FinalVersion(w)
        /\ d \in Event /\ d.kind = "content.version.committed"
    <3>1. k \in Lifecycle \cup Reports
      BY <2>3 DEF Lifecycle, Active, Terminal
    <3>2. "content.version.committed" \in Lifecycle \cup Reports
      BY DEF Reports
    <3> HIDE DEF k, s
    <3> QED BY <1>1, <2>4, <3>1, <3>2, EventType
  <2>6. ASSUME NEW v, IF s = "waiting_review" THEN v = FinalVersion(w) ELSE Reviewed(events[j], v)
        PROVE  Reviewed(events'[j], v)
    <3>1. s = "waiting_review" <=> k = "waiting_review"
      OBVIOUS
    <3>2. Append(events[j], e) \in Seq(Event) /\ Reviewed(Append(events[j], e), v)
      <4> HIDE DEF e, k, s
      <4> QED BY <1>0, <2>5, <2>6, <3>1, ReviewedAppend
    <3>3. CASE s = "completed" /\ FinalVersion(w) # 0
      <4>1. FinalEvents(w) = <<e, d>>
        BY <3>3 DEF FinalEvents
      <4>2. events'[j] = Append(Append(events[j], e), d)
        <5> HIDE DEF e, d
        <5>1. events[j] \in Seq(Event)
          BY <1>0
        <5> QED BY <2>1, <2>5, <4>1, <5>1, ConcatPair
      <4>3. Reviewed(events[j], v)
        BY <2>6, <3>3
      <4> DEFINE log == Append(events[j], e)
      <4>4. log \in Seq(Event) /\ Reviewed(log, v)
        BY <3>2
      <4> HIDE DEF log, d
      <4>5. Reviewed(Append(log, d), v)
        BY <2>5, <4>4, ReviewedAppend
      <4> QED BY <4>2, <4>5 DEF log
    <3>4. CASE ~(s = "completed" /\ FinalVersion(w) # 0)
      <4>1. FinalEvents(w) = <<e>>
        BY <3>4 DEF FinalEvents
      <4>2. events'[j] = Append(events[j], e)
        <5> HIDE DEF e
        <5>1. events[j] \in Seq(Event)
          BY <1>0
        <5> QED BY <2>1, <2>5, <4>1, <5>1
      <4> QED BY <3>2, <4>2
    <3> QED BY <3>3, <3>4
  <2>7. status[j] # "none" /\ status'[j] # "none" /\ Holds(w, j)
    BY <1>1, <1>4, <2>1, <2>3 DEF Leased, Holds
  <2>8. RowKeeps(j)'
    <3>1. CASE s = "waiting_review"
      <4>1. FinalVersion(w) # 0
        BY <1>0, <1>1, <2>7, <3>1 DEF HandKeeps, FinalStatus, FinalVersion
      <4> QED BY <2>1, <2>6, <3>1, <4>1 DEF RowKeeps
    <3>2. CASE s # "waiting_review" /\ resumeInput[j] = "approve" /\ s \in {"completed", "accepted"}
      <4>1. status[j] = "running" /\ worker[w].outcome = s
        BY <1>1, <1>4, <3>2 DEF FinalStatus, Leased
      <4>2. s = "completed" /\ worker[w].version = result[j]
        BY <1>0, <1>1, <2>7, <3>2, <4>1 DEF HandKeeps
      <4>3. result'[j] = result[j] /\ Reviewed(events[j], result[j])
        BY <1>0, <2>1, <3>2, <4>1, <4>2 DEF RowKeeps, FinalVersion
      <4> QED BY <1>0, <2>1, <2>6, <3>2, <4>2, <4>3 DEF RowKeeps
    <3>3. CASE s # "waiting_review" /\ ~(resumeInput[j] = "approve" /\ s \in {"completed", "accepted"})
      BY <1>0, <2>1, <2>3, <3>3 DEF RowKeeps
    <3> QED BY <3>1, <3>2, <3>3
  <2> QED BY <2>2, <2>8 DEF HandKeeps
<1> QED BY <1>3, <1>4

\* Everything else a worker does, and the time that passes.
LEMMA WorkedDraft ==
  ASSUME IInv, DraftsKept, NEW j \in ContentJobs,
         \/ \E w \in Workers :
              \/ FencedOut(w) \/ HeartbeatCancelled(w) \/ HandlerReturns(w) \/ FinishLost(w)
              \/ WorkerStops(w) \/ RecordModelCall(w) \/ RecordArtifact(w)
         \/ \E i \in Jobs : LeaseExpires(i)
         \/ UNCHANGED vars
  PROVE  RowKeeps(j)' /\ \A v \in Workers : HandKeeps(v, j)'
<1> USE DEF rowVars
<1>0. /\ j \in Jobs /\ j \in ContentJobs /\ events[j] \in Seq(Event) /\ result[j] \in Nat
      /\ worker \in [Workers -> WorkerState]
      /\ RowKeeps(j) /\ \A v \in Workers : HandKeeps(v, j)
  BY JobsAssumption DEF IInv, TypeOK, DraftsKept
<1>1. UNCHANGED <<status, result, resumeInput, fence>>
  BY DEF FencedOut, HeartbeatCancelled, HandlerReturns, FinishLost, WorkerStops,
         RecordModelCall, RecordArtifact, LeaseExpires, vars
<1>2. RowKeeps(j)'
  <2>1. ASSUME NEW w \in Workers, RecordModelCall(w) \/ RecordArtifact(w) PROVE RowKeeps(j)'
    <3>1. Moved(j) \/ Untouched(j)
      BY <1>0, <2>1, WorkMoves DEF WorkerStep
    <3>2. ~(\E e \in Event : e.kind = "waiting_review" /\ events'[j] = Append(events[j], e))
      <4> SUFFICES ASSUME NEW e \in Event, e.kind = "waiting_review",
                          events'[j] = Append(events[j], e)
                   PROVE  FALSE
        OBVIOUS
      <4> DEFINE i == worker[w].job
      <4>1. /\ i \in Jobs /\ fence[i] \in Nat /\ events \in [Jobs -> Seq(Event)]
        BY <2>1 DEF RecordModelCall, RecordArtifact, Owned, IInv, TypeOK
      <4>2. events'[j] # events[j] /\ events'[j][Len(events'[j])].kind = "waiting_review"
        BY <1>0
      <4>3. i = j
        BY <1>0, <2>1, <4>1, <4>2 DEF RecordModelCall, RecordArtifact
      <4>4. CASE RecordModelCall(w)
        <5> DEFINE log == Append(events[j], Ev("usage", 0, fence[j]))
        <5>1. events'[j] = Append(log, Ev("trace", 0, fence[j]))
          BY <4>1, <4>3, <4>4 DEF RecordModelCall
        <5>2. log \in Seq(Event) /\ Ev("trace", 0, fence[j]) \in Event
              /\ Ev("trace", 0, fence[j]).kind = "trace"
          <6>1. {"usage", "trace"} \subseteq Lifecycle \cup Reports /\ fence[j] \in Nat
            BY <4>1, <4>3 DEF Reports
          <6>2. Ev("usage", 0, fence[j]) \in Event /\ Ev("trace", 0, fence[j]) \in Event
                /\ Ev("trace", 0, fence[j]).kind = "trace"
            BY <6>1, EventType
          <6> QED BY <1>0, <6>2
        <5> HIDE DEF log
        <5> QED BY <4>2, <5>1, <5>2
      <4>5. CASE RecordArtifact(w)
        <5>1. events'[j] = Append(events[j], Ev("artifact", 0, fence[j]))
          BY <4>1, <4>3, <4>5 DEF RecordArtifact
        <5>2. Ev("artifact", 0, fence[j]).kind = "artifact"
          BY DEF Ev
        <5> QED BY <1>0, <4>2, <5>1, <5>2
      <4> QED BY <2>1, <4>4, <4>5
    <3> QED BY <1>0, <1>1, <3>1, <3>2, RowRests DEF Moved, Untouched
  <2>2. CASE events' = events
    BY <1>0, <1>1, <2>2, RowRests
  <2> QED
    BY <2>1, <2>2 DEF FencedOut, HeartbeatCancelled, HandlerReturns, FinishLost, WorkerStops,
                      LeaseExpires, vars
<1>3. ASSUME NEW v \in Workers PROVE HandKeeps(v, j)'
  <2>0. HandKeeps(v, j)
    BY <1>0
  <2>1. CASE worker'[v] = worker[v]
    BY <1>1, <2>0, <2>1 DEF HandKeeps, Holds
  <2>2. CASE worker'[v].phase = "idle"
    BY <2>2 DEF HandKeeps, Holds
  <2>3. CASE HeartbeatCancelled(v)
    BY <1>0, <1>1, <2>0, <2>3 DEF HeartbeatCancelled, HandKeeps, Holds, WorkerState
  <2>4. CASE HandlerReturns(v)
    <3>1. PICK o \in HandlerOutcomes(v) :
            worker' = [worker EXCEPT ![v].phase = "finishing", ![v].outcome = o.outcome,
                                     ![v].version = o.version]
      BY <2>4 DEF HandlerReturns
    <3>2. /\ worker'[v].job = worker[v].job /\ worker'[v].fence = worker[v].fence
          /\ worker'[v].draft = worker[v].draft /\ worker'[v].phase = "finishing"
          /\ worker'[v].outcome = o.outcome /\ worker'[v].version = o.version
          /\ worker[v].phase = "working" /\ worker[v].fence \in Nat
      BY <1>0, <2>4, <3>1 DEF HandlerReturns, WorkerState
    <3> SUFFICES ASSUME Holds(v, j)' PROVE HandKeeps(v, j)'
      BY DEF HandKeeps
    <3>3. Holds(v, j) /\ worker[v].job \in ContentJobs
      BY <1>0, <1>1, <3>2 DEF Holds
    <3>4. worker[v].fence # 0
      BY <2>0, <3>3 DEF HandKeeps
    <3>5. CASE worker[v].draft = 0
      <4>1. ~(status[j] = "running" /\ resumeInput[j] = "approve")
        BY <1>0, <2>0, <3>3, <3>5 DEF HandKeeps, RowKeeps
      <4>2. o.outcome = "waiting_review" => o.version = worker[v].fence
        BY <3>1, <3>3, <3>5 DEF HandlerOutcomes
      <4> QED BY <1>1, <3>2, <3>4, <4>1, <4>2 DEF HandKeeps
    <3>6. CASE worker[v].draft # 0
      <4>1. \/ o.outcome = "completed" /\ o.version = worker[v].draft
            \/ o.outcome = "failed"
        BY <3>1, <3>6 DEF HandlerOutcomes
      <4> QED BY <1>1, <2>0, <3>2, <3>3, <3>4, <4>1 DEF HandKeeps
    <3> QED BY <3>5, <3>6
  <2>5. ASSUME NEW w \in Workers, FencedOut(w) \/ FinishLost(w) \/ WorkerStops(w)
        PROVE  HandKeeps(v, j)'
    <3>1. worker' = [worker EXCEPT ![w] = Idle] /\ Idle.phase = "idle"
      BY <2>5 DEF FencedOut, FinishLost, WorkerStops, Idle
    <3> QED BY <1>0, <2>1, <2>2, <3>1
  <2>6. ASSUME NEW w \in Workers, HeartbeatCancelled(w) \/ HandlerReturns(w), w # v
        PROVE  HandKeeps(v, j)'
    BY <1>0, <2>1, <2>6 DEF HeartbeatCancelled, HandlerReturns
  <2>7. ASSUME UNCHANGED worker PROVE HandKeeps(v, j)'
    BY <2>1, <2>7
  <2> QED
    BY <2>3, <2>4, <2>5, <2>6, <2>7 DEF RecordModelCall, RecordArtifact, LeaseExpires, vars
<1> QED BY <1>2, <1>3

LEMMA DraftsStep == IInv /\ DraftsKept /\ [Next]_vars => DraftsKept'
<1> SUFFICES ASSUME IInv, DraftsKept, [Next]_vars, NEW j \in ContentJobs
             PROVE  RowKeeps(j)' /\ \A v \in Workers : HandKeeps(v, j)'
  BY DEF DraftsKept
<1> QED
  BY DeliveredDraft, ClaimedDraft, FinishedDraft, WorkedDraft DEF Next, WorkerStep, Work

\* An approved draft is published as it was reviewed, whatever crashes and
\* expired leases come between the approval and the commit.
THEOREM ApprovalKept == Spec => []ApprovedDraftPublished
<1>1. Init => DraftsKept
  BY JobsAssumption DEF Init, DraftsKept, RowKeeps, HandKeeps, Holds, Idle
<1>2. DraftsKept => ApprovedDraftPublished
  BY DEF DraftsKept, RowKeeps, Reviewed, ApprovedDraftPublished, LastReviewed, Log
<1> QED BY <1>1, <1>2, Invariance, DraftsStep, PTL DEF Spec

-----------------------------------------------------------------------------
(* What it refines.                                                        *)

\* A job asked to be cancelled is not there yet, is being cancelled, or ended.
CancelSeen ==
  \A j \in cancellations : status[j] \in {"none", "cancel_requested"} \cup Terminal

\* Nobody is told to stop a job that nobody asked to cancel.
CancelMeant == \A j \in Jobs : status[j] = "cancel_requested" => j \in cancellations

\* A worker that still holds its job reports "cancelled" only if it was told to.
CancelHeard ==
  \A w \in Workers : \A j \in Jobs :
    /\ worker[w].phase = "finishing" /\ worker[w].outcome = "cancelled"
    /\ worker[w].job = j /\ worker[w].fence = fence[j]
    => status[j] \in {"cancel_requested", "cancelled"}

AskedOK == CancelSeen /\ CancelMeant /\ CancelHeard

-----------------------------------------------------------------------------
\* What a claim's transaction does to the rows.
LEMMA ClaimedRows ==
  ASSUME NEW P \in SUBSET Jobs, NEW id, ClaimRows(Swept, P, id),
         \A j \in P : Claimable(j), NEW i \in Jobs
  PROVE  \/ /\ status[i] = "cancel_requested" /\ status'[i] = "cancelled"
            /\ fence'[i] = fence[i] /\ result'[i] = 0
         \/ /\ status[i] \in {"accepted", "running"} /\ status'[i] = "running"
            /\ fence'[i] = fence[i] + 1 /\ result'[i] = result[i]
         \/ /\ status'[i] = status[i] /\ fence'[i] = fence[i] /\ result'[i] = result[i]
<1>1. CASE i \in Swept
  <2>1. i \notin P
    BY <1>1 DEF Swept, Claimable
  <2> QED BY <1>1, <2>1 DEF ClaimRows, Swept
<1>2. CASE i \notin Swept /\ i \in P
  BY <1>2 DEF ClaimRows, Claimable
<1>3. CASE i \notin Swept /\ i \notin P
  BY <1>3 DEF ClaimRows
<1> QED BY <1>1, <1>2, <1>3

\* A worker's claim as a claim of the job it picked, or of none.
LEMMA ClaimPicks ==
  ASSUME NEW w \in Workers, ClaimAny(w)
  PROVE  \E P \in SUBSET Jobs :
           /\ ClaimRows(Swept, P, WorkerId[w])
           /\ \A j \in P : Claimable(j)
           /\ UNCHANGED cancellations
<1>1. CASE ClaimNothing(w)
  BY <1>1 DEF ClaimNothing
<1>2. ASSUME NEW j \in Jobs, Claim(w, j)
      PROVE  \E P \in SUBSET Jobs : /\ ClaimRows(Swept, P, WorkerId[w])
                                    /\ \A i \in P : Claimable(i)
                                    /\ UNCHANGED cancellations
  BY <1>2 DEF Claim
<1> QED BY <1>1, <1>2 DEF ClaimAny

\* The worker that finishes its job writes "cancelled" exactly when the row asks
\* for it.
LEMMA FinishRow ==
  ASSUME TypeOK, AskedOK, NEW w \in Workers, Finish(w)
  PROVE  LET j == worker[w].job
         IN /\ j \in Jobs
            /\ status' = [status EXCEPT ![j] = FinalStatus(w)]
            /\ result' = [result EXCEPT ![j] = FinalVersion(w)]
            /\ FinalVersion(w) \in Nat
            /\ \/ status[j] = "cancel_requested" /\ FinalStatus(w) = "cancelled"
               \/ /\ status[j] = "running"
                  /\ FinalStatus(w) \in {"accepted", "waiting_review", "completed", "failed"}
<1> DEFINE j == worker[w].job
<1>0. Owned(w)
  BY DEF Finish
<1>1. /\ j \in Jobs /\ status[j] \in Leased /\ worker[w].fence = fence[j]
      /\ worker[w].phase = "finishing" /\ worker[w].outcome \in Outcomes
  BY DEF Finish, Owned, TypeOK, WorkerState
<1>2. FinalVersion(w) \in Nat
  BY <1>0, FinalEventsType
<1>3. CASE status[j] = "cancel_requested"
  BY <1>1, <1>2, <1>3 DEF Finish, FinalStatus
<1>4. CASE status[j] = "running"
  <2>1. worker[w].outcome # "cancelled"
    BY <1>1, <1>4 DEF AskedOK, CancelHeard
  <2> QED BY <1>1, <1>2, <1>4, <2>1 DEF Finish, FinalStatus, Outcomes
<1> QED BY <1>1, <1>3, <1>4 DEF Leased

\* Steps that touch no row and no worker's report keep AskedOK.
LEMMA SameAsked ==
  ASSUME AskedOK, UNCHANGED <<cancellations, status, fence>>,
         \A w \in Workers :
           worker'[w].phase = "finishing" /\ worker'[w].outcome = "cancelled" =>
             worker'[w] = worker[w]
  PROVE  AskedOK'
BY DEF AskedOK, CancelSeen, CancelMeant, CancelHeard

\* Every step keeps AskedOK.
LEMMA AskedStep == IInv /\ AskedOK /\ [Next]_vars => AskedOK'
<1> SUFFICES ASSUME IInv, AskedOK, [Next]_vars PROVE AskedOK'
  OBVIOUS
<1> USE DEF rowVars
<1>0. TypeOK /\ ClaimsOK
  BY DEF IInv
<1>1. ASSUME NEW c \in Commands, AcceptTask(c) PROVE AskedOK'
  <2>1. /\ c.job \in Jobs /\ status[c.job] = "none"
        /\ status' = [status EXCEPT ![c.job] =
                        IF c.job \in cancellations THEN "cancelled" ELSE "accepted"]
        /\ UNCHANGED <<cancellations, fence, worker>>
    BY <1>1, CommandsAssumption DEF AcceptTask
  <2> QED BY <1>0, <2>1 DEF AskedOK, CancelSeen, CancelMeant, CancelHeard, TypeOK, Terminal
<1>2. ASSUME NEW c \in Commands, AcceptCancel(c) PROVE AskedOK'
  <2>1. /\ c.job \in Jobs /\ cancellations' = cancellations \cup {c.job}
        /\ UNCHANGED <<fence, worker>>
    BY <1>2, CommandsAssumption DEF AcceptCancel
  <2>2. CASE status[c.job] \in Cancellable
    <3>1. status' = [status EXCEPT ![c.job] =
                       IF status[c.job] = "running" THEN "cancel_requested" ELSE "cancelled"]
      BY <1>2, <2>2 DEF AcceptCancel
    <3> QED BY <1>0, <2>1, <3>1
          DEF AskedOK, CancelSeen, CancelMeant, CancelHeard, TypeOK, Terminal
  <2>3. CASE status[c.job] \notin Cancellable
    <3>1. UNCHANGED status
      BY <1>2, <2>3 DEF AcceptCancel
    <3>2. status[c.job] \in {"none", "cancel_requested"} \cup Terminal
      BY <1>0, <2>1, <2>3 DEF TypeOK, Statuses, Active, Cancellable
    <3> QED BY <2>1, <3>1, <3>2 DEF AskedOK, CancelSeen, CancelMeant, CancelHeard
  <2> QED BY <2>2, <2>3
<1>3. ASSUME NEW c \in Commands, AcceptResume(c) PROVE AskedOK'
  <2>1. /\ c.job \in Jobs /\ status[c.job] = "waiting_review"
        /\ status' = [status EXCEPT ![c.job] = "accepted"]
        /\ UNCHANGED <<cancellations, fence, worker>>
    BY <1>3, CommandsAssumption DEF AcceptResume
  <2> QED BY <1>0, <2>1 DEF AskedOK, CancelSeen, CancelMeant, CancelHeard, TypeOK, Terminal
<1>4. ASSUME NEW w \in Workers, ClaimAny(w) PROVE AskedOK'
  <2>1. PICK P \in SUBSET Jobs : /\ ClaimRows(Swept, P, WorkerId[w])
                                 /\ \A j \in P : Claimable(j)
                                 /\ UNCHANGED cancellations
    BY <1>4, ClaimPicks
  <2> DEFINE Row(i) ==
         \/ /\ status[i] = "cancel_requested" /\ status'[i] = "cancelled"
            /\ fence'[i] = fence[i]
         \/ /\ status[i] \in {"accepted", "running"} /\ status'[i] = "running"
            /\ fence'[i] = fence[i] + 1
         \/ status'[i] = status[i] /\ fence'[i] = fence[i]
  <2>2. \A i \in Jobs : Row(i)
    BY <2>1, ClaimedRows
  <2>3. CancelSeen' /\ CancelMeant'
    BY <1>0, <2>1, <2>2 DEF AskedOK, CancelSeen, CancelMeant, TypeOK, Terminal
  <2>4. ASSUME NEW v \in Workers, NEW j \in Jobs,
               worker'[v].phase = "finishing", worker'[v].outcome = "cancelled",
               worker'[v].job = j, worker'[v].fence = fence'[j]
        PROVE  status'[j] \in {"cancel_requested", "cancelled"}
    <3>1. worker'[v] = worker[v]
      BY <1>0, <1>4, <2>4 DEF ClaimAny, Claim, ClaimNothing, Idle, TypeOK
    <3>2. worker[v].fence =< fence[j] /\ fence[j] \in Nat
      BY <1>0, <2>4, <3>1 DEF ClaimsOK, TypeOK
    <3>3. fence'[j] = fence[j]
      BY <2>2, <2>4, <3>1, <3>2
    <3>4. status[j] \in {"cancel_requested", "cancelled"}
      BY <2>4, <3>1, <3>3 DEF AskedOK, CancelHeard
    <3>5. fence[j] # fence[j] + 1
      BY <3>2
    <3> QED BY <2>2, <3>3, <3>4, <3>5
  <2> QED BY <2>3, <2>4 DEF AskedOK, CancelHeard
<1>5. ASSUME NEW w \in Workers, Finish(w) PROVE AskedOK'
  <2> DEFINE j == worker[w].job
  <2>1. /\ j \in Jobs /\ status' = [status EXCEPT ![j] = FinalStatus(w)]
        /\ \/ status[j] = "cancel_requested" /\ FinalStatus(w) = "cancelled"
           \/ /\ status[j] = "running"
              /\ FinalStatus(w) \in {"accepted", "waiting_review", "completed", "failed"}
    BY <1>0, <1>5, FinishRow
  <2>2. /\ UNCHANGED <<cancellations, fence>>
        /\ worker' = [worker EXCEPT ![w] = Idle]
    BY <1>5 DEF Finish
  <2>3. CancelSeen' /\ CancelMeant'
    BY <1>0, <2>1, <2>2 DEF AskedOK, CancelSeen, CancelMeant, TypeOK, Terminal
  <2>4. ASSUME NEW v \in Workers, worker'[v].phase = "finishing",
               worker'[v].job = j, worker'[v].fence = fence[j]
        PROVE  FALSE
    <3>1. v # w /\ worker'[v] = worker[v]
      BY <1>0, <2>2, <2>4 DEF TypeOK, Idle
    <3>2. worker[w].fence = fence[j]
      BY <1>5 DEF Finish, Owned
    <3> QED BY <1>0, <2>1, <2>4, <3>1, <3>2 DEF ClaimsOK
  <2>5. CancelHeard'
    <3> SUFFICES ASSUME NEW v \in Workers, NEW i \in Jobs,
                        worker'[v].phase = "finishing", worker'[v].outcome = "cancelled",
                        worker'[v].job = i, worker'[v].fence = fence'[i]
                 PROVE  status'[i] \in {"cancel_requested", "cancelled"}
      BY DEF CancelHeard
    <3>1. i # j
      BY <2>2, <2>4
    <3>2. worker'[v] = worker[v]
      BY <1>0, <2>2 DEF TypeOK, Idle
    <3> QED BY <1>0, <2>1, <2>2, <3>1, <3>2 DEF AskedOK, CancelHeard, TypeOK
  <2> QED BY <2>3, <2>5 DEF AskedOK
<1>6. ASSUME NEW w \in Workers, HeartbeatCancelled(w) PROVE AskedOK'
  <2>1. /\ UNCHANGED <<cancellations, status, fence>>
        /\ worker[w].job \in Jobs /\ status[worker[w].job] = "cancel_requested"
        /\ worker' = [worker EXCEPT ![w] =
                        [worker[w] EXCEPT !.phase = "finishing", !.outcome = "cancelled"]]
    BY <1>6 DEF HeartbeatCancelled, Owned
  <2>2. worker'[w].job = worker[w].job /\ \A v \in Workers : v # w => worker'[v] = worker[v]
    BY <1>0, <2>1 DEF TypeOK, WorkerState
  <2> QED BY <2>1, <2>2 DEF AskedOK, CancelSeen, CancelMeant, CancelHeard
<1>7. ASSUME NEW w \in Workers, HandlerReturns(w) PROVE AskedOK'
  <2>1. PICK o \in HandlerOutcomes(w) :
          worker' = [worker EXCEPT ![w] =
            [worker[w] EXCEPT !.phase = "finishing", !.outcome = o.outcome,
                              !.version = o.version]]
    BY <1>7 DEF HandlerReturns
  <2>2. o.outcome # "cancelled"
    BY <2>1 DEF HandlerOutcomes
  <2>3. worker'[w].outcome # "cancelled" /\ \A v \in Workers : v # w => worker'[v] = worker[v]
    BY <1>0, <2>1, <2>2 DEF TypeOK, WorkerState
  <2>4. UNCHANGED <<cancellations, status, fence>>
    BY <1>7 DEF HandlerReturns
  <2> QED BY <2>3, <2>4, SameAsked
<1>8. ASSUME NEW w \in Workers, FencedOut(w) \/ FinishLost(w) \/ WorkerStops(w)
      PROVE  AskedOK'
  <2>1. /\ UNCHANGED <<cancellations, status, fence>>
        /\ worker' = [worker EXCEPT ![w] = Idle]
    BY <1>8 DEF FencedOut, FinishLost, WorkerStops
  <2>2. \A v \in Workers : worker'[v].phase = "finishing" => worker'[v] = worker[v]
    BY <1>0, <2>1 DEF TypeOK, Idle
  <2> QED BY <2>1, <2>2, SameAsked
<1>9. ASSUME UNCHANGED <<cancellations, status, fence, worker>> PROVE AskedOK'
  BY <1>9 DEF AskedOK, CancelSeen, CancelMeant, CancelHeard
<1>10. ASSUME NEW w \in Workers, RecordModelCall(w) \/ RecordArtifact(w) PROVE AskedOK'
  BY <1>9, <1>10 DEF RecordModelCall, RecordArtifact
<1>11. ASSUME NEW j \in Jobs, LeaseExpires(j) PROVE AskedOK'
  BY <1>9, <1>11 DEF LeaseExpires
<1>12. CASE UNCHANGED vars
  BY <1>9, <1>12 DEF vars
<1> QED
  BY <1>1, <1>2, <1>3, <1>4, <1>5, <1>6, <1>7, <1>8, <1>10, <1>11, <1>12
     DEF Next, Deliver, WorkerStep, Work

\* AskedOK holds in every reachable state.
LEMMA AskedInvariance == Spec => [](IInv /\ AskedOK)
<1>1. Init => AskedOK
  BY DEF Init, AskedOK, CancelSeen, CancelMeant, CancelHeard, Idle
<1> QED BY <1>1, AskedStep, Invariance, PTL DEF Spec

-----------------------------------------------------------------------------
(* Refinement: how a step of one job's row maps to the abstract job.       *)

LifeStep(i) ==
  \/ L!Same(i) /\ (i \in cancellations' => i \in cancellations)
  \/ L!Move(i)
  \/ L!Ask(i)
  \/ L!Cancel(i)

LEMMA RowStays ==
  ASSUME NEW i \in Jobs, status'[i] = status[i],
         status[i] = "completed" => result'[i] = result[i],
         i \in cancellations' => i \in cancellations
  PROVE  LifeStep(i)
BY DEF LifeStep, L!Same, Published

LEMMA RowMoves ==
  ASSUME NEW i \in Jobs, i \notin cancellations',
         \/ status[i] = "none" /\ status'[i] = "accepted"
         \/ status[i] = "accepted" /\ status'[i] = "running"
         \/ status[i] = "waiting_review" /\ status'[i] = "accepted"
         \/ /\ status[i] = "running"
            /\ status'[i] \in {"accepted", "waiting_review", "completed", "failed"},
         status'[i] = "completed" => result'[i] \in Nat
  PROVE  LifeStep(i)
<1>1. /\ DOMAIN L!Edges = {"none", "accepted", "running", "waiting_review"}
      /\ L!Edges["none"] = {"accepted"}
      /\ L!Edges["accepted"] = {"running"}
      /\ L!Edges["running"] = {"accepted", "waiting_review", "completed", "failed"}
      /\ L!Edges["waiting_review"] = {"accepted"}
  BY DEF L!Edges
<1>2. /\ Published[i] = 0
      /\ Published'[i] = IF status'[i] = "completed" THEN result'[i] ELSE 0
  BY DEF Published
<1>3. status[i] \in DOMAIN L!Edges /\ status'[i] \in L!Edges[status[i]]
  BY <1>1
<1> QED BY <1>2, <1>3 DEF LifeStep, L!Move

LEMMA RowCancels ==
  ASSUME NEW i \in Jobs, i \in cancellations,
         status[i] \in {"none", "cancel_requested"}, status'[i] = "cancelled"
  PROVE  LifeStep(i)
BY DEF LifeStep, L!Cancel, Published

\* Every step of the store and its workers is a step of the abstract jobs.
LEMMA LifecycleStep == IInv /\ AskedOK /\ [Next]_vars => L!Next
<1> SUFFICES ASSUME IInv, AskedOK, [Next]_vars PROVE L!Next
  OBVIOUS
<1> USE DEF rowVars
<1>0. TypeOK
  BY DEF IInv
<1>1. SUFFICES ASSUME NEW i \in Jobs
               PROVE  cancellations \subseteq cancellations' /\ LifeStep(i)
  <2>1. cancellations \subseteq cancellations'
    BY DEF Next, Deliver, WorkerStep, Work, ClaimAny, vars, AcceptTask, AcceptCancel,
           AcceptResume, Claim, ClaimNothing, FencedOut, HeartbeatCancelled,
           HandlerReturns, Finish, FinishLost, RecordModelCall, RecordArtifact,
           WorkerStops, LeaseExpires
  <2> QED BY <1>1, <2>1 DEF L!Next, LifeStep
<1>2. ASSUME UNCHANGED <<cancellations, status, result>>
      PROVE  cancellations \subseteq cancellations' /\ LifeStep(i)
  BY <1>2, RowStays
<1>3. ASSUME NEW c \in Commands, AcceptTask(c)
      PROVE  cancellations \subseteq cancellations' /\ LifeStep(i)
  <2>1. /\ UNCHANGED <<cancellations, result>> /\ c.job \in Jobs /\ status[c.job] = "none"
        /\ status' = [status EXCEPT ![c.job] =
                        IF c.job \in cancellations THEN "cancelled" ELSE "accepted"]
    BY <1>3, CommandsAssumption DEF AcceptTask
  <2>2. CASE i = c.job /\ i \in cancellations
    BY <1>0, <2>1, <2>2, RowCancels DEF TypeOK
  <2>3. CASE i = c.job /\ i \notin cancellations
    BY <1>0, <2>1, <2>3, RowMoves DEF TypeOK
  <2>4. CASE i # c.job
    BY <1>0, <2>1, <2>4, RowStays DEF TypeOK
  <2> QED BY <2>1, <2>2, <2>3, <2>4
<1>4. ASSUME NEW c \in Commands, AcceptCancel(c)
      PROVE  cancellations \subseteq cancellations' /\ LifeStep(i)
  <2>1. c.job \in Jobs /\ cancellations' = cancellations \cup {c.job}
    BY <1>4, CommandsAssumption DEF AcceptCancel
  <2>2. CASE status[c.job] \in Cancellable
    <3>1. /\ status' = [status EXCEPT ![c.job] =
                          IF status[c.job] = "running" THEN "cancel_requested" ELSE "cancelled"]
          /\ result' = [result EXCEPT ![c.job] = 0]
      BY <1>4, <2>2 DEF AcceptCancel
    <3>2. CASE i = c.job
      <4>1. Published'[i] = Published[i]
        BY <1>0, <2>2, <3>1, <3>2 DEF Published, Cancellable, TypeOK
      <4>2. status'[i] = IF status[i] = "running" THEN "cancel_requested" ELSE "cancelled"
        BY <1>0, <3>1, <3>2 DEF TypeOK
      <4> QED BY <2>1, <2>2, <3>2, <4>1, <4>2 DEF LifeStep, L!Ask, Cancellable
    <3>3. CASE i # c.job
      BY <1>0, <2>1, <3>1, <3>3, RowStays DEF TypeOK
    <3> QED BY <2>1, <3>2, <3>3
  <2>3. CASE status[c.job] \notin Cancellable
    <3>1. UNCHANGED <<status, result>>
      BY <1>4, <2>3 DEF AcceptCancel
    <3>2. CASE i = c.job
      <4>1. Published'[i] = Published[i]
        BY <3>1 DEF Published
      <4> QED BY <2>1, <2>3, <3>1, <3>2, <4>1 DEF LifeStep, L!Ask, Cancellable
    <3>3. CASE i # c.job
      BY <2>1, <3>1, <3>3, RowStays
    <3> QED BY <2>1, <3>2, <3>3
  <2> QED BY <2>2, <2>3
<1>5. ASSUME NEW c \in Commands, AcceptResume(c)
      PROVE  cancellations \subseteq cancellations' /\ LifeStep(i)
  <2>1. /\ UNCHANGED <<cancellations, result>> /\ c.job \in Jobs
        /\ status[c.job] = "waiting_review"
        /\ status' = [status EXCEPT ![c.job] = "accepted"]
    BY <1>5, CommandsAssumption DEF AcceptResume
  <2>2. c.job \notin cancellations
    BY <2>1 DEF AskedOK, CancelSeen, Terminal
  <2>3. CASE i = c.job
    BY <1>0, <2>1, <2>2, <2>3, RowMoves DEF TypeOK
  <2>4. CASE i # c.job
    BY <1>0, <2>1, <2>4, RowStays DEF TypeOK
  <2> QED BY <2>1, <2>3, <2>4
<1>6. ASSUME NEW w \in Workers, ClaimAny(w)
      PROVE  cancellations \subseteq cancellations' /\ LifeStep(i)
  <2>1. PICK P \in SUBSET Jobs : /\ ClaimRows(Swept, P, WorkerId[w])
                                 /\ \A j \in P : Claimable(j)
                                 /\ UNCHANGED cancellations
    BY <1>6, ClaimPicks
  <2>2. \/ /\ status[i] = "cancel_requested" /\ status'[i] = "cancelled"
        \/ /\ status[i] \in {"accepted", "running"} /\ status'[i] = "running"
           /\ result'[i] = result[i]
        \/ /\ status'[i] = status[i] /\ result'[i] = result[i]
    BY <2>1, ClaimedRows
  <2>3. CASE status[i] = "cancel_requested" /\ status'[i] = "cancelled"
    BY <2>1, <2>3, RowCancels DEF AskedOK, CancelMeant
  <2>4. CASE status[i] = "accepted" /\ status'[i] = "running"
    <3>1. i \notin cancellations'
      BY <2>1, <2>4 DEF AskedOK, CancelSeen, Terminal
    <3> QED BY <2>1, <2>4, <3>1, RowMoves
  <2>5. CASE status'[i] = status[i] /\ result'[i] = result[i]
    BY <2>1, <2>5, RowStays
  <2> QED BY <2>1, <2>2, <2>3, <2>4, <2>5
<1>7. ASSUME NEW w \in Workers, Finish(w)
      PROVE  cancellations \subseteq cancellations' /\ LifeStep(i)
  <2> DEFINE j == worker[w].job
  <2>1. /\ j \in Jobs
        /\ status' = [status EXCEPT ![j] = FinalStatus(w)]
        /\ result' = [result EXCEPT ![j] = FinalVersion(w)]
        /\ FinalVersion(w) \in Nat
        /\ \/ status[j] = "cancel_requested" /\ FinalStatus(w) = "cancelled"
           \/ /\ status[j] = "running"
              /\ FinalStatus(w) \in {"accepted", "waiting_review", "completed", "failed"}
    BY <1>0, <1>7, FinishRow
  <2>2. UNCHANGED cancellations
    BY <1>7 DEF Finish
  <2>3. CASE i = j /\ status[j] = "cancel_requested"
    <3>1. i \in cancellations /\ status'[i] = "cancelled"
      BY <1>0, <2>1, <2>3 DEF AskedOK, CancelMeant, TypeOK
    <3> QED BY <2>2, <2>3, <3>1, RowCancels
  <2>4. CASE i = j /\ status[j] = "running"
    <3>1. i \notin cancellations'
      BY <2>2, <2>4 DEF AskedOK, CancelSeen, Terminal
    <3>2. /\ status'[i] \in {"accepted", "waiting_review", "completed", "failed"}
          /\ result'[i] \in Nat
      BY <1>0, <2>1, <2>4 DEF TypeOK
    <3> QED BY <2>2, <2>4, <3>1, <3>2, RowMoves
  <2>5. CASE i # j
    BY <1>0, <2>1, <2>2, <2>5, RowStays DEF TypeOK
  <2> QED BY <2>1, <2>3, <2>4, <2>5
<1>8. ASSUME NEW w \in Workers,
             \/ FencedOut(w) \/ HeartbeatCancelled(w) \/ HandlerReturns(w)
             \/ FinishLost(w) \/ WorkerStops(w) \/ RecordModelCall(w) \/ RecordArtifact(w)
      PROVE  cancellations \subseteq cancellations' /\ LifeStep(i)
  BY <1>2, <1>8 DEF FencedOut, HeartbeatCancelled, HandlerReturns, FinishLost,
                    WorkerStops, RecordModelCall, RecordArtifact
<1>9. ASSUME NEW j \in Jobs, LeaseExpires(j)
      PROVE  cancellations \subseteq cancellations' /\ LifeStep(i)
  BY <1>2, <1>9 DEF LeaseExpires
<1>10. CASE UNCHANGED vars
  BY <1>2, <1>10 DEF vars
<1> QED
  BY <1>3, <1>4, <1>5, <1>6, <1>7, <1>8, <1>9, <1>10 DEF Next, Deliver, WorkerStep, Work

\* The store and its workers implement JobLifecycle: whatever the leases, the
\* crashes, the shared worker ids and the order of the commands, a job only
\* moves along the documented edges, an end is final, and only an uncancelled
\* job publishes a version.
THEOREM Refinement == Spec => KeepsLifecycle
<1>1. Init => L!Init
  BY DEF Init, L!Init, Published
<1>2. IInv /\ AskedOK /\ [Next]_vars => [L!Next]_L!vars
  BY LifecycleStep
<1> QED BY <1>1, <1>2, AskedInvariance, PTL DEF Spec, KeepsLifecycle, L!Spec

-----------------------------------------------------------------------------
(* A recorded cancellation wins.                                           *)

Silent(log, new) ==
  \A i \in DOMAIN new : i > Len(log) => new[i].kind # "content.version.committed"

LEMMA SilentAppend ==
  ASSUME NEW log \in Seq(Event), NEW e \in Event, e.kind # "content.version.committed"
  PROVE  Silent(log, Append(log, e)) /\ Append(log, e) \in Seq(Event)
BY DEF Silent

LEMMA SilentSame ==
  ASSUME NEW log \in Seq(Event)
  PROVE  Silent(log, log)
BY DEF Silent

LEMMA SilentTwice ==
  ASSUME NEW log \in Seq(Event), NEW a \in Event, NEW b \in Event,
         a.kind # "content.version.committed", b.kind # "content.version.committed"
  PROVE  Silent(log, Append(Append(log, a), b))
<1> DEFINE new == Append(Append(log, a), b)
<1>1. /\ DOMAIN new = 1 .. Len(log) + 2 /\ Len(log) \in Nat
      /\ new[Len(log) + 1] = a /\ new[Len(log) + 2] = b
  BY SMTT(30)
<1> HIDE DEF new
<1>2. ASSUME NEW i \in DOMAIN new, i > Len(log)
      PROVE  new[i].kind # "content.version.committed"
  <2>1. i = Len(log) + 1 \/ i = Len(log) + 2
    BY <1>1, <1>2
  <2> QED BY <1>1, <2>1
<1> QED BY <1>2 DEF Silent, new

\* No step commits a version of a job that is being cancelled.
LEMMA SilentStep ==
  ASSUME IInv, AskedOK, Next, NEW j \in Jobs, status[j] \in {"none", "cancel_requested"}
  PROVE  Silent(events[j], events'[j])
<1> USE DEF rowVars
<1>0. TypeOK /\ events[j] \in Seq(Event) /\ fence[j] \in Nat
  BY DEF IInv, TypeOK
<1>1. ASSUME NEW k \in Lifecycle \cup Reports, NEW v \in Nat, NEW f \in Nat,
             k # "content.version.committed"
      PROVE  Silent(events[j], Append(events[j], Ev(k, v, f)))
  <2>1. Ev(k, v, f) \in Event /\ Ev(k, v, f).kind = k
    BY EventType
  <2> DEFINE e == Ev(k, v, f)
  <2> HIDE DEF e
  <2>2. e \in Event /\ e.kind # "content.version.committed"
    BY <1>1, <2>1 DEF e
  <2>3. Silent(events[j], Append(events[j], e))
    BY <1>0, <2>2, SilentAppend
  <2> QED BY <2>3 DEF e
<1>2. ASSUME events'[j] = events[j] PROVE Silent(events[j], events'[j])
  BY <1>0, <1>2, SilentSame
<1>3. ASSUME NEW c \in Commands, Deliver(c) PROVE Silent(events[j], events'[j])
  <2>1. CASE \E s \in Active \cup Terminal :
               events' = [events EXCEPT ![c.job] = Append(@, Ev(s, 0, fence[c.job]))]
    <3>1. PICK s \in Active \cup Terminal :
            events' = [events EXCEPT ![c.job] = Append(@, Ev(s, 0, fence[c.job]))]
      BY <2>1
    <3>2. CASE c.job = j
      <4>1. events'[j] = Append(events[j], Ev(s, 0, fence[j]))
        BY <1>0, <3>1, <3>2 DEF TypeOK
      <4>2. s \in Lifecycle \cup Reports /\ s # "content.version.committed"
        BY DEF Lifecycle, Active, Terminal
      <4> QED BY <1>0, <1>1, <4>1, <4>2
    <3>3. CASE c.job # j
      BY <1>0, <1>2, <3>1, <3>3 DEF TypeOK
    <3> QED BY <3>2, <3>3
  <2>2. CASE AcceptTask(c)
    BY <2>1, <2>2 DEF AcceptTask, Active, Terminal
  <2>3. CASE AcceptCancel(c)
    BY <1>2, <2>1, <2>3 DEF AcceptCancel, Active, Terminal
  <2>4. CASE AcceptResume(c)
    BY <2>1, <2>4 DEF AcceptResume, Active, Terminal
  <2> QED BY <1>3, <2>2, <2>3, <2>4 DEF Deliver
<1>4. ASSUME NEW w \in Workers, ClaimAny(w) PROVE Silent(events[j], events'[j])
  <2>1. PICK P \in SUBSET Jobs : ClaimRows(Swept, P, WorkerId[w]) /\ \A i \in P : Claimable(i)
    BY <1>4, ClaimPicks
  <2>2. j \notin P
    BY <2>1 DEF Claimable
  <2>3. \/ events'[j] = Append(events[j], Ev("cancelled", 0, fence[j]))
        \/ events'[j] = events[j]
    BY <2>1, <2>2 DEF ClaimRows
  <2> QED BY <1>0, <1>1, <1>2, <2>3 DEF Lifecycle, Terminal
<1>5. ASSUME NEW w \in Workers, Finish(w) PROVE Silent(events[j], events'[j])
  <2>1. CASE worker[w].job # j
    BY <1>0, <1>2, <1>5, <2>1 DEF Finish, TypeOK
  <2>2. CASE worker[w].job = j
    <3>1. /\ FinalStatus(w) = "cancelled" /\ FinalVersion(w) \in Nat
          /\ worker[w].fence \in Nat
      BY <1>0, <1>5, <2>2, FinishRow DEF TypeOK, WorkerState
    <3> DEFINE e == Ev("cancelled", FinalVersion(w), worker[w].fence)
    <3>2. FinalEvents(w) = <<e>>
      BY <3>1 DEF FinalEvents
    <3>3. e \in Event /\ e.kind # "content.version.committed"
      BY <3>1, EventType DEF Lifecycle, Terminal
    <3>4. events'[j] = events[j] \o <<e>>
      BY <1>0, <1>5, <2>2, <3>2 DEF Finish, TypeOK
    <3>5. events[j] \o <<e>> = Append(events[j], e)
      <4> HIDE DEF e
      <4> QED BY <1>0, <3>3
    <3> HIDE DEF e
    <3> QED BY <1>0, <3>3, <3>4, <3>5, SilentAppend
  <2> QED BY <2>1, <2>2
<1>6. ASSUME NEW w \in Workers, RecordModelCall(w) \/ RecordArtifact(w)
      PROVE  Silent(events[j], events'[j])
  <2>1. ASSUME NEW k \in Reports
        PROVE  Ev(k, 0, fence[j]) \in Event /\ Ev(k, 0, fence[j]).kind = k
    BY <1>0, EventType
  <2>2. CASE worker[w].job # j
    BY <1>0, <1>2, <1>6, <2>2 DEF RecordModelCall, RecordArtifact, TypeOK
  <2>3. CASE worker[w].job = j /\ RecordModelCall(w)
    <3>1. events'[j] = Append(Append(events[j], Ev("usage", 0, fence[j])),
                              Ev("trace", 0, fence[j]))
      BY <1>0, <2>3 DEF RecordModelCall, TypeOK
    <3> QED BY <1>0, <2>1, <3>1, SilentTwice DEF Reports
  <2>4. CASE worker[w].job = j /\ RecordArtifact(w)
    <3>1. events'[j] = Append(events[j], Ev("artifact", 0, fence[j]))
      BY <1>0, <2>4 DEF RecordArtifact, TypeOK
    <3> QED BY <1>0, <1>1, <3>1 DEF Reports
  <2> QED BY <1>6, <2>2, <2>3, <2>4
<1>7. ASSUME NEW w \in Workers,
             \/ FencedOut(w) \/ HeartbeatCancelled(w) \/ HandlerReturns(w)
             \/ FinishLost(w) \/ WorkerStops(w)
      PROVE  Silent(events[j], events'[j])
  BY <1>2, <1>7 DEF FencedOut, HeartbeatCancelled, HandlerReturns, FinishLost, WorkerStops
<1>8. ASSUME NEW i \in Jobs, LeaseExpires(i) PROVE Silent(events[j], events'[j])
  BY <1>2, <1>8 DEF LeaseExpires
<1> QED BY <1>3, <1>4, <1>5, <1>6, <1>7, <1>8 DEF Next, WorkerStep, Work

\* From the moment a cancellation is recorded, a job that has not ended can only
\* end cancelled, and commits no version.
THEOREM CancellationWins == Spec => CancelWins
<1> DEFINE Wins(j) ==
      status[j] \notin Terminal =>
        /\ status'[j] \in {"none", "cancel_requested", "cancelled"}
        /\ \A i \in DOMAIN events'[j] :
             i > Len(events[j]) => events'[j][i].kind # "content.version.committed"
<1>1. ASSUME IInv, AskedOK, Next, NEW j \in cancellations, status[j] \notin Terminal
      PROVE  /\ status'[j] \in {"none", "cancel_requested", "cancelled"}
             /\ \A i \in DOMAIN events'[j] :
                  i > Len(events[j]) => events'[j][i].kind # "content.version.committed"
  <2>1. j \in Jobs /\ status[j] \in {"none", "cancel_requested"}
    BY <1>1 DEF IInv, TypeOK, AskedOK, CancelSeen
  <2>2. L!Next
    BY <1>1, LifecycleStep
  <2>3. status'[j] \in {"none", "cancel_requested", "cancelled"}
    <3>1. j \in cancellations'
      BY <1>1, <2>2 DEF L!Next
    <3> QED BY <2>1, <2>2, <3>1 DEF L!Next, L!Same, L!Move, L!Ask, L!Cancel
  <2>4. Silent(events[j], events'[j])
    BY <1>1, <2>1, SilentStep
  <2> QED BY <2>3, <2>4 DEF Silent
<1>2. IInv /\ AskedOK /\ [Next]_vars => [\A j \in cancellations : Wins(j)]_vars
  BY <1>1
<1> QED BY <1>2, AskedInvariance, PTL DEF Spec, CancelWins

-----------------------------------------------------------------------------

HandsOK ==
  \A w \in Workers : IF worker[w].phase = "idle" THEN worker[w].job = NoJob
                                                 ELSE worker[w].fence # 0

Kept == TypeOK /\ ClaimsOK /\ HandsOK

\* An idle process takes a job with the token it has just raised.
LEMMA HandsStep == ASSUME TypeOK, HandsOK, [Next]_vars PROVE HandsOK'
<1> USE DEF HandsOK
<1> SUFFICES ASSUME NEW v \in Workers
             PROVE  IF worker'[v].phase = "idle" THEN worker'[v].job = NoJob
                                                 ELSE worker'[v].fence # 0
  OBVIOUS
<1>0. worker \in [Workers -> WorkerState] /\ fence \in [Jobs -> Nat]
  BY DEF TypeOK
<1>1. ASSUME UNCHANGED worker
      PROVE  IF worker'[v].phase = "idle" THEN worker'[v].job = NoJob
                                          ELSE worker'[v].fence # 0
  BY <1>1
<1>2. ASSUME NEW c \in Commands, Deliver(c) PROVE UNCHANGED worker
  BY <1>2 DEF Deliver, AcceptTask, AcceptCancel, AcceptResume
<1>3. ASSUME NEW j \in Jobs, LeaseExpires(j) PROVE UNCHANGED worker
  BY <1>3 DEF LeaseExpires
<1>4. ASSUME NEW w \in Workers, worker' = [worker EXCEPT ![w] = Idle]
      PROVE  IF worker'[v].phase = "idle" THEN worker'[v].job = NoJob
                                          ELSE worker'[v].fence # 0
  BY <1>0, <1>4 DEF Idle
<1>5. ASSUME NEW w \in Workers, WorkerStep(w)
      PROVE  IF worker'[v].phase = "idle" THEN worker'[v].job = NoJob
                                          ELSE worker'[v].fence # 0
  <2>1. CASE ClaimNothing(w)
    BY <2>1, <1>1 DEF ClaimNothing
  <2>2. ASSUME NEW j \in Jobs, Claim(w, j)
        PROVE  IF worker'[v].phase = "idle" THEN worker'[v].job = NoJob
                                            ELSE worker'[v].fence # 0
    <3>1. fence[j] \in Nat
      BY <1>0
    <3> QED
      BY <2>2, <3>1, <1>0 DEF Claim, Idle
  <2>3. CASE FencedOut(w) \/ Finish(w) \/ FinishLost(w) \/ WorkerStops(w)
    BY <2>3, <1>4 DEF FencedOut, Finish, FinishLost, WorkerStops
  <2>4. CASE HeartbeatCancelled(w)
    BY <2>4, <1>0 DEF HeartbeatCancelled, WorkerState
  <2>5. CASE HandlerReturns(w)
    BY <2>5, <1>0 DEF HandlerReturns, WorkerState
  <2>6. CASE RecordModelCall(w) \/ RecordArtifact(w)
    BY <2>6, <1>1 DEF RecordModelCall, RecordArtifact
  <2> QED
    BY <1>5, <2>1, <2>2, <2>3, <2>4, <2>5, <2>6 DEF WorkerStep, ClaimAny, Work
<1> QED
  BY <1>1, <1>2, <1>3, <1>5 DEF Next, vars

LEMMA HandsInvariance == Spec => []Kept
<1> USE DEF Kept
<1>1. Init => HandsOK
  BY DEF Init, HandsOK, Idle
<1>2. IInv => TypeOK /\ ClaimsOK
  BY DEF IInv
<1>3. TypeOK /\ HandsOK /\ [Next]_vars => HandsOK'
  BY HandsStep
<1> QED
  BY <1>1, <1>2, <1>3, Invariance, PTL DEF Spec

-----------------------------------------------------------------------------
(* How each step maps to a step of one job.                                *)

Stays(i) == UNCHANGED <<Leasing(i), Holding(i)>>
Step(i) == LJ(i)!Next \/ Stays(i)

\* Nothing of the row and of what processes hold changes.
LEMMA LeaseStays ==
  ASSUME NEW i \in Jobs, status'[i] = status[i], fence'[i] = fence[i],
         lease'[i] = "live" <=> lease[i] = "live", resumeInput'[i] = resumeInput[i],
         Holding(i)' = Holding(i)
  PROVE  Step(i)
BY DEF Step, Stays, Leasing

LEMMA SameHands == ASSUME NEW i \in Jobs, UNCHANGED worker PROVE Holding(i)' = Holding(i)
BY DEF Holding

\* A process lets go of its job.
LEMMA LetsGo ==
  ASSUME TypeOK, ClaimsOK, HandsOK, NEW i \in Jobs, NEW w \in Workers,
         worker[w].phase # "idle", worker' = [worker EXCEPT ![w] = Idle]
  PROVE  IF worker[w].job = i
         THEN Holding(i)[w] # 0 /\ Holding(i)' = [Holding(i) EXCEPT ![w] = 0]
         ELSE Holding(i)' = Holding(i)
BY JobsAssumption DEF TypeOK, HandsOK, Holding, Idle

\* The row as a LeasedJob sees it, after each kind of change.
Rows == [status : Statuses, fence : Nat, live : BOOLEAN, resume : ResumeActions \cup {"none"}]

LEMMA SameRow ==
  ASSUME NEW r \in Rows, NEW q \in Rows,
         r.status = q.status, r.fence = q.fence, r.live = q.live, r.resume = q.resume
  PROVE  r = q
BY DEF Rows

\* What a row is changed to, field by field.
Is(q, s, f, l, a) == q \in Rows /\ q.status = s /\ q.fence = f /\ q.live = l /\ q.resume = a

LEMMA Changed ==
  ASSUME NEW r \in Rows, NEW t \in Statuses, NEW a \in ResumeActions
  PROVE  /\ Is([r EXCEPT !.status = t], t, r.fence, r.live, r.resume)
         /\ Is([r EXCEPT !.live = FALSE], r.status, r.fence, FALSE, r.resume)
         /\ Is([r EXCEPT !.status = t, !.live = FALSE], t, r.fence, FALSE, r.resume)
         /\ Is([r EXCEPT !.status = t, !.resume = a], t, r.fence, r.live, a)
         /\ Is([r EXCEPT !.status = t, !.fence = r.fence + 1, !.live = TRUE],
               t, r.fence + 1, TRUE, r.resume)
<1> USE DEF Rows, Is
<1>1. Is([r EXCEPT !.status = t], t, r.fence, r.live, r.resume)
  OBVIOUS
<1>2. Is([r EXCEPT !.live = FALSE], r.status, r.fence, FALSE, r.resume)
  OBVIOUS
<1>3. Is([r EXCEPT !.status = t, !.live = FALSE], t, r.fence, FALSE, r.resume)
  OBVIOUS
<1>4. Is([r EXCEPT !.status = t, !.resume = a], t, r.fence, r.live, a)
  OBVIOUS
<1>5. Is([r EXCEPT !.status = t, !.fence = r.fence + 1, !.live = TRUE],
         t, r.fence + 1, TRUE, r.resume)
  <2>1. r.fence + 1 \in Nat
    OBVIOUS
  <2> QED
    BY <2>1
<1> HIDE DEF Rows, Is
<1> QED
  BY <1>1, <1>2, <1>3, <1>4, <1>5

\* The row before and after a step.
LEMMA SeenRow ==
  ASSUME TypeOK, NEW i \in Jobs
  PROVE  Is(Leasing(i), status[i], fence[i], lease[i] = "live", resumeInput[i])
BY DEF TypeOK, Leasing, Rows, Is

LEMMA NextRow ==
  ASSUME TypeOK', NEW i \in Jobs
  PROVE  Is(Leasing(i)', status'[i], fence'[i], lease'[i] = "live", resumeInput'[i])
BY DEF TypeOK, Leasing, Rows, Is

-----------------------------------------------------------------------------
(* A row that changed as an action of LeasedJob says.                      *)

LEMMA Became ==
  ASSUME TypeOK', NEW i \in Jobs, NEW q,
         Is(q, status'[i], fence'[i], lease'[i] = "live", resumeInput'[i])
  PROVE  Leasing(i)' = q
<1>1. Is(Leasing(i)', status'[i], fence'[i], lease'[i] = "live", resumeInput'[i])
  BY NextRow
<1> QED
  BY <1>1, SameRow DEF Is

LEMMA StatusRow ==
  ASSUME TypeOK, TypeOK', NEW i \in Jobs, NEW t \in Statuses, status'[i] = t,
         UNCHANGED <<fence[i], resumeInput[i]>>, lease'[i] = "live" <=> lease[i] = "live"
  PROVE  Leasing(i)' = [Leasing(i) EXCEPT !.status = t]
<1> DEFINE r == Leasing(i)
           q == [r EXCEPT !.status = t]
<1>1. r \in Rows /\ Is(r, status[i], fence[i], lease[i] = "live", resumeInput[i])
  BY SeenRow DEF Is
<1>2. Is(q, t, r.fence, r.live, r.resume)
  <2> HIDE DEF r
  <2> QED
    BY <1>1, Changed DEF ResumeActions
<1>3. Is(q, status'[i], fence'[i], lease'[i] = "live", resumeInput'[i])
  <2> HIDE DEF r, q
  <2> QED
    BY <1>1, <1>2 DEF Is
<1> QED
  BY <1>3, Became

LEMMA EndedRow ==
  ASSUME TypeOK, TypeOK', NEW i \in Jobs, NEW t \in Statuses, status'[i] = t,
         lease'[i] # "live", UNCHANGED <<fence[i], resumeInput[i]>>
  PROVE  Leasing(i)' = [Leasing(i) EXCEPT !.status = t, !.live = FALSE]
<1> DEFINE r == Leasing(i)
           q == [r EXCEPT !.status = t, !.live = FALSE]
<1>1. r \in Rows /\ Is(r, status[i], fence[i], lease[i] = "live", resumeInput[i])
  BY SeenRow DEF Is
<1>2. Is(q, t, r.fence, FALSE, r.resume)
  <2> HIDE DEF r
  <2> QED
    BY <1>1, Changed DEF ResumeActions
<1>3. Is(q, status'[i], fence'[i], lease'[i] = "live", resumeInput'[i])
  <2> HIDE DEF r, q
  <2> QED
    BY <1>1, <1>2 DEF Is
<1> QED
  BY <1>3, Became

LEMMA ResumeRow ==
  ASSUME TypeOK, TypeOK', NEW i \in Jobs, status'[i] = "accepted",
         NEW a \in ResumeActions, resumeInput'[i] = a, UNCHANGED <<fence[i], lease[i]>>
  PROVE  Leasing(i)' = [Leasing(i) EXCEPT !.status = "accepted", !.resume = a]
<1> DEFINE r == Leasing(i)
           q == [r EXCEPT !.status = "accepted", !.resume = a]
<1>1. r \in Rows /\ Is(r, status[i], fence[i], lease[i] = "live", resumeInput[i])
  BY SeenRow DEF Is
<1>2. Is(q, "accepted", r.fence, r.live, a)
  <2> HIDE DEF r
  <2> QED
    BY <1>1, Changed DEF Statuses, Active
<1>3. Is(q, status'[i], fence'[i], lease'[i] = "live", resumeInput'[i])
  <2> HIDE DEF r, q
  <2> QED
    BY <1>1, <1>2 DEF Is
<1> QED
  BY <1>3, Became

LEMMA ClaimedRow ==
  ASSUME TypeOK, TypeOK', NEW i \in Jobs, NEW t \in Statuses, status'[i] = t,
         fence'[i] = fence[i] + 1, lease'[i] = "live", UNCHANGED resumeInput[i]
  PROVE  Leasing(i)' = [Leasing(i) EXCEPT !.status = t, !.fence = Leasing(i).fence + 1, !.live = TRUE]
<1> DEFINE r == Leasing(i)
           q == [r EXCEPT !.status = t, !.fence = r.fence + 1, !.live = TRUE]
<1>1. r \in Rows /\ Is(r, status[i], fence[i], lease[i] = "live", resumeInput[i])
  BY SeenRow DEF Is
<1>2. Is(q, t, r.fence + 1, TRUE, r.resume)
  <2> HIDE DEF r
  <2> QED
    BY <1>1, Changed DEF ResumeActions
<1>3. Is(q, status'[i], fence'[i], lease'[i] = "live", resumeInput'[i])
  <2> HIDE DEF r, q
  <2> QED
    BY <1>1, <1>2 DEF Is
<1> QED
  BY <1>3, Became

LEMMA ExpiredRow ==
  ASSUME TypeOK, TypeOK', NEW i \in Jobs, lease'[i] # "live",
         UNCHANGED <<status[i], fence[i], resumeInput[i]>>
  PROVE  Leasing(i)' = [Leasing(i) EXCEPT !.live = FALSE]
<1> DEFINE r == Leasing(i)
           q == [r EXCEPT !.live = FALSE]
<1>1. r \in Rows /\ Is(r, status[i], fence[i], lease[i] = "live", resumeInput[i])
  BY SeenRow DEF Is
<1>2. Is(q, r.status, r.fence, FALSE, r.resume)
  <2> HIDE DEF r
  <2> QED
    BY <1>1, Changed DEF ResumeActions, Statuses
<1>3. Is(q, status'[i], fence'[i], lease'[i] = "live", resumeInput'[i])
  <2> HIDE DEF r, q
  <2> QED
    BY <1>1, <1>2 DEF Is
<1> QED
  BY <1>3, Became

-----------------------------------------------------------------------------
(* One lemma for each kind of step.                                        *)

\* A claim takes one job at most, and sweeps any number of others.
LEMMA ClaimSteps ==
  ASSUME Kept, TypeOK', NEW w \in Workers, NEW i \in Jobs, ClaimAny(w)
  PROVE  Step(i)
<1> USE DEF Kept
<1>0. worker[w].phase = "idle" /\ worker[w].job = NoJob /\ worker \in [Workers -> WorkerState]
  BY DEF ClaimAny, ClaimNothing, Claim, HandsOK, TypeOK
<1>1. PICK P \in SUBSET Jobs :
        /\ ClaimRows(Swept, P, WorkerId[w]) /\ \A j \in P : Claimable(j)
        /\ UNCHANGED resumeInput
        /\ \/ P = {} /\ UNCHANGED worker
           \/ \E j \in Jobs : P = {j} /\ worker' = [worker EXCEPT ![w] =
                [Idle EXCEPT !.job = j, !.fence = fence[j] + 1, !.phase = "working",
                             !.draft = ApprovedDraft(j)]]
  <2>1. CASE ClaimNothing(w)
    BY <2>1 DEF ClaimNothing
  <2>2. ASSUME NEW j \in Jobs, Claim(w, j)
        PROVE  \E P \in SUBSET Jobs :
                 /\ ClaimRows(Swept, P, WorkerId[w]) /\ \A k \in P : Claimable(k)
                 /\ UNCHANGED resumeInput
                 /\ \/ P = {} /\ UNCHANGED worker
                    \/ \E k \in Jobs : P = {k} /\ worker' = [worker EXCEPT ![w] =
                         [Idle EXCEPT !.job = k, !.fence = fence[k] + 1, !.phase = "working",
                                      !.draft = ApprovedDraft(k)]]
    BY <2>2 DEF Claim
  <2> QED
    BY <2>1, <2>2 DEF ClaimAny
<1>2. /\ Holding(i)[w] = 0
      /\ i \notin P => Holding(i)' = Holding(i)
      /\ i \in P => Holding(i)' = [Holding(i) EXCEPT ![w] = fence[i] + 1]
  <2>1. \A v \in Workers : v # w => worker'[v] = worker[v]
    BY <1>0, <1>1
  <2>2. i \notin P => worker'[w].job # i
    BY <1>0, <1>1, JobsAssumption DEF Idle
  <2>3. i \in P => worker'[w].job = i /\ worker'[w].fence = fence[i] + 1
    <3>1. ASSUME NEW j, NEW f, NEW d
          PROVE  LET c == [Idle EXCEPT !.job = j, !.fence = f, !.phase = "working", !.draft = d]
                 IN c.job = j /\ c.fence = f
      BY DEF Idle
    <3>2. SUFFICES ASSUME i \in P PROVE worker'[w].job = i /\ worker'[w].fence = fence[i] + 1
      OBVIOUS
    <3>3. worker'[w] = [Idle EXCEPT !.job = i, !.fence = fence[i] + 1,
                                    !.phase = "working", !.draft = ApprovedDraft(i)]
      BY <1>0, <1>1, <3>2
    <3> QED
      BY <3>1, <3>3
  <2>4. worker[w].job # i
    BY <1>0, JobsAssumption
  <2> QED
    BY <2>1, <2>2, <2>3, <2>4 DEF Holding
<1>3. CASE i \in P
  <2>1. i \notin Swept /\ (status[i] = "accepted" \/ (status[i] = "running" /\ lease[i] # "live"))
    BY <1>1, <1>3 DEF Claimable, Swept
  <2>2. Leasing(i)' = [Leasing(i) EXCEPT !.status = "running", !.fence = @ + 1, !.live = TRUE]
    <3>1. /\ status'[i] = "running" /\ fence'[i] = fence[i] + 1 /\ lease'[i] = "live"
          /\ UNCHANGED resumeInput[i]
      BY <1>1, <1>3, <2>1 DEF ClaimRows
    <3> QED
      BY <3>1, ClaimedRow DEF Statuses, Active
  <2>3. LJ(i)!Claim(w)
    BY <1>2, <1>3, <2>1, <2>2 DEF LJ!Claim, Leasing
  <2> QED
    BY <2>3 DEF Step, LJ!Next
<1>4. CASE i \in Swept
  <2>1. i \notin P /\ status[i] = "cancel_requested" /\ lease[i] # "live"
    BY <1>1, <1>4 DEF Claimable, Swept
  <2>2. Leasing(i)' = [Leasing(i) EXCEPT !.status = "cancelled"]
    <3>1. /\ status'[i] = "cancelled" /\ lease'[i] = "none"
          /\ UNCHANGED <<fence[i], resumeInput[i]>>
      BY <1>1, <1>4, <2>1 DEF ClaimRows
    <3> QED
      BY <2>1, <3>1, StatusRow DEF Statuses, Terminal
  <2>3. LJ(i)!Sweep
    BY <1>2, <2>1, <2>2 DEF LJ!Sweep, Leasing
  <2> QED
    BY <2>3 DEF Step, LJ!Next
<1>5. CASE i \notin Swept /\ i \notin P
  BY <1>1, <1>2, <1>5, LeaseStays DEF ClaimRows
<1> QED
  BY <1>3, <1>4, <1>5

\* A command moves the row of its job, and what no process holds.
LEMMA DeliverySteps ==
  ASSUME Kept, TypeOK', NEW c \in Commands, NEW i \in Jobs, Deliver(c)
  PROVE  Step(i)
<1> USE DEF Kept
<1>0. c.job \in Jobs /\ c.action \in ResumeActions
  BY CommandsAssumption
<1>1. Holding(i)' = Holding(i)
  BY SameHands DEF Deliver, AcceptTask, AcceptCancel, AcceptResume
<1>2. CASE i # c.job
  <2>1. UNCHANGED <<status[i], fence[i], lease[i], resumeInput[i]>>
    BY <1>2 DEF TypeOK, Deliver, AcceptTask, AcceptCancel, AcceptResume
  <2> QED
    BY <1>1, <2>1, LeaseStays
<1>3. CASE i = c.job /\ AcceptTask(c)
  <2>1. PICK s \in {"accepted", "cancelled"} :
          Leasing(i)' = [Leasing(i) EXCEPT !.status = s]
    <3>1. /\ status'[i] \in {"accepted", "cancelled"}
          /\ UNCHANGED <<fence[i], lease[i], resumeInput[i]>>
      BY <1>3 DEF TypeOK, AcceptTask
    <3>2. PICK t \in Statuses : status'[i] = t /\ t \in {"accepted", "cancelled"}
      BY <3>1 DEF Statuses, Active, Terminal
    <3>3. TypeOK /\ status'[i] = t
      BY <3>2
    <3>4. Leasing(i)' = [Leasing(i) EXCEPT !.status = t]
      <4> HIDE DEF Kept
      <4> QED
        BY <3>1, <3>3, StatusRow
    <3> QED
      BY <3>2, <3>4
  <2>2. LJ(i)!Accept(s)
    BY <1>1, <1>3, <2>1 DEF LJ!Accept, AcceptTask, Leasing
  <2> QED
    BY <2>2 DEF Step, LJ!Next
<1>4. CASE i = c.job /\ AcceptCancel(c)
  <2>1. CASE status[i] \in Cancellable
    <3>1. Leasing(i)' = [Leasing(i) EXCEPT !.status =
            IF @ = "running" THEN "cancel_requested" ELSE "cancelled"]
      <4> DEFINE t == IF status[i] = "running" THEN "cancel_requested" ELSE "cancelled"
      <4>1. status'[i] = t /\ UNCHANGED <<fence[i], lease[i], resumeInput[i]>>
        BY <1>4, <2>1 DEF TypeOK, AcceptCancel
      <4>2. t \in Statuses /\ Leasing(i).status = status[i]
        BY SeenRow DEF Statuses, Active, Terminal, Is
      <4>3. Leasing(i)' = [Leasing(i) EXCEPT !.status = t]
        BY <4>1, <4>2, StatusRow
      <4> QED
        BY <4>2, <4>3
    <3>2. LJ(i)!AskCancel
      BY <1>1, <2>1, <3>1 DEF LJ!AskCancel, Cancellable, Leasing
    <3> QED
      BY <3>2 DEF Step, LJ!Next
  <2>2. CASE status[i] \notin Cancellable
    BY <1>1, <1>4, <2>2, LeaseStays DEF AcceptCancel
  <2> QED
    BY <2>1, <2>2
<1>5. CASE i = c.job /\ AcceptResume(c)
  <2>1. Leasing(i)' = [Leasing(i) EXCEPT !.status = "accepted", !.resume = c.action]
    <3>1. /\ status'[i] = "accepted" /\ resumeInput'[i] = c.action
          /\ UNCHANGED <<fence[i], lease[i]>>
      BY <1>5 DEF TypeOK, AcceptResume
    <3>2. PICK a \in ResumeActions : a = c.action
      BY <1>0
    <3>3. Leasing(i)' = [Leasing(i) EXCEPT !.status = "accepted", !.resume = a]
      <4>1. TypeOK /\ resumeInput'[i] = a
        BY <3>1, <3>2
      <4> HIDE DEF Kept
      <4> QED
        BY <3>1, <4>1, ResumeRow
    <3> QED
      BY <3>2, <3>3
  <2>2. LJ(i)!AskResume(c.action)
    BY <1>1, <1>5, <2>1 DEF LJ!AskResume, AcceptResume, Leasing
  <2> QED
    BY <1>0, <2>2 DEF Step, LJ!Next, LJ!Actions, ResumeActions
<1> QED
  BY <1>2, <1>3, <1>4, <1>5 DEF Deliver

\* A process that ends without writing leaves the job as it is.
LEMMA LeaveSteps ==
  ASSUME Kept, TypeOK', NEW w \in Workers, NEW i \in Jobs,
         FencedOut(w) \/ FinishLost(w) \/ WorkerStops(w)
  PROVE  Step(i)
<1> USE DEF Kept, rowVars
<1>0. /\ worker[w].phase # "idle" /\ worker' = [worker EXCEPT ![w] = Idle]
      /\ Leasing(i)' = Leasing(i)
  BY DEF FencedOut, FinishLost, WorkerStops, Leasing
<1>1. CASE worker[w].job = i
  <2>1. LJ(i)!Leave(w)
    BY <1>0, <1>1, LetsGo DEF LJ!Leave
  <2> QED
    BY <2>1 DEF Step, LJ!Next
<1>2. CASE worker[w].job # i
  BY <1>0, <1>2, LetsGo DEF Step, Stays
<1> QED
  BY <1>1, <1>2

\* Only the claim that is still good writes the end.
LEMMA FinishSteps ==
  ASSUME Kept, TypeOK', NEW w \in Workers, NEW i \in Jobs, Finish(w)
  PROVE  Step(i)
<1> USE DEF Kept
<1>0. worker[w].phase # "idle" /\ worker' = [worker EXCEPT ![w] = Idle] /\ UNCHANGED <<fence, resumeInput>>
  BY DEF Finish
<1>1. CASE worker[w].job = i
  <2>1. Holding(i)[w] = worker[w].fence /\ LJ(i)!Good(Holding(i)[w])
    BY <1>1 DEF Holding, Finish, Owned, LJ!Good, LJ!Leased, Leased, Leasing
  <2>2. worker[w].outcome \in LJ(i)!Outcomes
    BY DEF TypeOK, WorkerState, Outcomes, LJ!Outcomes, LJ!Ends
  <2>3. Leasing(i)' = [Leasing(i) EXCEPT !.status =
          IF @ = "cancel_requested" THEN "cancelled" ELSE worker[w].outcome, !.live = FALSE]
    <3> DEFINE t == IF status[i] = "cancel_requested" THEN "cancelled" ELSE worker[w].outcome
    <3>1. /\ status'[i] = t /\ lease'[i] = "none" /\ UNCHANGED <<fence[i], resumeInput[i]>>
      BY <1>0, <1>1 DEF TypeOK, Finish, FinalStatus
    <3>2. t \in Statuses /\ Leasing(i).status = status[i]
      BY SeenRow DEF TypeOK, WorkerState, Outcomes, Statuses, Active, Terminal, Is
    <3>3. Leasing(i)' = [Leasing(i) EXCEPT !.status = t, !.live = FALSE]
      BY <3>1, <3>2, EndedRow
    <3> QED
      BY <3>2, <3>3
  <2>4. LJ(i)!Finish(w, worker[w].outcome)
    BY <1>0, <1>1, <2>1, <2>3, LetsGo DEF LJ!Finish
  <2> QED
    BY <2>2, <2>4 DEF Step, LJ!Next
<1>2. CASE worker[w].job # i
  <2>1. UNCHANGED <<status[i], fence[i], lease[i], resumeInput[i]>>
    BY <1>2 DEF TypeOK, Finish
  <2> QED
    BY <1>0, <1>2, <2>1, LetsGo, LeaseStays
<1> QED
  BY <1>1, <1>2

\* A handler that returns, is told to stop or reports what it did keeps its claim.
LEMMA WorkSteps ==
  ASSUME Kept, TypeOK', NEW w \in Workers, NEW i \in Jobs,
         \/ HeartbeatCancelled(w) \/ HandlerReturns(w)
         \/ RecordModelCall(w) \/ RecordArtifact(w)
  PROVE  Step(i)
<1> USE DEF Kept, rowVars
<1>1. UNCHANGED rowVars
  BY DEF HeartbeatCancelled, HandlerReturns, RecordModelCall, RecordArtifact
<1>2. worker \in [Workers -> WorkerState]
  BY DEF TypeOK
<1>3. \A v \in Workers : worker'[v].job = worker[v].job /\ worker'[v].fence = worker[v].fence
  <2>1. worker[w] \in WorkerState
    BY <1>2
  <2>2. CASE HeartbeatCancelled(w)
    <3>1. ASSUME NEW r \in WorkerState
          PROVE  LET q == [r EXCEPT !.phase = "finishing", !.outcome = "cancelled"]
                 IN q.job = r.job /\ q.fence = r.fence
      BY DEF WorkerState
    <3> QED
      BY <1>2, <2>1, <2>2, <3>1 DEF HeartbeatCancelled
  <2>3. CASE HandlerReturns(w)
    <3>1. ASSUME NEW r \in WorkerState, NEW o
          PROVE  LET q == [r EXCEPT !.phase = "finishing", !.outcome = o.outcome, !.version = o.version]
                 IN q.job = r.job /\ q.fence = r.fence
      BY DEF WorkerState
    <3>2. PICK o : worker' = [worker EXCEPT ![w] = [worker[w] EXCEPT !.phase = "finishing",
                                !.outcome = o.outcome, !.version = o.version]]
      BY <2>3 DEF HandlerReturns
    <3> QED
      BY <1>2, <2>1, <3>1, <3>2
  <2>4. CASE RecordModelCall(w) \/ RecordArtifact(w)
    BY <2>4 DEF RecordModelCall, RecordArtifact
  <2> QED
    BY <2>2, <2>3, <2>4
<1> QED
  BY <1>1, <1>3 DEF Step, Stays, Leasing, Holding

LEMMA ExpirySteps ==
  ASSUME Kept, TypeOK', NEW j \in Jobs, NEW i \in Jobs, LeaseExpires(j)
  PROVE  Step(i)
<1> USE DEF Kept
<1>0. Holding(i)' = Holding(i)
  BY SameHands DEF LeaseExpires
<1>1. CASE i = j
  <2>1. LJ(i)!Expire
    <3>1. lease'[i] = "expired" /\ UNCHANGED <<status[i], fence[i], resumeInput[i]>>
      BY <1>1 DEF TypeOK, LeaseExpires
    <3>2. status'[i] \in Statuses
      BY <3>1 DEF TypeOK
    <3>3. Leasing(i)' = [Leasing(i) EXCEPT !.live = FALSE]
      BY <3>1, <3>2, ExpiredRow
    <3>4. Leasing(i).live
      BY <1>1 DEF LeaseExpires, Leasing
    <3> QED
      BY <1>0, <3>3, <3>4 DEF LJ!Expire
  <2> QED
    BY <2>1 DEF Step, LJ!Next
<1>2. CASE i # j
  BY <1>0, <1>2, LeaseStays DEF TypeOK, LeaseExpires
<1> QED
  BY <1>1, <1>2

LEMMA JobSteps == ASSUME Kept, TypeOK', [Next]_vars, NEW i \in Jobs PROVE Step(i)
<1>1. CASE UNCHANGED vars
  BY <1>1 DEF vars, Step, Stays, Leasing, Holding
<1>2. ASSUME NEW c \in Commands, Deliver(c) PROVE Step(i)
  BY <1>2, DeliverySteps
<1>3. ASSUME NEW w \in Workers, WorkerStep(w) PROVE Step(i)
  BY <1>3, ClaimSteps, LeaveSteps, FinishSteps, WorkSteps DEF WorkerStep, Work
<1>4. ASSUME NEW j \in Jobs, LeaseExpires(j) PROVE Step(i)
  BY <1>4, ExpirySteps
<1> QED
  BY <1>1, <1>2, <1>3, <1>4 DEF Next

\* LeasesJobs: whatever commands, crashes, expired leases and the claims of other
\* jobs do, each job takes only the steps of a LeasedJob, so that what is proved
\* or checked of a handler on top of LeasedJob holds on top of the store.
THEOREM LeasedJobs == Spec => LeasesJobs
<1>1. Init /\ TypeOK => \A j \in Jobs : LJ(j)!Init
  <2> SUFFICES ASSUME Init, TypeOK, NEW j \in Jobs PROVE LJ(j)!Init
    OBVIOUS
  <2>1. Leasing(j) = LJ(j)!NoRow
    <3>1. Is(Leasing(j), "none", 0, FALSE, "none")
      BY SeenRow DEF Init
    <3>2. Is(LJ(j)!NoRow, "none", 0, FALSE, "none")
      BY DEF Is, Rows, Statuses, LJ!NoRow
    <3> QED
      BY <3>1, <3>2, SameRow DEF Is
  <2>2. Holding(j) = [w \in Workers |-> 0]
    BY JobsAssumption DEF Init, Idle, Holding
  <2> QED
    BY <2>1, <2>2 DEF LJ!Init
<1>2. Kept /\ TypeOK' /\ [Next]_vars =>
        \A j \in Jobs : LJ(j)!Next \/ UNCHANGED <<Leasing(j), Holding(j)>>
  BY JobSteps DEF Step, Stays
<1>3. Kept => TypeOK
  BY DEF Kept
<1> QED
  BY <1>1, <1>2, <1>3, HandsInvariance, PTL DEF Spec, LeasesJobs
=============================================================================
