---------------------------- MODULE ControlJobs ----------------------------
(***************************************************************************)
(* The Control plane's side of a job: MQRepository of                      *)
(* modules/execution/postgres (submission, the command outbox, the         *)
(* projection of Runtime events), the state fold of modules/task, and the  *)
(* document versions of modules/content a job's result becomes.            *)
(*                                                                         *)
(* Control never runs a job.  Its jobs row is what it has been asked plus  *)
(* what it has been told: a status, the sequence number of the last        *)
(* Runtime event applied, and an inbox of the events that arrived, some of *)
(* them too early to apply.  Each action is one database transaction.      *)
(***************************************************************************)
EXTENDS Naturals, Sequences, FiniteSets

CONSTANTS
  Jobs,         \* job ids
  Commands,     \* records [id, job, type, action]: what users may ask
  Mutations,    \* the jobs whose operation the unique index of migration 020
                \* serialises per project; the others are media derivations
                \* and plain generations
  Projects, ProjectOf,     \* [Jobs -> Projects]
  Documents, DocumentOf,   \* [Jobs -> Documents]: the document a job writes
  HomeOf,       \* [Documents -> Projects]
  Author,       \* who wrote a version no job wrote
  MaxEdits,     \* bound: versions written by hand
  MaxAhead      \* bound: how far ahead of its turn an event may arrive

ASSUME OwnersAssumption ==
  /\ Mutations \subseteq Jobs
  /\ ProjectOf \in [Jobs -> Projects]
  /\ DocumentOf \in [Jobs -> Documents]
  /\ HomeOf \in [Documents -> Projects]
  /\ \A j \in Jobs : HomeOf[DocumentOf[j]] = ProjectOf[j]
  /\ Author \notin Jobs
ASSUME ControlBoundsAssumption == MaxEdits \in Nat /\ MaxAhead \in Nat \ {0}

VARIABLES
  outbox,      \* command_outbox: the commands submitted
  jobStatus,   \* jobs.status, "none" when there is no row
  sequence,    \* jobs.last_event_sequence
  received,    \* runtime_event_inbox: the sequence numbers stored, per job
  frozen,      \* the document version in the job's request
  versions     \* document_versions: per document, who wrote each version

controlVars == <<outbox, jobStatus, sequence, received, frozen, versions>>

Ended == {"completed", "failed", "cancelled"}
Live == {"queued", "running", "cancel_requested"}
JobStatuses == {"none", "waiting_review"} \cup Live \cup Ended

ControlTypeOK ==
  /\ outbox \subseteq Commands
  /\ jobStatus \in [Jobs -> JobStatuses]
  /\ sequence \in [Jobs -> Nat]
  /\ received \in [Jobs -> SUBSET Nat]
  /\ frozen \in [Jobs -> Nat]
  /\ versions \in [Documents -> Seq(Jobs \cup {Author})]

ControlInit ==
  /\ outbox = {}
  /\ jobStatus = [j \in Jobs |-> "none"]
  /\ sequence = [j \in Jobs |-> 0]
  /\ received = [j \in Jobs |-> {}]
  /\ frozen = [j \in Jobs |-> 0]
  /\ versions = [d \in Documents |-> <<>>]

-----------------------------------------------------------------------------
(* Submission: the request, the job row and the command in one transaction. *)

\* EnsureIdle: a job that waits for a reviewer does not count.
EnsureIdle(p) == \A j \in Jobs : ProjectOf[j] = p => jobStatus[j] \notin Live

IndexIgnored(j) == TRUE                       \* mutant: migration 020 missing
\* jobs_single_active_project_mutation_idx: may j's row become live?
IndexFree(j) ==
  j \in Mutations =>
    \A k \in Mutations \ {j} : ProjectOf[k] = ProjectOf[j] => jobStatus[k] \notin Live

\* A command id already in the outbox is a replay: nothing changes.
Send(c) == c \notin outbox /\ outbox' = outbox \cup {c}

NextVersion(d) == Len(versions[d]) + 1

\* The job row, the version the job will write frozen in its request, and the
\* command; IndexFree holds of every job that is no mutation.
Enqueue(c) ==
  /\ jobStatus[c.job] = "none"
  /\ IndexFree(c.job)
  /\ Send(c)
  /\ jobStatus' = [jobStatus EXCEPT ![c.job] = "queued"]
  /\ frozen' = [frozen EXCEPT ![c.job] = NextVersion(DocumentOf[c.job])]
  /\ UNCHANGED <<sequence, received, versions>>

\* SubmitCommand: an operation that changes the project, only while it is idle.
SubmitMutation(c) ==
  /\ c.type = "workflow.run"
  /\ c.job \in Mutations
  /\ EnsureIdle(ProjectOf[c.job])
  /\ Enqueue(c)

\* generateWithSnapshot: a plain generation, whatever else the project does.
SubmitGeneration(c) ==
  /\ c.type = "workflow.run"
  /\ c.job \notin Mutations
  /\ Enqueue(c)

StoppableAnyTime(j) == jobStatus[j] # "none"      \* mutant: no state check
Stoppable(j) == jobStatus[j] \notin Ended \cup {"none"}
StoppedAtOnce(j) ==               \* mutant: trusts that nothing has started
  IF jobStatus[j] = "queued" THEN "cancelled" ELSE "cancel_requested"
StoppedStatus(j) == "cancel_requested"
SubmitCancel(c) ==
  /\ c.type = "job.cancel"
  /\ Stoppable(c.job)
  /\ IndexFree(c.job)
  /\ Send(c)
  /\ jobStatus' = [jobStatus EXCEPT ![c.job] = StoppedStatus(c.job)]
  /\ UNCHANGED <<sequence, received, frozen, versions>>

ResumableAnyTime == Live \cup {"waiting_review"}   \* mutant: no state check
Resumable == {"waiting_review"}
SubmitResume(c) ==
  /\ c.type = "job.resume"
  /\ jobStatus[c.job] \in Resumable
  /\ IndexFree(c.job)
  /\ Send(c)
  /\ jobStatus' = [jobStatus EXCEPT ![c.job] = "queued"]
  /\ UNCHANGED <<sequence, received, frozen, versions>>

\* AppendVersion, by somebody who has read the current version.
Edits(d) == {n \in DOMAIN versions[d] : versions[d][n] = Author}
EditDocument(d) ==
  /\ EnsureIdle(HomeOf[d])
  /\ Cardinality(Edits(d)) < MaxEdits
  /\ versions' = [versions EXCEPT ![d] = Append(@, Author)]
  /\ UNCHANGED <<outbox, jobStatus, sequence, received, frozen>>

-----------------------------------------------------------------------------
(* Projection of Runtime events.                                           *)

PublicNoRetry ==                         \* mutant: job.retry_scheduled is ignored
  [accepted |-> "queued", running |-> "running", waiting_review |-> "waiting_review",
   cancel_requested |-> "cancel_requested", completed |-> "completed",
   failed |-> "failed", cancelled |-> "cancelled"]
Public == [accepted |-> "queued", retry_scheduled |-> "queued",
           running |-> "running", waiting_review |-> "waiting_review",
           cancel_requested |-> "cancel_requested", completed |-> "completed",
           failed |-> "failed", cancelled |-> "cancelled"]

\* ProjectState: an end is final, and a pending cancel hides what is not an end.
ProjectState(s, kind) ==
  IF \/ kind \notin DOMAIN Public
     \/ s \in Ended
     \/ s = "cancel_requested" /\ Public[kind] \in {"queued", "running", "waiting_review"}
  THEN s
  ELSE Public[kind]

\* commitGenerated and CommitGeneratedVersion on the document's versions vs:
\* nothing for a job that was stopped or has its version already, otherwise
\* the frozen version must be the next one, and an error undoes everything.
Committed(j, vs) == \E n \in DOMAIN vs : vs[n] = j
CommitAnyVersion(j, s, vs) ==                \* mutant: the number is not checked
  /\ s \notin {"cancelled", "failed"}
  /\ s # "completed"
CommitFails(j, s, vs) ==
  /\ s \notin {"cancelled", "failed"}
  /\ \/ s # "completed"
     \/ ~Committed(j, vs) /\ frozen[j] # Len(vs) + 1
Commit(j, s, vs) ==
  IF s \in {"cancelled", "failed"} \/ Committed(j, vs) THEN vs ELSE Append(vs, j)

TurnOnce(seq, seen) ==                     \* mutant: one event at a time
  IF seq + 1 \in seen THEN seq + 1 ELSE seq
\* The loop of Project, from the row's state to the last event that is in turn:
\* the state after each event, "failed" once one of them returned an error.
Turn(seq, seen) ==
  CHOOSE n \in {seq} \cup seen :
    n >= seq /\ n + 1 \notin seen /\ \A m \in seq + 1 .. n : m \in seen
ApplyEvent(j, row, kind) ==
  [status |-> ProjectState(row.status, kind),
   versions |-> IF kind = "content.version.committed"
                THEN Commit(j, row.status, row.versions) ELSE row.versions,
   fails |-> \/ row.fails
             \/ /\ kind = "content.version.committed"
                /\ CommitFails(j, row.status, row.versions)]
Applied(j, log, from, last) ==
  LET after[n \in from .. last] ==
        IF n = from
        THEN [status |-> jobStatus[j], versions |-> versions[DocumentOf[j]], fails |-> FALSE]
        ELSE ApplyEvent(j, after[n - 1], log[n].kind)
  IN after[last]

\* Project: event i of job j arrives.  One that is stored already changes
\* nothing; an error rolls everything back and leaves the message to the MQ.
Project(j, i, log) ==
  LET seen == received[j] \cup {i}
      last == Turn(sequence[j], seen)
      row == Applied(j, log, sequence[j], last)
  IN /\ i \in DOMAIN log \ received[j]
     /\ i =< sequence[j] + MaxAhead
     /\ ~row.fails
     /\ received' = [received EXCEPT ![j] = seen]
     /\ sequence' = [sequence EXCEPT ![j] = last]
     /\ jobStatus' = [jobStatus EXCEPT ![j] = row.status]
     /\ versions' = [versions EXCEPT ![DocumentOf[j]] = row.versions]
     /\ UNCHANGED <<outbox, frozen>>
=============================================================================
