------------------------------- MODULE Novel -------------------------------
(***************************************************************************)
(* The novel workflow: a graph of writing nodes that one checkpoint per      *)
(* project carries from job to job (workflows/novel, the workflow store and  *)
(* the checkpoint saver).  A job claims the project's lock, brings the       *)
(* checkpoint up to its brief, gives it the reviewer's answer, and drives    *)
(* the graph until it asks for the next review or has the whole book.  Each  *)
(* write is refused without the job's lease; the checkpoint outlives the job. *)
(***************************************************************************)
EXTENDS Naturals, FiniteSets

CONSTANTS
  Workers,
  Operations,   \* the operations users submit
  Answers,      \* what reviewers answer
  Total,        \* chapters of the book
  MaxRevisions, \* max_revision_attempts
  Planning,     \* planning_review_enabled
  MaxJobs, MaxClaims, MaxTexts, MaxBriefs, MaxCanon   \* bounds

VARIABLES
  jobs,      \* the runtime_jobs rows of the project, in order of submission
  hand,      \* per process the job it executes, under which token, and how far
  ck,        \* the latest checkpoint of the graph
  brief,     \* the project's brief version at Control
  texts,     \* how many texts the models have written
  kept,      \* chapter_versions: pairs <<chapter, text>>
  offers,    \* candidates: [from, text]
  chapters,  \* chapters records: per chapter the text saved as final
  shown,     \* the text of the review last shown to the user, 0 for none
  commits    \* the documents of completed jobs: [book, audit, saved]

vars == <<jobs, hand, ck, brief, texts, kept, offers, chapters, shown, commits>>

Live == {"accepted", "running", "cancel_requested"}
Ends == {"completed", "failed", "cancelled"}
Pages == 1 .. Total
NoRow == [op |-> "none", brief |-> 0, status |-> "none", fence |-> 0, live |-> FALSE,
          answer |-> "none", of |-> 0]
Idle == [job |-> 0, fence |-> 0, pc |-> "idle"]
Unwritten == [text |-> 0, of |-> 0, checked |-> 0, under |-> 0]
NoDraft == [chapter |-> 0, text |-> 0, checked |-> 0]
NoContext == [chapter |-> 0, text |-> 0, canon |-> 0, brief |-> 0]

\* create_initial_state, under the brief b.
Fresh(b) ==
  [next |-> "orchestrator", given |-> "none", stage |-> 0, chapter |-> 1,
   scened |-> FALSE, draft |-> NoDraft, revisions |-> 0,
   brief |-> b, recheck |-> FALSE, chosen |-> NoContext, canon |-> 0, err |-> FALSE,
   book |-> [n \in Pages |-> Unwritten], revising |-> FALSE,
   audited |-> FALSE, audit |-> [n \in Pages |-> 0]]
NoCheckpoint == [Fresh(0) EXCEPT !.next = "none"]

Init ==
  /\ jobs = [j \in 1 .. MaxJobs |-> NoRow]
  /\ hand = [w \in Workers |-> Idle]
  /\ ck = NoCheckpoint
  /\ brief = 1 /\ texts = 0
  /\ kept = {} /\ offers = {}
  /\ chapters = [n \in Pages |-> 0]
  /\ shown = 0
  /\ commits = {}

-----------------------------------------------------------------------------
(* Control and the job store.                                               *)

Texts(book) == [n \in Pages |-> book[n].text]

\* One live job of a project: EnsureIdle, and the unique index that a resumed
\* job meets as well.
ProjectIdle == \A j \in 1 .. MaxJobs : jobs[j].status \notin Live
Submit(op, answer) ==
  /\ ProjectIdle
  /\ (answer # "none") = (op = "resume")
  /\ \E j \in 1 .. MaxJobs :
       /\ jobs[j] = NoRow /\ \A i \in 1 .. j - 1 : jobs[i] # NoRow
       /\ jobs' = [jobs EXCEPT ![j] =
            [NoRow EXCEPT !.op = op, !.brief = brief, !.status = "accepted",
                          !.answer = answer, !.of = shown]]
  /\ UNCHANGED <<hand, ck, brief, texts, kept, offers, chapters, shown, commits>>

\* job.resume: the answer stays in resume_input from then on.
AskResume(j, answer) ==
  /\ jobs[j].status = "waiting_review" /\ ProjectIdle
  /\ jobs' = [jobs EXCEPT ![j].status = "accepted", ![j].answer = answer, ![j].of = shown]
  /\ UNCHANGED <<hand, ck, brief, texts, kept, offers, chapters, shown, commits>>

AskCancel(j) ==
  /\ jobs[j].status \in {"accepted", "running", "waiting_review"}
  /\ jobs' = [jobs EXCEPT ![j].status = IF @ = "running" THEN "cancel_requested" ELSE "cancelled"]
  /\ UNCHANGED <<hand, ck, brief, texts, kept, offers, chapters, shown, commits>>

UpdateBrief ==
  /\ ProjectIdle /\ brief < MaxBriefs
  /\ brief' = brief + 1
  /\ UNCHANGED <<jobs, hand, ck, texts, kept, offers, chapters, shown, commits>>

Expire(j) ==
  /\ jobs[j].live
  /\ jobs' = [jobs EXCEPT ![j].live = FALSE,
                          ![j].status = IF @ = "cancel_requested" THEN "cancelled" ELSE @]
  /\ UNCHANGED <<hand, ck, brief, texts, kept, offers, chapters, shown, commits>>

Claim(w, j) ==
  /\ hand[w].pc = "idle"
  /\ \/ jobs[j].status = "accepted"
     \/ jobs[j].status = "running" /\ ~jobs[j].live
  /\ jobs[j].fence < MaxClaims
  /\ jobs' = [jobs EXCEPT ![j].status = "running", ![j].fence = @ + 1, ![j].live = TRUE]
  /\ hand' = [hand EXCEPT ![w] = [job |-> j, fence |-> jobs[j].fence + 1, pc |-> "claimed"]]
  /\ UNCHANGED <<ck, brief, texts, kept, offers, chapters, shown, commits>>

\* A crash, a shutdown, a heartbeat that fails: the row is left as it is.
Leave(w) ==
  /\ hand[w].pc # "idle"
  /\ hand' = [hand EXCEPT ![w] = Idle]
  /\ UNCHANGED <<jobs, ck, brief, texts, kept, offers, chapters, shown, commits>>

-----------------------------------------------------------------------------
(* What every step of a handler needs, and how it ends.                     *)

Row(w) == jobs[hand[w].job]
Owns(w) == hand[w].pc # "idle" /\ Row(w).fence = hand[w].fence /\ Row(w).live
\* WorkflowStore.transaction(write=True): the lease, and no cancellation.
May(w, pc) == hand[w].pc = pc /\ Owns(w) /\ Row(w).status = "running"
Go(w, pc) == hand' = [hand EXCEPT ![w].pc = pc]

\* finish, where a pending cancellation overrides how the handler ended.
Finish(w, status) ==
  /\ jobs' = [jobs EXCEPT ![hand[w].job].status =
                IF @ = "cancel_requested" THEN "cancelled" ELSE status,
                ![hand[w].job].live = FALSE]
  /\ hand' = [hand EXCEPT ![w] = Idle]
End(w, status) ==
  Finish(w, status) /\ UNCHANGED <<ck, brief, texts, kept, offers, chapters, shown, commits>>
Cancelled(w) ==
  /\ Owns(w) /\ Row(w).status = "cancel_requested"
  /\ End(w, "cancelled")

\* The object store, the database or a model fails for good.
FailJob(w) ==
  /\ May(w, "driving") \/ May(w, "drafting") \/ May(w, "publishing")
  /\ End(w, "failed")
\* A model call that may succeed later: RetryableTaskError, within the attempts.
Calling == {"builders", "scene_planner", "scene_writer", "style_editor",
            "consistency_checker", "scene_rewriter"}
RetryLater(w) ==
  /\ (May(w, "driving") /\ ck.next \in Calling) \/ May(w, "drafting")
  /\ End(w, "accepted")

-----------------------------------------------------------------------------
(* run_novel up to the graph.                                               *)

\* project_lock: the session of a process that lost its lease may still hold it.
Locked == \E w \in Workers : hand[w].pc \notin {"idle", "claimed"}
TakeLock(w) ==
  /\ May(w, "claimed")
  /\ \/ ~Locked /\ Go(w, "begin")
        /\ UNCHANGED <<jobs, ck, brief, texts, kept, offers, chapters, shown, commits>>
     \/ Locked /\ \E s \in {"accepted", "failed"} : End(w, s)

\* The first job of the project writes the initial state and the checkpoint.
Begin(w) ==
  /\ May(w, "begin") /\ ck = NoCheckpoint
  /\ \/ Row(w).op = "run" /\ ck' = Fresh(Row(w).brief) /\ Go(w, "driving")
        /\ UNCHANGED <<jobs, brief, texts, kept, offers, chapters, shown, commits>>
     \/ Row(w).op # "run" /\ End(w, "failed")

RequiredKept(c) == c.recheck            \* mutant: the draft under review is forgotten
\* A draft that waits for review has to be checked again under a new brief.
Required(c) == c.recheck \/ c.next = "human_review"
Rebriefed(c, b) ==
  [c EXCEPT !.brief = b, !.recheck = Required(c), !.chosen = NoContext, !.given = "none"]
Rebrief(w) ==
  /\ May(w, "begin") /\ ck # NoCheckpoint
  /\ \/ Row(w).brief < ck.brief /\ End(w, "failed")
     \/ /\ Row(w).brief >= ck.brief
        /\ ck' = IF Row(w).brief > ck.brief THEN Rebriefed(ck, Row(w).brief) ELSE ck
        /\ Go(w, "begun")
        /\ UNCHANGED <<jobs, brief, texts, kept, offers, chapters, shown, commits>>

Restoring == {"version", "candidate"}
\* The answer of the job, if it has one: no graph left to resume, or a text to
\* restore that was written under another brief, fails the job.
Refused(w) ==
  /\ Row(w).answer # "none"
  /\ \/ ck.next = "END"
     \/ ck.recheck /\ ck.next = "human_review" /\ Row(w).answer \in Restoring
Given(w) ==
  IF ck.recheck /\ ck.next = "human_review" /\ Row(w).answer = "approve"
  THEN "recheck" ELSE Row(w).answer

Drive(w, c, pc) ==
  /\ ck' = c /\ Go(w, pc)
  /\ UNCHANGED <<jobs, brief, texts, kept, offers, chapters, shown, commits>>
\* run and resume: the answer goes to the node that waits; without one the graph
\* goes on from its checkpoint.
ContinueGraph(w) ==
  /\ May(w, "begun") /\ Row(w).op \in {"run", "resume"} /\ ~Refused(w)
  /\ Drive(w, [ck EXCEPT !.given = IF Row(w).answer = "none" THEN @ ELSE Given(w)], "driving")
\* canon: through the review that waits, or straight into the checkpoint.
ChangeCanon(w) ==
  /\ May(w, "begun") /\ Row(w).op = "canon" /\ ~Refused(w) /\ ck.canon < MaxCanon
  /\ Drive(w, IF ck.next = "human_review" THEN [ck EXCEPT !.given = "canon"]
              ELSE [ck EXCEPT !.canon = @ + 1, !.given = "none"], "driving")
\* candidates: only for a draft that waits for review under its own brief.
GatherCandidates(w) ==
  /\ May(w, "begun") /\ Row(w).op = "candidates" /\ ~Refused(w)
  /\ ck.next = "human_review" /\ ~ck.recheck
  /\ Drive(w, ck, "drafting")
\* book_revision: a chapter of the finished book goes back to the writer.
Revisable == ck.next = "END" /\ ck.audited
ReviseBook(w) ==
  /\ May(w, "begun") /\ Row(w).op = "revision" /\ ~Refused(w) /\ Revisable
  /\ \E n \in Pages :
       /\ ck.book[n].text # 0
       /\ Drive(w, [ck EXCEPT !.next = "scene_writer", !.chapter = n,
              !.scened = TRUE, !.draft = [chapter |-> n, text |-> ck.book[n].text, checked |-> 0],
              !.revisions = 0, !.err = FALSE, !.revising = TRUE, !.audited = FALSE,
              !.chosen = NoContext, !.given = "none"], "driving")
\* evaluation, memory_evaluate: a report beside the graph; memory_rebuild writes
\* a checkpoint with it.
ReportOnly(w) ==
  /\ May(w, "begun") /\ Row(w).op = "report" /\ ~Refused(w)
  /\ ck' \in {ck, [ck EXCEPT !.given = "none"]} /\ Finish(w, "completed")
  /\ UNCHANGED <<brief, texts, kept, offers, chapters, shown, commits>>
Reject(w) ==
  /\ May(w, "begun")
  /\ \/ Refused(w)
     \/ Row(w).op = "candidates" /\ (ck.next # "human_review" \/ ck.recheck)
     \/ Row(w).op = "revision" /\ ~Revisable
  /\ End(w, "failed")

\* Each candidate is saved on its own; a job that starts again writes new ones.
Context == [chapter |-> ck.chapter, text |-> ck.draft.text, canon |-> ck.canon, brief |-> ck.brief]
DraftCandidate(w) ==
  /\ May(w, "drafting") /\ texts < MaxTexts
  /\ texts' = texts + 1
  /\ offers' = offers \cup {[from |-> Context, text |-> texts + 1]}
  /\ UNCHANGED <<jobs, hand, ck, brief, kept, chapters, shown, commits>>
HandIn(w) ==
  /\ May(w, "drafting") /\ \E o \in offers : o.from = Context
  /\ End(w, "completed")

-----------------------------------------------------------------------------
(* The graph: one step per node, up to the checkpoint after it.             *)

At(w, node) == May(w, "driving") /\ ck.next = node
\* A new checkpoint; the answer belonged to the one before.
Put(c) == ck' = [c EXCEPT !.given = "none"]
Node(w, node, c) ==
  /\ At(w, node) /\ Put(c)
  /\ UNCHANGED <<jobs, hand, brief, texts, kept, offers, chapters, shown, commits>>

\* decide_next, once the world, the characters and the outline are there.
NextAgent ==
  IF ck.chapter > Total THEN IF ck.audited THEN "END" ELSE "book_auditor"
  ELSE IF ck.scened THEN "scene_writer" ELSE "scene_planner"
Orchestrator(w) ==
  Node(w, "orchestrator", [ck EXCEPT !.next = IF ck.stage < 3 THEN "builders" ELSE NextAgent])

\* world_builder, character_designer, plot_planner.
Builders(w) ==
  Node(w, "builders", [ck EXCEPT !.stage = @ + 1,
    !.next = IF ck.stage = 2 /\ Planning THEN "blueprint_review" ELSE "orchestrator"])
ScenePlanner(w) ==
  Node(w, "scene_planner", [ck EXCEPT !.scened = TRUE,
    !.next = IF Planning THEN "scene_review" ELSE "scene_writer"])
\* Whatever the reviewer sends to a planning review lets it pass.
PlanningReview(w) ==
  /\ ck.next \in {"blueprint_review", "scene_review"} /\ ck.given # "none"
  /\ Node(w, ck.next, [ck EXCEPT
       !.next = IF ck.next = "blueprint_review" THEN "orchestrator" ELSE "scene_writer"])

Write(w, node, next) ==
  /\ At(w, node) /\ texts < MaxTexts
  /\ texts' = texts + 1
  /\ Put([ck EXCEPT !.draft = [chapter |-> ck.chapter, text |-> texts + 1, checked |-> 0],
                    !.chosen = NoContext, !.next = next])
  /\ UNCHANGED <<jobs, hand, brief, kept, offers, chapters, shown, commits>>
SceneWriter(w) == Write(w, "scene_writer", "style_editor")
SceneRewriter(w) == Write(w, "scene_rewriter", "consistency_checker")
StyleEditor(w) ==
  Node(w, "style_editor", [ck EXCEPT !.next = "consistency_checker"])

\* Serious issues or a failed quality gate send the draft back, up to a limit.
ConsistencyChecker(w) ==
  LET seen == [ck EXCEPT !.draft.checked = ck.brief, !.recheck = FALSE]
  IN \/ Node(w, "consistency_checker", [seen EXCEPT !.next = "human_review"])
     \/ /\ ck.next = "consistency_checker" /\ ck.revisions < MaxRevisions
        /\ Node(w, "consistency_checker", [seen EXCEPT !.next = "scene_writer",
             !.revisions = @ + 1])

\* A review asks the user; its draft is kept as a version.
Kept == IF ck.next = "human_review" THEN kept \cup {<<ck.draft.chapter, ck.draft.text>>} ELSE kept
AskReview(w) ==
  /\ May(w, "driving") /\ ck.given = "none"
  /\ ck.next \in {"blueprint_review", "scene_review", "human_review"}
  /\ kept' = Kept /\ Go(w, "publishing")
  /\ UNCHANGED <<jobs, ck, brief, texts, offers, chapters, shown, commits>>
\* _publish, and the job waits.  A draft that is to be checked again cannot be
\* approved yet.
Publish(w) ==
  /\ May(w, "publishing")
  /\ shown' = IF ck.next = "human_review" /\ ~ck.recheck THEN ck.draft.text ELSE 0
  /\ Finish(w, "waiting_review")
  /\ UNCHANGED <<ck, brief, texts, kept, offers, chapters, commits>>

Answered(w, answer, c) ==
  /\ At(w, "human_review") /\ ck.given = answer
  /\ Put(c) /\ kept' = Kept
  /\ UNCHANGED <<jobs, hand, brief, texts, offers, chapters, shown, commits>>
OneMore == IF ck.revisions < MaxRevisions THEN ck.revisions + 1 ELSE MaxRevisions
Checking == [ck EXCEPT !.next = "consistency_checker", !.err = FALSE, !.chosen = NoContext]

Revise(w) ==
  \/ Answered(w, "revise", [ck EXCEPT !.next = "scene_writer", !.revisions = OneMore, !.err = FALSE])
  \/ Answered(w, "scene", [ck EXCEPT !.next = "scene_rewriter", !.revisions = OneMore, !.err = FALSE])
Recheck(w) == Answered(w, "recheck", [Checking EXCEPT !.recheck = FALSE])
CanonUpdate(w) ==
  /\ ck.canon < MaxCanon
  /\ Answered(w, "canon", [Checking EXCEPT !.canon = @ + 1, !.recheck = FALSE])
Restored(text) == [Checking EXCEPT !.draft.text = text, !.draft.checked = 0, !.revisions = OneMore]
RestoreVersion(w) ==
  \E v \in kept : v[1] = ck.draft.chapter /\ Answered(w, "version", Restored(v[2]))
\* Of the draft that is reviewed, or a sibling of the candidate that was taken.
Matches(o) == o.from.chapter = ck.draft.chapter /\ o.from \in {Context, ck.chosen}
RestoreCandidate(w) ==
  \E o \in offers : Matches(o) /\ Answered(w, "candidate", [Restored(o.text) EXCEPT !.chosen = o.from])

\* Approval: the chapter's record and the progress, then the checkpoint that
\* holds the chapter.  An error before it brings the review back.
ApproveSaves(w) ==
  /\ At(w, "human_review") /\ ck.given = "approve"
  /\ chapters' = [chapters EXCEPT ![ck.draft.chapter] = ck.draft.text]
  /\ kept' = Kept /\ Go(w, "saved")
  /\ UNCHANGED <<jobs, ck, brief, texts, offers, shown, commits>>
Approved(of) ==
  [ck EXCEPT !.book[ck.draft.chapter] = [text |-> ck.draft.text, of |-> of,
                                         checked |-> ck.draft.checked, under |-> ck.brief],
             !.chapter = IF ck.revising THEN Total + 1 ELSE @ + 1,
             !.audited = @ /\ ~ck.revising, !.revising = FALSE,
             !.scened = FALSE, !.revisions = 0, !.err = FALSE, !.chosen = NoContext,
             !.next = "orchestrator"]
ApproveDone(w) ==
  /\ May(w, "saved") /\ Put(Approved(Row(w).of)) /\ Go(w, "driving")
  /\ UNCHANGED <<jobs, brief, texts, kept, offers, chapters, shown, commits>>
FailedApprovalPasses == Approved(0)     \* mutant: the error does not keep the review
FailedApproval == [ck EXCEPT !.err = TRUE]
\* The digest fails, or one of the two writes.
ApproveFails(w) ==
  /\ (At(w, "human_review") /\ ck.given = "approve") \/ May(w, "saved")
  /\ Put(FailedApproval) /\ kept' = Kept /\ Go(w, "driving")
  /\ UNCHANGED <<jobs, brief, texts, offers, chapters, shown, commits>>

BookAuditor(w) ==
  Node(w, "book_auditor", [ck EXCEPT !.next = "END", !.audited = TRUE, !.audit = Texts(ck.book)])
\* Nothing is left to do: the document is uploaded and the job completed.
ContentCommit(w) ==
  /\ At(w, "END")
  /\ commits' = commits \cup {[book |-> Texts(ck.book), audit |-> ck.audit, saved |-> chapters]}
  /\ Finish(w, "completed")
  /\ UNCHANGED <<ck, brief, texts, kept, offers, chapters, shown>>

-----------------------------------------------------------------------------
Graph(w) ==
  \/ Orchestrator(w) \/ Builders(w) \/ PlanningReview(w) \/ ScenePlanner(w)
  \/ SceneWriter(w) \/ SceneRewriter(w) \/ StyleEditor(w) \/ ConsistencyChecker(w)
  \/ AskReview(w) \/ Publish(w) \/ Revise(w) \/ Recheck(w) \/ CanonUpdate(w)
  \/ RestoreVersion(w) \/ RestoreCandidate(w)
  \/ ApproveSaves(w) \/ ApproveDone(w) \/ ApproveFails(w)
  \/ BookAuditor(w) \/ ContentCommit(w)

Next ==
  \/ \E op \in Operations, a \in Answers \cup {"none"} : Submit(op, a)
  \/ UpdateBrief
  \/ \E j \in 1 .. MaxJobs :
       AskCancel(j) \/ Expire(j) \/ \E a \in Answers : AskResume(j, a)
  \/ \E w \in Workers :
       \/ \E j \in 1 .. MaxJobs : Claim(w, j)
       \/ Leave(w) \/ Cancelled(w) \/ FailJob(w) \/ RetryLater(w)
       \/ TakeLock(w) \/ Begin(w) \/ Rebrief(w) \/ Reject(w)
       \/ ContinueGraph(w) \/ ChangeCanon(w) \/ ReviseBook(w) \/ ReportOnly(w)
       \/ GatherCandidates(w) \/ DraftCandidate(w) \/ HandIn(w)
       \/ Graph(w)

Spec == Init /\ [][Next]_vars

-----------------------------------------------------------------------------
(* What must hold.                                                         *)

\* Every chapter of the book was checked under the brief that was in force when
\* it was approved, also when the brief changed while it waited for review.
CheckedUnderItsBrief ==
  \A n \in DOMAIN ck.book : ck.book[n].text # 0 => ck.book[n].checked = ck.book[n].under

\* A document that a job commits has every chapter, is the one that was audited,
\* and its chapters are the ones saved as final, whatever failed on the way.
DocumentWhole ==
  \A c \in commits : \A n \in DOMAIN c.book :
    c.book[n] # 0 /\ c.audit[n] = c.book[n] /\ c.saved[n] = c.book[n]

\* nodes.py: chapters are written on human approval only.  The text that became
\* final is the one the user had been shown when the answer was given.
ChaptersApproved ==
  \A n \in Pages : ck.book[n].of = ck.book[n].text

\* generic-control-api.md: job.resume resumes the reviewed job.  A job whose
\* current review is approved does not ask for the review of that text again.
ApprovalTaken ==
  [][\A j \in 1 .. MaxJobs :
       /\ jobs[j].status = "running" /\ jobs[j].answer = "approve"
       /\ jobs'[j].status = "waiting_review"
       => shown' \notin {jobs[j].of} \ {0} \/ ck.err]_vars
=============================================================================
