---------------------------- MODULE NovelProofs ----------------------------
(***************************************************************************)
(* Theorems of Novel for every book, every set of processes, operations and *)
(* answers: a chapter is in the book with the check of the brief it was      *)
(* approved under, and a document that is committed is whole.  One process   *)
(* at a time is past the project's lock (Alone), so the checkpoint it drives *)
(* moves node by node; what the nodes leave in it is Sound, and between the  *)
(* two writes of an approval nobody touches either (Between).               *)
(***************************************************************************)
EXTENDS Novel, TLAPS

BookAssumption == Total \in Nat /\ MaxRevisions \in Nat

\* The values of the checkpoint and of the tables.
Given0 == Answers \cup {"none", "recheck", "canon"}
DraftT == [chapter : Nat, text : Nat, checked : Nat]
PlaceT == [chapter : Nat, text : Nat, canon : Nat, brief : Nat]
PageT == [text : Nat, of : Nat, checked : Nat, under : Nat]
Nodes == {"none", "orchestrator", "builders", "blueprint_review", "scene_planner",
          "scene_review", "scene_writer", "style_editor", "consistency_checker",
          "human_review", "scene_rewriter", "book_auditor", "END"}
CheckpointT ==
  [next : Nodes, given : Given0, stage : Nat, chapter : 1 .. Total + 1,
   scened : BOOLEAN, draft : DraftT, revisions : Nat, brief : Nat, recheck : BOOLEAN,
   chosen : PlaceT, canon : Nat, err : BOOLEAN, book : [Pages -> PageT],
   revising : BOOLEAN, audited : BOOLEAN, audit : [Pages -> Nat]]
Statuses == Live \cup Ends \cup {"none", "waiting_review"}
Pcs == {"idle", "claimed", "begin", "begun", "driving", "drafting", "publishing", "saved"}
RowT == [op : Operations \cup {"none"}, brief : Nat, status : Statuses, fence : Nat,
         live : BOOLEAN, answer : Answers \cup {"none"}, of : Nat]
HandT == [job : Nat, fence : Nat, pc : Pcs]
DocumentT == [book : [Pages -> Nat], audit : [Pages -> Nat], saved : [Pages -> Nat]]
Outside == {"idle", "claimed"}

Typed ==
  /\ jobs \in [1 .. MaxJobs -> RowT]
  /\ hand \in [Workers -> HandT]
  /\ \A w \in Workers : hand[w].pc # "idle" => hand[w].job \in 1 .. MaxJobs
  /\ ck \in CheckpointT
  /\ brief \in Nat /\ texts \in Nat /\ shown \in Nat
  /\ kept \subseteq Nat \X (Nat \ {0})
  /\ offers \subseteq [from : PlaceT, text : Nat \ {0}]
  /\ chapters \in [Pages -> Nat]
  /\ commits \subseteq DocumentT

\* One process at a time is past project_lock.
Alone == \A v, w \in Workers : v # w => hand[v].pc \in Outside \/ hand[w].pc \in Outside

\* Between the records of an approved chapter and the checkpoint that holds it.
Between == \A w \in Workers : hand[w].pc = "saved" =>
  /\ ck.next = "human_review" /\ ck.given = "approve"
  /\ chapters[ck.draft.chapter] = ck.draft.text

Chaptered == {"scene_planner", "scene_review", "scene_writer"}
Drafted == {"style_editor", "consistency_checker", "human_review", "scene_rewriter"}

\* A draft is of the chapter the graph is at, which is one of the book.
DraftOK ==
  /\ ck.next \in Chaptered \cup Drafted \/ ck.revising => ck.chapter \in Pages
  /\ ck.next \in Drafted => ck.draft.chapter = ck.chapter /\ ck.draft.text # 0
\* What may be approved was checked under the brief of the checkpoint.
ReviewOK ==
  ck.next = "human_review" =>
    /\ ~ck.recheck => ck.draft.checked = ck.brief
    /\ ck.given = "approve" => ~ck.recheck
\* But for the chapter the graph is at, records and checkpoint agree, and what
\* lies behind it is written.
PagesOK == \A n \in Pages :
  /\ n # ck.chapter => chapters[n] = ck.book[n].text
  /\ n < ck.chapter \/ ck.revising => ck.book[n].text # 0
  /\ ck.book[n].text # 0 => ck.book[n].checked = ck.book[n].under
\* A book that was audited is at its end, and is the one that was audited.
EndOK ==
  /\ ck.audited => ck.next = "END"
  /\ ck.next = "END" => ck.audited /\ \A n \in Pages : ck.audit[n] = ck.book[n].text
  /\ ck.next \in {"END", "book_auditor"} => ck.chapter = Total + 1

Sound == DraftOK /\ ReviewOK /\ PagesOK /\ EndOK
IInv == Typed /\ Alone /\ Between /\ Sound /\ DocumentWhole

-----------------------------------------------------------------------------
(* Types.                                                                  *)

LEMMA RowOf == ASSUME Typed, NEW w \in Workers, hand[w].pc # "idle"
               PROVE  hand[w].job \in 1 .. MaxJobs /\ Row(w) \in RowT
BY DEF Typed, Row

LEMMA RowEdited ==
  ASSUME jobs \in [1 .. MaxJobs -> RowT], NEW j \in 1 .. MaxJobs, NEW s \in Statuses,
         NEW l \in BOOLEAN, NEW a \in Answers \cup {"none"}, NEW n \in Nat
  PROVE  [jobs EXCEPT ![j] = [jobs[j] EXCEPT !.status = s, !.live = l, !.answer = a, !.of = n]]
           \in [1 .. MaxJobs -> RowT]
BY DEF RowT

LEMMA FinishTyped ==
  ASSUME Typed, NEW w \in Workers, hand[w].pc # "idle", NEW s \in Statuses, Finish(w, s)
  PROVE  /\ jobs' \in [1 .. MaxJobs -> RowT] /\ hand' \in [Workers -> HandT]
         /\ \A v \in Workers : hand'[v].pc # "idle" => hand'[v].job \in 1 .. MaxJobs
         /\ hand'[w].pc = "idle" /\ \A v \in Workers \ {w} : hand'[v] = hand[v]
<1>1. hand[w].job \in 1 .. MaxJobs /\ Row(w) \in RowT
  BY RowOf
<1>2. hand' = [hand EXCEPT ![w] = Idle] /\ Idle \in HandT /\ Idle.pc = "idle"
  BY DEF Finish, Idle, HandT, Pcs
<1>3. jobs' \in [1 .. MaxJobs -> RowT]
  BY <1>1 DEF Finish, Typed, RowT, Row, Statuses, Live, Ends
<1> QED
  BY <1>2, <1>3 DEF Typed

LEMMA GoTyped ==
  ASSUME Typed, NEW w \in Workers, hand[w].pc # "idle", NEW pc \in Pcs, Go(w, pc)
  PROVE  /\ hand' \in [Workers -> HandT]
         /\ \A v \in Workers : hand'[v].pc # "idle" => hand'[v].job \in 1 .. MaxJobs
         /\ hand'[w].pc = pc /\ \A v \in Workers \ {w} : hand'[v] = hand[v]
BY DEF Go, Typed, HandT

\* The kinds of step a process takes: into the lock, past it, or off its job.
Enters(w) == ~Locked /\ hand'[w].pc = "begin"
Moves(w) == hand[w].pc \notin Outside
Leaves(w) == hand'[w].pc \in Outside
HandMoved(w) ==
  /\ Enters(w) \/ Moves(w) \/ Leaves(w)
  /\ \A v \in Workers \ {w} : hand'[v] = hand[v]

LEMMA AloneKept == ASSUME Typed, Alone, NEW w \in Workers, HandMoved(w) PROVE Alone'
<1> SUFFICES ASSUME NEW u \in Workers, NEW v \in Workers, u # v
             PROVE  hand'[u].pc \in Outside \/ hand'[v].pc \in Outside
  BY DEF Alone, Outside
<1>1. CASE w \notin {u, v}
  BY <1>1 DEF Alone, HandMoved, Outside
<1>2. CASE w \in {u, v}
  BY <1>2 DEF Alone, HandMoved, Enters, Moves, Leaves, Locked, Outside
<1> QED
  BY <1>1, <1>2

\* Who drives the checkpoint is the only one past the lock.
LEMMA BetweenKept ==
  ASSUME Alone, Between, NEW w \in Workers, HandMoved(w),
         UNCHANGED <<ck, chapters>> \/ Moves(w),
         hand'[w].pc = "saved" =>
           /\ ck'.next = "human_review" /\ ck'.given = "approve"
           /\ chapters'[ck'.draft.chapter] = ck'.draft.text
  PROVE  Between'
<1> SUFFICES ASSUME NEW v \in Workers, hand'[v].pc = "saved"
             PROVE  /\ ck'.next = "human_review" /\ ck'.given = "approve"
                    /\ chapters'[ck'.draft.chapter] = ck'.draft.text
  BY DEF Between
<1>1. CASE v = w
  BY <1>1
<1>2. CASE v # w
  <2>1. hand[v].pc = "saved"
    BY <1>2 DEF HandMoved
  <2>2. UNCHANGED <<ck, chapters>>
    BY <1>2, <2>1 DEF Alone, Moves, Outside
  <2> QED
    BY <2>1, <2>2 DEF Between
<1> QED
  BY <1>1, <1>2

-----------------------------------------------------------------------------
(* Steps that leave the checkpoint and the records alone.                  *)

\* An end of a job, and a step from one stage of its handler to another.
LEMMA Ended ==
  ASSUME Typed, NEW w \in Workers, hand[w].pc # "idle", NEW s \in Statuses, End(w, s)
  PROVE  Typed' /\ HandMoved(w) /\ hand'[w].pc # "saved" /\ UNCHANGED <<ck, chapters, commits>>
<1>1. /\ jobs' \in [1 .. MaxJobs -> RowT] /\ hand' \in [Workers -> HandT]
      /\ \A v \in Workers : hand'[v].pc # "idle" => hand'[v].job \in 1 .. MaxJobs
      /\ hand'[w].pc = "idle" /\ \A v \in Workers \ {w} : hand'[v] = hand[v]
  BY FinishTyped DEF End
<1> QED
  BY <1>1 DEF Typed, End, HandMoved, Leaves, Outside

LEMMA QuietKept ==
  ASSUME IInv, Typed', UNCHANGED <<ck, chapters, commits>>,
         \/ UNCHANGED hand
         \/ \E w \in Workers : HandMoved(w) /\ hand'[w].pc # "saved"
  PROVE  IInv'
<1>1. Alone' /\ Between'
  <2>1. CASE UNCHANGED hand
    BY <2>1 DEF IInv, Alone, Between
  <2>2. ASSUME NEW w \in Workers, HandMoved(w), hand'[w].pc # "saved" PROVE Alone' /\ Between'
    BY <2>2, AloneKept, BetweenKept DEF IInv
  <2> QED
    BY <2>1, <2>2
<1>2. Sound'
  BY DEF IInv, Sound, DraftOK, ReviewOK, PagesOK, EndOK
<1>3. DocumentWhole'
  BY DEF IInv, DocumentWhole
<1> QED
  BY <1>1, <1>2, <1>3 DEF IInv

\* Submissions, answers, cancellations, briefs and leases.
LEMMA ControlSteps ==
  ASSUME IInv,
         \/ \E op \in Operations, a \in Answers \cup {"none"} : Submit(op, a)
         \/ UpdateBrief
         \/ \E j \in 1 .. MaxJobs :
              AskCancel(j) \/ Expire(j) \/ \E a \in Answers : AskResume(j, a)
  PROVE  IInv'
<1>0. Typed /\ jobs \in [1 .. MaxJobs -> RowT] /\ brief \in Nat /\ shown \in Nat
  BY DEF IInv, Typed
<1>1. ASSUME NEW op \in Operations, NEW a \in Answers \cup {"none"}, Submit(op, a) PROVE Typed'
  <2>1. PICK j \in 1 .. MaxJobs : jobs' = [jobs EXCEPT ![j] =
            [NoRow EXCEPT !.op = op, !.brief = brief, !.status = "accepted",
                          !.answer = a, !.of = shown]]
    BY <1>1 DEF Submit
  <2>2. [NoRow EXCEPT !.op = op, !.brief = brief, !.status = "accepted",
                      !.answer = a, !.of = shown] \in RowT
    BY <1>0 DEF NoRow, RowT, Statuses, Live
  <2>3. jobs' \in [1 .. MaxJobs -> RowT]
    BY <1>0, <2>1, <2>2
  <2> QED
    BY <1>0, <1>1, <2>3 DEF Typed, Submit
<1>2. ASSUME UpdateBrief PROVE Typed'
  BY <1>0, <1>2 DEF Typed, UpdateBrief
<1>3. ASSUME NEW j \in 1 .. MaxJobs, AskCancel(j) PROVE Typed'
  <2> DEFINE s == IF jobs[j].status = "running" THEN "cancel_requested" ELSE "cancelled"
  <2>1. jobs' = [jobs EXCEPT ![j] = [jobs[j] EXCEPT !.status = s, !.live = jobs[j].live,
                                                    !.answer = jobs[j].answer, !.of = jobs[j].of]]
    BY <1>0, <1>3 DEF AskCancel, RowT
  <2>2. jobs[j] \in RowT /\ s \in Statuses
    BY <1>0 DEF RowT, Statuses, Live, Ends
  <2>3. jobs' \in [1 .. MaxJobs -> RowT]
    BY <1>0, <2>1, <2>2, RowEdited, Zenon DEF RowT
  <2> QED
    BY <1>0, <1>3, <2>3 DEF Typed, AskCancel
<1>4. ASSUME NEW j \in 1 .. MaxJobs, Expire(j) PROVE Typed'
  <2> DEFINE s == IF jobs[j].status = "cancel_requested" THEN "cancelled" ELSE jobs[j].status
  <2>1. jobs' = [jobs EXCEPT ![j] = [jobs[j] EXCEPT !.status = s, !.live = FALSE,
                                                    !.answer = jobs[j].answer, !.of = jobs[j].of]]
    BY <1>0, <1>4 DEF Expire, RowT
  <2>2. jobs[j] \in RowT /\ s \in Statuses
    BY <1>0 DEF RowT, Statuses, Live, Ends
  <2>3. jobs' \in [1 .. MaxJobs -> RowT]
    BY <1>0, <2>1, <2>2, RowEdited, Zenon DEF RowT
  <2> QED
    BY <1>0, <1>4, <2>3 DEF Typed, Expire
<1>5. ASSUME NEW j \in 1 .. MaxJobs, NEW a \in Answers, AskResume(j, a) PROVE Typed'
  <2> DEFINE s == "accepted"
  <2>1. jobs' = [jobs EXCEPT ![j] = [jobs[j] EXCEPT !.status = s, !.live = jobs[j].live,
                                                    !.answer = a, !.of = shown]]
    <3>1. jobs' = [jobs EXCEPT ![j] = [jobs[j] EXCEPT !.status = s, !.answer = a, !.of = shown]]
      BY <1>5 DEF AskResume
    <3>2. jobs[j] \in RowT
      BY <1>0
    <3>3. ASSUME NEW r \in RowT
          PROVE  [r EXCEPT !.status = s, !.answer = a, !.of = shown]
                 = [r EXCEPT !.status = s, !.live = r.live, !.answer = a, !.of = shown]
      BY DEF RowT
    <3> QED
      BY <3>1, <3>2, <3>3
  <2>2. jobs[j] \in RowT /\ s \in Statuses
    BY <1>0 DEF RowT, Statuses, Live, Ends
  <2>3. jobs' \in [1 .. MaxJobs -> RowT]
    BY <1>0, <2>1, <2>2, RowEdited, Zenon DEF RowT
  <2> QED
    BY <1>0, <1>5, <2>3 DEF Typed, AskResume
<1>6. UNCHANGED <<hand, ck, chapters, commits>>
  BY DEF Submit, UpdateBrief, AskCancel, Expire, AskResume
<1> QED
  BY <1>1, <1>2, <1>3, <1>4, <1>5, <1>6, QuietKept

LEMMA OwnsSome == ASSUME NEW w, Owns(w) PROVE hand[w].pc # "idle"
BY DEF Owns

LEMMA ClaimStep ==
  ASSUME IInv, NEW w \in Workers, NEW j \in 1 .. MaxJobs, Claim(w, j) PROVE IInv'
<1>1. Typed'
  <2>1. Typed /\ jobs \in [1 .. MaxJobs -> RowT] /\ hand \in [Workers -> HandT]
    BY DEF IInv, Typed
  <2>2. jobs' \in [1 .. MaxJobs -> RowT]
    BY <2>1 DEF Claim, RowT, Statuses, Live, Ends
  <2>3. jobs[j].fence + 1 \in Nat /\ j \in Nat
    BY <2>1 DEF RowT
  <2>4. hand' \in [Workers -> HandT]
    BY <2>1, <2>3 DEF Claim, HandT, Pcs
  <2> QED
    BY <2>1, <2>2, <2>4 DEF Typed, Claim
<1>2. HandMoved(w) /\ hand'[w].pc # "saved" /\ UNCHANGED <<ck, chapters, commits>>
  BY DEF IInv, Typed, Claim, HandMoved, Leaves, Outside
<1> QED
  BY <1>1, <1>2, QuietKept

LEMMA LeaveStep == ASSUME IInv, NEW w \in Workers, Leave(w) PROVE IInv'
<1>1. Typed'
  BY DEF IInv, Typed, Leave, HandT, Idle, Pcs
<1>2. HandMoved(w) /\ hand'[w].pc # "saved" /\ UNCHANGED <<ck, chapters, commits>>
  BY DEF IInv, Typed, Leave, HandMoved, Leaves, Outside, Idle
<1> QED
  BY <1>1, <1>2, QuietKept

\* Jobs that end with nothing done: cancelled, failed, retried, refused.
LEMMA EndSteps ==
  ASSUME IInv, NEW w \in Workers,
         \/ Cancelled(w) \/ FailJob(w) \/ RetryLater(w) \/ Reject(w) \/ HandIn(w)
  PROVE  IInv'
<1>1. hand[w].pc # "idle"
  BY OwnsSome DEF Cancelled, FailJob, RetryLater, Reject, HandIn, May
<1>2. \E s \in Statuses : End(w, s)
  BY DEF Cancelled, FailJob, RetryLater, Reject, HandIn, Statuses, Live, Ends
<1> QED
  BY <1>1, <1>2, Ended, QuietKept DEF IInv

LEMMA TakeLockStep == ASSUME IInv, NEW w \in Workers, TakeLock(w) PROVE IInv'
<1>1. hand[w].pc # "idle"
  BY OwnsSome DEF TakeLock, May
<1>2. CASE \E s \in {"accepted", "failed"} : End(w, s)
  BY <1>1, <1>2, Ended, QuietKept DEF IInv, Statuses, Live, Ends
<1>3. CASE ~Locked /\ Go(w, "begin")
           /\ UNCHANGED <<jobs, ck, brief, texts, kept, offers, chapters, shown, commits>>
  <2>1. /\ hand' \in [Workers -> HandT]
        /\ \A v \in Workers : hand'[v].pc # "idle" => hand'[v].job \in 1 .. MaxJobs
        /\ hand'[w].pc = "begin" /\ \A v \in Workers \ {w} : hand'[v] = hand[v]
    BY <1>1, <1>3, GoTyped DEF IInv, Pcs
  <2>2. Typed' /\ HandMoved(w)
    BY <1>3, <2>1 DEF IInv, Typed, HandMoved, Enters
  <2> QED
    BY <1>3, <2>1, <2>2, QuietKept
<1> QED
  BY <1>2, <1>3 DEF TakeLock

-----------------------------------------------------------------------------
(* The nodes of the graph.                                                 *)

LEMMA Driving ==
  ASSUME IInv, NEW w \in Workers, NEW pc, May(w, pc), pc \notin Outside
  PROVE  /\ hand[w].pc = pc /\ hand[w].pc # "idle" /\ Moves(w)
         /\ hand[w].job \in 1 .. MaxJobs /\ Row(w) \in RowT
<1>1. hand[w].pc # "idle"
  BY DEF May, Outside
<1> QED
  BY <1>1, RowOf DEF IInv, May, Moves

\* A node writes the checkpoint after it, and perhaps a text or a version.
LEMMA NodeKept ==
  ASSUME IInv, NEW w \in Workers, May(w, "driving"),
         UNCHANGED <<jobs, hand, brief, chapters, shown, commits>>,
         texts' \in Nat, kept' \subseteq Nat \X (Nat \ {0}), UNCHANGED offers,
         ck' \in CheckpointT, Sound'
  PROVE  IInv'
<1>1. hand[w].pc = "driving" /\ Moves(w)
  BY Driving DEF Outside
<1>2. Typed'
  BY DEF IInv, Typed
<1>3. HandMoved(w)
  BY <1>1 DEF HandMoved
<1>4. Alone' /\ Between'
  BY <1>1, <1>3, AloneKept, BetweenKept DEF IInv
<1>5. DocumentWhole'
  BY DEF IInv, DocumentWhole
<1> QED
  BY <1>2, <1>4, <1>5 DEF IInv

LEMMA OrchestratorStep ==
  ASSUME IInv, BookAssumption, NEW w \in Workers, Orchestrator(w) PROVE IInv'
<1>0. ck \in CheckpointT /\ Sound /\ kept \subseteq Nat \X (Nat \ {0}) /\ texts \in Nat
  BY DEF IInv, Typed
<1>1. ck' \in CheckpointT
  BY <1>0 DEF Orchestrator, Node, Put, NextAgent, CheckpointT, Nodes, Given0
<1>2. Sound'
  <2>1. DraftOK'
    BY <1>0, BookAssumption DEF Sound, DraftOK, Orchestrator, Node, At, Put, NextAgent, Chaptered, Drafted, CheckpointT, Pages, BookAssumption
  <2>2. ReviewOK'
    BY <1>0 DEF Sound, ReviewOK, Orchestrator, Node, At, Put, NextAgent, CheckpointT
  <2>3. PagesOK'
    BY <1>0 DEF Sound, PagesOK, Orchestrator, Node, At, Put, NextAgent, CheckpointT
  <2>4. EndOK'
    BY <1>0, BookAssumption DEF Sound, EndOK, Orchestrator, Node, At, Put, NextAgent, CheckpointT, BookAssumption
  <2> QED
    BY <2>1, <2>2, <2>3, <2>4 DEF Sound
<1> QED
  BY <1>0, <1>1, <1>2, NodeKept DEF Orchestrator, Node, At

LEMMA BuildersStep ==
  ASSUME IInv, BookAssumption, NEW w \in Workers, Builders(w) PROVE IInv'
<1>0. /\ ck \in CheckpointT /\ Sound /\ kept \subseteq Nat \X (Nat \ {0}) /\ texts \in Nat
      /\ offers \subseteq [from : PlaceT, text : Nat \ {0}]
  BY DEF IInv, Typed
<1>d. ck.stage + 1 \in Nat
  BY <1>0 DEF CheckpointT
<1>1. ck' \in CheckpointT
  BY <1>0, BookAssumption, <1>d DEF Builders, Node, Put, CheckpointT, Nodes, Given0
<1>2. Sound'
  <2>1. DraftOK'
    BY <1>0, BookAssumption DEF Sound, DraftOK, Builders, Node, At, Put, Chaptered, Drafted, CheckpointT, DraftT, Pages, BookAssumption
  <2>2. ReviewOK'
    BY <1>0 DEF Sound, ReviewOK, Builders, Node, At, Put, CheckpointT, DraftT
  <2>3. PagesOK'
    BY <1>0 DEF Sound, PagesOK, Builders, Node, At, Put, CheckpointT
  <2>4. EndOK'
    BY <1>0, BookAssumption DEF Sound, EndOK, Builders, Node, At, Put, CheckpointT, BookAssumption
  <2> QED
    BY <2>1, <2>2, <2>3, <2>4 DEF Sound
<1> QED
  BY <1>0, <1>1, <1>2, NodeKept DEF Builders, Node, At

LEMMA ScenePlannerStep ==
  ASSUME IInv, BookAssumption, NEW w \in Workers, ScenePlanner(w) PROVE IInv'
<1>0. /\ ck \in CheckpointT /\ Sound /\ kept \subseteq Nat \X (Nat \ {0}) /\ texts \in Nat
      /\ offers \subseteq [from : PlaceT, text : Nat \ {0}]
  BY DEF IInv, Typed
<1>1. ck' \in CheckpointT
  BY <1>0, BookAssumption DEF ScenePlanner, Node, Put, CheckpointT, Nodes, Given0
<1>2. Sound'
  <2>1. DraftOK'
    BY <1>0, BookAssumption DEF Sound, DraftOK, ScenePlanner, Node, At, Put, Chaptered, Drafted, CheckpointT, DraftT, Pages, BookAssumption
  <2>2. ReviewOK'
    BY <1>0 DEF Sound, ReviewOK, ScenePlanner, Node, At, Put, CheckpointT, DraftT
  <2>3. PagesOK'
    BY <1>0 DEF Sound, PagesOK, ScenePlanner, Node, At, Put, CheckpointT
  <2>4. EndOK'
    BY <1>0, BookAssumption DEF Sound, EndOK, ScenePlanner, Node, At, Put, CheckpointT, BookAssumption
  <2> QED
    BY <2>1, <2>2, <2>3, <2>4 DEF Sound
<1> QED
  BY <1>0, <1>1, <1>2, NodeKept DEF ScenePlanner, Node, At

LEMMA PlanningReviewStep ==
  ASSUME IInv, BookAssumption, NEW w \in Workers, PlanningReview(w) PROVE IInv'
<1>0. /\ ck \in CheckpointT /\ Sound /\ kept \subseteq Nat \X (Nat \ {0}) /\ texts \in Nat
      /\ offers \subseteq [from : PlaceT, text : Nat \ {0}]
  BY DEF IInv, Typed
<1>1. ck' \in CheckpointT
  BY <1>0, BookAssumption DEF PlanningReview, Node, Put, CheckpointT, Nodes, Given0
<1>2. Sound'
  <2>1. DraftOK'
    BY <1>0, BookAssumption DEF Sound, DraftOK, PlanningReview, Node, At, Put, Chaptered, Drafted, CheckpointT, DraftT, Pages, BookAssumption
  <2>2. ReviewOK'
    BY <1>0 DEF Sound, ReviewOK, PlanningReview, Node, At, Put, CheckpointT, DraftT
  <2>3. PagesOK'
    BY <1>0 DEF Sound, PagesOK, PlanningReview, Node, At, Put, CheckpointT
  <2>4. EndOK'
    BY <1>0, BookAssumption DEF Sound, EndOK, PlanningReview, Node, At, Put, CheckpointT, BookAssumption
  <2> QED
    BY <2>1, <2>2, <2>3, <2>4 DEF Sound
<1> QED
  BY <1>0, <1>1, <1>2, NodeKept DEF PlanningReview, Node, At

LEMMA StyleEditorStep ==
  ASSUME IInv, BookAssumption, NEW w \in Workers, StyleEditor(w) PROVE IInv'
<1>0. /\ ck \in CheckpointT /\ Sound /\ kept \subseteq Nat \X (Nat \ {0}) /\ texts \in Nat
      /\ offers \subseteq [from : PlaceT, text : Nat \ {0}]
  BY DEF IInv, Typed
<1>1. ck' \in CheckpointT
  BY <1>0, BookAssumption DEF StyleEditor, Node, Put, CheckpointT, Nodes, Given0
<1>2. Sound'
  <2>1. DraftOK'
    BY <1>0, BookAssumption DEF Sound, DraftOK, StyleEditor, Node, At, Put, Chaptered, Drafted, CheckpointT, DraftT, Pages, BookAssumption
  <2>2. ReviewOK'
    BY <1>0 DEF Sound, ReviewOK, StyleEditor, Node, At, Put, CheckpointT, DraftT
  <2>3. PagesOK'
    BY <1>0 DEF Sound, PagesOK, StyleEditor, Node, At, Put, CheckpointT
  <2>4. EndOK'
    BY <1>0, BookAssumption DEF Sound, EndOK, StyleEditor, Node, At, Put, CheckpointT, BookAssumption
  <2> QED
    BY <2>1, <2>2, <2>3, <2>4 DEF Sound
<1> QED
  BY <1>0, <1>1, <1>2, NodeKept DEF StyleEditor, Node, At

LEMMA ConsistencyCheckerStep ==
  ASSUME IInv, BookAssumption, NEW w \in Workers, ConsistencyChecker(w) PROVE IInv'
<1>0. /\ ck \in CheckpointT /\ Sound /\ kept \subseteq Nat \X (Nat \ {0}) /\ texts \in Nat
      /\ offers \subseteq [from : PlaceT, text : Nat \ {0}]
  BY DEF IInv, Typed
<1> DEFINE d == [ck.draft EXCEPT !.checked = ck.brief]
<1>d. d \in DraftT /\ d.chapter = ck.draft.chapter /\ d.text = ck.draft.text /\ d.checked = ck.brief
  BY <1>0 DEF CheckpointT, DraftT
<1>e. PICK next \in {"human_review", "scene_writer"}, more \in Nat :
        ck' = [ck EXCEPT !.draft = d, !.recheck = FALSE, !.next = next, !.revisions = more,
                         !.given = "none"]
  <2>1. ck.revisions \in Nat /\ ck.revisions + 1 \in Nat
    BY <1>0 DEF CheckpointT
  <2>2. ck' = [ck EXCEPT !.draft = d, !.recheck = FALSE, !.next = "human_review", !.given = "none"]
        \/ ck' = [ck EXCEPT !.draft = d, !.recheck = FALSE, !.next = "scene_writer",
                             !.revisions = ck.revisions + 1, !.given = "none"]
    BY <1>0 DEF ConsistencyChecker, Node, Put, CheckpointT, DraftT
  <2>3. [ck EXCEPT !.draft = d, !.recheck = FALSE, !.next = "human_review", !.given = "none"]
        = [ck EXCEPT !.draft = d, !.recheck = FALSE, !.next = "human_review",
                     !.revisions = ck.revisions, !.given = "none"]
    BY <1>0 DEF CheckpointT
  <2> QED
    BY <2>1, <2>2, <2>3
<1>f. ck.next = "consistency_checker"
  BY DEF ConsistencyChecker, Node, At
<1> HIDE DEF d
<1>1. ck' \in CheckpointT
  BY <1>0, <1>d, <1>e DEF CheckpointT, Nodes, Given0
<1>2. Sound'
  <2>1. DraftOK' /\ ReviewOK'
    BY <1>0, <1>d, <1>e, <1>f DEF Sound, DraftOK, ReviewOK, Chaptered, Drafted, CheckpointT
  <2>2. PagesOK'
    BY <1>0, <1>e DEF Sound, PagesOK, ConsistencyChecker, Node, CheckpointT
  <2>3. EndOK'
    BY <1>0, <1>e, <1>f DEF Sound, EndOK, CheckpointT
  <2> QED
    BY <2>1, <2>2, <2>3 DEF Sound
<1> QED
  BY <1>0, <1>1, <1>2, NodeKept DEF ConsistencyChecker, Node, At

LEMMA BookAuditorStep ==
  ASSUME IInv, BookAssumption, NEW w \in Workers, BookAuditor(w) PROVE IInv'
<1>0. /\ ck \in CheckpointT /\ Sound /\ kept \subseteq Nat \X (Nat \ {0}) /\ texts \in Nat
      /\ offers \subseteq [from : PlaceT, text : Nat \ {0}]
  BY DEF IInv, Typed
<1>d. Texts(ck.book) \in [Pages -> Nat]
  BY <1>0 DEF Texts, CheckpointT, PageT
<1>1. ck' \in CheckpointT
  BY <1>0, BookAssumption, <1>d DEF BookAuditor, Node, Put, CheckpointT, Nodes, Given0
<1>2. Sound'
  <2>1. DraftOK'
    BY <1>0, BookAssumption DEF Sound, DraftOK, BookAuditor, Node, Texts, At, Put, Chaptered, Drafted, CheckpointT, DraftT, Pages, BookAssumption
  <2>2. ReviewOK'
    BY <1>0 DEF Sound, ReviewOK, BookAuditor, Node, Texts, At, Put, CheckpointT, DraftT
  <2>3. PagesOK'
    BY <1>0 DEF Sound, PagesOK, BookAuditor, Node, Texts, At, Put, CheckpointT
  <2>4. EndOK'
    BY <1>0, BookAssumption DEF Sound, EndOK, BookAuditor, Node, Texts, At, Put, CheckpointT, BookAssumption
  <2> QED
    BY <2>1, <2>2, <2>3, <2>4 DEF Sound
<1> QED
  BY <1>0, <1>1, <1>2, NodeKept DEF BookAuditor, Node, Texts, At

LEMMA SceneWriterStep ==
  ASSUME IInv, BookAssumption, NEW w \in Workers, SceneWriter(w) PROVE IInv'
<1>0. /\ ck \in CheckpointT /\ Sound /\ kept \subseteq Nat \X (Nat \ {0}) /\ texts \in Nat
      /\ offers \subseteq [from : PlaceT, text : Nat \ {0}]
  BY DEF IInv, Typed
<1>d. /\ texts + 1 \in Nat /\ ck.chapter \in Nat /\ NoContext \in PlaceT
      /\ [chapter |-> ck.chapter, text |-> texts + 1, checked |-> 0] \in DraftT
  BY <1>0, BookAssumption DEF CheckpointT, DraftT, NoContext, PlaceT, BookAssumption
<1>1. ck' \in CheckpointT
  BY <1>0, BookAssumption, <1>d DEF SceneWriter, Write, Put, CheckpointT, Nodes, Given0
<1>2. Sound'
  <2>1. DraftOK'
    BY <1>0, BookAssumption DEF Sound, DraftOK, SceneWriter, Write, At, Put, Chaptered, Drafted, CheckpointT, DraftT, Pages, BookAssumption
  <2>2. ReviewOK'
    BY <1>0 DEF Sound, ReviewOK, SceneWriter, Write, At, Put, CheckpointT, DraftT
  <2>3. PagesOK'
    BY <1>0 DEF Sound, PagesOK, SceneWriter, Write, At, Put, CheckpointT
  <2>4. EndOK'
    BY <1>0, BookAssumption DEF Sound, EndOK, SceneWriter, Write, At, Put, CheckpointT, BookAssumption
  <2> QED
    BY <2>1, <2>2, <2>3, <2>4 DEF Sound
<1> QED
  BY <1>0, <1>1, <1>2, NodeKept DEF SceneWriter, Write, At

LEMMA SceneRewriterStep ==
  ASSUME IInv, BookAssumption, NEW w \in Workers, SceneRewriter(w) PROVE IInv'
<1>0. /\ ck \in CheckpointT /\ Sound /\ kept \subseteq Nat \X (Nat \ {0}) /\ texts \in Nat
      /\ offers \subseteq [from : PlaceT, text : Nat \ {0}]
  BY DEF IInv, Typed
<1>d. /\ texts + 1 \in Nat /\ ck.chapter \in Nat /\ NoContext \in PlaceT
      /\ [chapter |-> ck.chapter, text |-> texts + 1, checked |-> 0] \in DraftT
  BY <1>0, BookAssumption DEF CheckpointT, DraftT, NoContext, PlaceT, BookAssumption
<1>1. ck' \in CheckpointT
  BY <1>0, BookAssumption, <1>d DEF SceneRewriter, Write, Put, CheckpointT, Nodes, Given0
<1>2. Sound'
  <2>1. DraftOK'
    BY <1>0, BookAssumption DEF Sound, DraftOK, SceneRewriter, Write, At, Put, Chaptered, Drafted, CheckpointT, DraftT, Pages, BookAssumption
  <2>2. ReviewOK'
    BY <1>0 DEF Sound, ReviewOK, SceneRewriter, Write, At, Put, CheckpointT, DraftT
  <2>3. PagesOK'
    BY <1>0 DEF Sound, PagesOK, SceneRewriter, Write, At, Put, CheckpointT
  <2>4. EndOK'
    BY <1>0, BookAssumption DEF Sound, EndOK, SceneRewriter, Write, At, Put, CheckpointT, BookAssumption
  <2> QED
    BY <2>1, <2>2, <2>3, <2>4 DEF Sound
<1> QED
  BY <1>0, <1>1, <1>2, NodeKept DEF SceneRewriter, Write, At

LEMMA ReviseStep ==
  ASSUME IInv, BookAssumption, NEW w \in Workers, Revise(w) PROVE IInv'
<1>0. /\ ck \in CheckpointT /\ Sound /\ kept \subseteq Nat \X (Nat \ {0}) /\ texts \in Nat
      /\ offers \subseteq [from : PlaceT, text : Nat \ {0}]
  BY DEF IInv, Typed
<1>k. kept' \subseteq Nat \X (Nat \ {0}) /\ UNCHANGED offers
  BY <1>0 DEF Revise, Answered, At, Kept, Sound, DraftOK, Drafted, CheckpointT, DraftT
<1>d. /\ OneMore \in Nat /\ ck.canon + 1 \in Nat /\ NoContext \in PlaceT
  BY <1>0, BookAssumption DEF CheckpointT, OneMore, NoContext, PlaceT, BookAssumption
<1>1. ck' \in CheckpointT
  <2>1. PICK next \in {"scene_writer", "scene_rewriter"} :
          ck' = [ck EXCEPT !.next = next, !.revisions = OneMore, !.err = FALSE, !.given = "none"]
    BY <1>0 DEF Revise, Answered, Put, CheckpointT
  <2> QED
    BY <1>0, <1>d, <2>1 DEF CheckpointT, Nodes, Given0
<1>2. Sound'
  <2>1. DraftOK'
    BY <1>0, BookAssumption DEF Sound, DraftOK, Revise, Answered, At, Put, Chaptered, Drafted, CheckpointT, DraftT, Pages, BookAssumption
  <2>2. ReviewOK'
    BY <1>0 DEF Sound, ReviewOK, Revise, Answered, At, Put, CheckpointT, DraftT
  <2>3. PagesOK'
    BY <1>0 DEF Sound, PagesOK, Revise, Answered, At, Put, CheckpointT
  <2>4. EndOK'
    BY <1>0, BookAssumption DEF Sound, EndOK, Revise, Answered, At, Put, CheckpointT, BookAssumption
  <2> QED
    BY <2>1, <2>2, <2>3, <2>4 DEF Sound
<1> QED
  BY <1>0, <1>k, <1>1, <1>2, NodeKept DEF Revise, Answered, At

LEMMA RecheckStep ==
  ASSUME IInv, BookAssumption, NEW w \in Workers, Recheck(w) PROVE IInv'
<1>0. /\ ck \in CheckpointT /\ Sound /\ kept \subseteq Nat \X (Nat \ {0}) /\ texts \in Nat
      /\ offers \subseteq [from : PlaceT, text : Nat \ {0}]
  BY DEF IInv, Typed
<1>k. kept' \subseteq Nat \X (Nat \ {0}) /\ UNCHANGED offers
  BY <1>0 DEF Recheck, Answered, At, Kept, Sound, DraftOK, Drafted, CheckpointT, DraftT
<1>d. /\ OneMore \in Nat /\ ck.canon + 1 \in Nat /\ NoContext \in PlaceT
  BY <1>0, BookAssumption DEF CheckpointT, OneMore, NoContext, PlaceT, BookAssumption
<1>1. ck' \in CheckpointT
  BY <1>0, BookAssumption, <1>d DEF Recheck, Answered, Checking, Put, CheckpointT, Nodes, Given0
<1>2. Sound'
  <2>1. DraftOK'
    BY <1>0, BookAssumption DEF Sound, DraftOK, Recheck, Answered, Checking, At, Put, Chaptered, Drafted, CheckpointT, DraftT, Pages, BookAssumption
  <2>2. ReviewOK'
    BY <1>0 DEF Sound, ReviewOK, Recheck, Answered, Checking, At, Put, CheckpointT, DraftT
  <2>3. PagesOK'
    BY <1>0 DEF Sound, PagesOK, Recheck, Answered, Checking, At, Put, CheckpointT
  <2>4. EndOK'
    BY <1>0, BookAssumption DEF Sound, EndOK, Recheck, Answered, Checking, At, Put, CheckpointT, BookAssumption
  <2> QED
    BY <2>1, <2>2, <2>3, <2>4 DEF Sound
<1> QED
  BY <1>0, <1>k, <1>1, <1>2, NodeKept DEF Recheck, Answered, Checking, At

LEMMA CanonUpdateStep ==
  ASSUME IInv, BookAssumption, NEW w \in Workers, CanonUpdate(w) PROVE IInv'
<1>0. /\ ck \in CheckpointT /\ Sound /\ kept \subseteq Nat \X (Nat \ {0}) /\ texts \in Nat
      /\ offers \subseteq [from : PlaceT, text : Nat \ {0}]
  BY DEF IInv, Typed
<1>k. kept' \subseteq Nat \X (Nat \ {0}) /\ UNCHANGED offers
  BY <1>0 DEF CanonUpdate, Answered, At, Kept, Sound, DraftOK, Drafted, CheckpointT, DraftT
<1>d. /\ OneMore \in Nat /\ ck.canon + 1 \in Nat /\ NoContext \in PlaceT
  BY <1>0, BookAssumption DEF CheckpointT, OneMore, NoContext, PlaceT, BookAssumption
<1>1. ck' \in CheckpointT
  BY <1>0, BookAssumption, <1>d DEF CanonUpdate, Answered, Checking, Put, CheckpointT, Nodes, Given0
<1>2. Sound'
  <2>1. DraftOK'
    BY <1>0, BookAssumption DEF Sound, DraftOK, CanonUpdate, Answered, Checking, At, Put, Chaptered, Drafted, CheckpointT, DraftT, Pages, BookAssumption
  <2>2. ReviewOK'
    BY <1>0 DEF Sound, ReviewOK, CanonUpdate, Answered, Checking, At, Put, CheckpointT, DraftT
  <2>3. PagesOK'
    BY <1>0 DEF Sound, PagesOK, CanonUpdate, Answered, Checking, At, Put, CheckpointT
  <2>4. EndOK'
    BY <1>0, BookAssumption DEF Sound, EndOK, CanonUpdate, Answered, Checking, At, Put, CheckpointT, BookAssumption
  <2> QED
    BY <2>1, <2>2, <2>3, <2>4 DEF Sound
<1> QED
  BY <1>0, <1>k, <1>1, <1>2, NodeKept DEF CanonUpdate, Answered, Checking, At

\* A text that a reviewer restores is checked before it is shown.
LEMMA RestoredKept ==
  ASSUME IInv, BookAssumption, NEW w \in Workers, NEW text \in Nat \ {0}, NEW from \in PlaceT,
         NEW answer, Answered(w, answer, [Restored(text) EXCEPT !.chosen = from])
  PROVE  IInv'
<1>0. /\ ck \in CheckpointT /\ Sound /\ kept \subseteq Nat \X (Nat \ {0}) /\ texts \in Nat
  BY DEF IInv, Typed
<1> DEFINE d == [ck.draft EXCEPT !.text = text, !.checked = 0]
<1>d. d \in DraftT /\ d.chapter = ck.draft.chapter /\ d.text = text /\ OneMore \in Nat
  <2>1. OneMore \in Nat
    BY <1>0, BookAssumption DEF CheckpointT, OneMore, BookAssumption
  <2>2. d \in DraftT /\ d.chapter = ck.draft.chapter /\ d.text = text
    BY <1>0 DEF CheckpointT, DraftT
  <2> QED
    BY <2>1, <2>2
<1>e. ck' = [ck EXCEPT !.draft = d, !.revisions = OneMore, !.next = "consistency_checker",
                       !.err = FALSE, !.chosen = from, !.given = "none"]
  BY <1>0 DEF Answered, Put, Restored, Checking, CheckpointT, DraftT
<1>f. ck.next = "human_review" /\ May(w, "driving")
  BY DEF Answered, At
<1>k. kept' \subseteq Nat \X (Nat \ {0})
  BY <1>0 DEF Answered, Kept, Sound, DraftOK, Drafted, CheckpointT, DraftT
<1> HIDE DEF d
<1>1. ck' \in CheckpointT
  BY <1>0, <1>d, <1>e DEF CheckpointT, Nodes, Given0
<1>2. Sound'
  <2>1. DraftOK' /\ ReviewOK'
    BY <1>0, <1>d, <1>e, <1>f DEF Sound, DraftOK, ReviewOK, Chaptered, Drafted, CheckpointT
  <2>2. PagesOK'
    BY <1>0, <1>e DEF Sound, PagesOK, Answered, CheckpointT
  <2>3. EndOK'
    BY <1>0, <1>e, <1>f DEF Sound, EndOK, CheckpointT
  <2> QED
    BY <2>1, <2>2, <2>3 DEF Sound
<1> QED
  BY <1>0, <1>f, <1>k, <1>1, <1>2, NodeKept DEF Answered

LEMMA RestoreSteps ==
  ASSUME IInv, BookAssumption, NEW w \in Workers, RestoreVersion(w) \/ RestoreCandidate(w)
  PROVE  IInv'
<1>0. /\ ck \in CheckpointT /\ kept \subseteq Nat \X (Nat \ {0})
      /\ offers \subseteq [from : PlaceT, text : Nat \ {0}]
  BY DEF IInv, Typed
<1>1. NoContext \in PlaceT
  BY DEF NoContext, PlaceT
<1>2. ASSUME NEW v \in kept, Answered(w, "version", Restored(v[2])) PROVE IInv'
  <2>1. Restored(v[2]) = [Restored(v[2]) EXCEPT !.chosen = NoContext]
    BY <1>0 DEF Restored, Checking, CheckpointT
  <2>2. v[2] \in Nat \ {0}
    BY <1>0
  <2>3. Answered(w, "version", [Restored(v[2]) EXCEPT !.chosen = NoContext])
    BY <1>2, <2>1
  <2> QED
    BY <1>1, <2>2, <2>3, RestoredKept
<1>3. ASSUME NEW o \in offers, Answered(w, "candidate", [Restored(o.text) EXCEPT !.chosen = o.from])
      PROVE  IInv'
  <2>1. o.text \in Nat \ {0} /\ o.from \in PlaceT
    BY <1>0
  <2> QED
    BY <1>3, <2>1, RestoredKept
<1> QED
  BY <1>2, <1>3 DEF RestoreVersion, RestoreCandidate

-----------------------------------------------------------------------------
(* Reviews, and the two writes of an approval.                              *)

LEMMA KeptTyped == ASSUME IInv PROVE Kept \subseteq Nat \X (Nat \ {0})
BY DEF IInv, Typed, Kept, Sound, DraftOK, Drafted, CheckpointT, DraftT

LEMMA AskReviewStep == ASSUME IInv, NEW w \in Workers, AskReview(w) PROVE IInv'
<1>1. hand[w].pc = "driving" /\ Moves(w)
  BY Driving DEF AskReview, Outside
<1>2. /\ hand' \in [Workers -> HandT]
      /\ \A v \in Workers : hand'[v].pc # "idle" => hand'[v].job \in 1 .. MaxJobs
      /\ hand'[w].pc = "publishing" /\ \A v \in Workers \ {w} : hand'[v] = hand[v]
  BY <1>1, GoTyped DEF IInv, AskReview, Pcs
<1>3. Typed' /\ HandMoved(w)
  BY <1>1, <1>2, KeptTyped DEF IInv, Typed, AskReview, HandMoved
<1> QED
  BY <1>2, <1>3, QuietKept DEF AskReview

LEMMA PublishStep == ASSUME IInv, NEW w \in Workers, Publish(w) PROVE IInv'
<1>1. hand[w].pc # "idle"
  BY Driving DEF Publish, Outside
<1>2. /\ jobs' \in [1 .. MaxJobs -> RowT] /\ hand' \in [Workers -> HandT]
      /\ \A v \in Workers : hand'[v].pc # "idle" => hand'[v].job \in 1 .. MaxJobs
      /\ hand'[w].pc = "idle" /\ \A v \in Workers \ {w} : hand'[v] = hand[v]
  BY <1>1, FinishTyped DEF IInv, Publish, Statuses
<1>3. shown' \in Nat
  BY DEF IInv, Typed, Publish, CheckpointT, DraftT
<1>4. Typed' /\ HandMoved(w)
  BY <1>2, <1>3 DEF IInv, Typed, Publish, HandMoved, Leaves, Outside
<1> QED
  BY <1>2, <1>4, QuietKept DEF Publish

LEMMA ApproveSavesStep ==
  ASSUME IInv, BookAssumption, NEW w \in Workers, ApproveSaves(w) PROVE IInv'
<1>0. /\ ck \in CheckpointT /\ Sound /\ chapters \in [Pages -> Nat]
      /\ ck.next = "human_review" /\ ck.given = "approve" /\ May(w, "driving")
  BY DEF IInv, Typed, ApproveSaves, At
<1>1. hand[w].pc = "driving" /\ Moves(w)
  BY <1>0, Driving DEF Outside
<1>2. /\ hand' \in [Workers -> HandT]
      /\ \A v \in Workers : hand'[v].pc # "idle" => hand'[v].job \in 1 .. MaxJobs
      /\ hand'[w].pc = "saved" /\ \A v \in Workers \ {w} : hand'[v] = hand[v]
  BY <1>1, GoTyped DEF IInv, ApproveSaves, Pcs
<1>3. ck.draft.chapter = ck.chapter /\ ck.chapter \in Pages /\ ck.draft.text \in Nat
  BY <1>0 DEF Sound, DraftOK, Drafted, CheckpointT, DraftT
<1>4. chapters' \in [Pages -> Nat] /\ chapters'[ck.draft.chapter] = ck.draft.text
  BY <1>0, <1>3 DEF ApproveSaves
<1>5. Typed' /\ HandMoved(w)
  BY <1>1, <1>2, <1>4, KeptTyped DEF IInv, Typed, ApproveSaves, HandMoved
<1>6. Alone' /\ Between'
  <2>1. /\ ck'.next = "human_review" /\ ck'.given = "approve"
        /\ chapters'[ck'.draft.chapter] = ck'.draft.text
    BY <1>0, <1>4 DEF ApproveSaves
  <2> QED
    BY <1>1, <1>5, <2>1, AloneKept, BetweenKept DEF IInv
<1>7. Sound'
  <2>1. PagesOK'
    BY <1>0, <1>3 DEF Sound, PagesOK, ApproveSaves
  <2> QED
    BY <1>0, <2>1 DEF Sound, DraftOK, ReviewOK, EndOK, ApproveSaves
<1>8. DocumentWhole'
  BY DEF IInv, DocumentWhole, ApproveSaves
<1> QED
  BY <1>5, <1>6, <1>7, <1>8 DEF IInv

\* A step on from a stage past the lock, with a new checkpoint.
LEMMA DrivenKept ==
  ASSUME IInv, NEW w \in Workers, NEW from \in Pcs \ Outside, May(w, from),
         NEW pc \in Pcs \ {"saved"}, Go(w, pc),
         UNCHANGED <<jobs, brief, texts, offers, chapters, shown, commits>>,
         kept' \subseteq Nat \X (Nat \ {0}), ck' \in CheckpointT, Sound'
  PROVE  IInv'
<1>1. hand[w].pc = from /\ hand[w].pc # "idle" /\ Moves(w)
  BY Driving
<1>2. /\ hand' \in [Workers -> HandT]
      /\ \A v \in Workers : hand'[v].pc # "idle" => hand'[v].job \in 1 .. MaxJobs
      /\ hand'[w].pc = pc /\ \A v \in Workers \ {w} : hand'[v] = hand[v]
  BY <1>1, GoTyped DEF IInv
<1>3. Typed' /\ HandMoved(w)
  BY <1>1, <1>2 DEF IInv, Typed, HandMoved
<1>4. Alone' /\ Between'
  BY <1>1, <1>2, <1>3, AloneKept, BetweenKept DEF IInv
<1>5. DocumentWhole'
  BY DEF IInv, DocumentWhole
<1> QED
  BY <1>3, <1>4, <1>5 DEF IInv

LEMMA ApproveDoneStep ==
  ASSUME IInv, BookAssumption, NEW w \in Workers, ApproveDone(w) PROVE IInv'
<1>0. /\ ck \in CheckpointT /\ Sound /\ May(w, "saved") /\ hand[w].pc = "saved"
      /\ Row(w) \in RowT /\ kept \subseteq Nat \X (Nat \ {0})
  BY Driving DEF IInv, Typed, ApproveDone, Outside
<1>1. /\ ck.next = "human_review" /\ ck.given = "approve"
      /\ chapters[ck.draft.chapter] = ck.draft.text
  BY <1>0 DEF IInv, Between
<1>2. /\ ck.draft.chapter = ck.chapter /\ ck.chapter \in Pages /\ ck.draft.text # 0
      /\ ck.draft.checked = ck.brief /\ ck.audited = FALSE
  BY <1>0, <1>1 DEF Sound, DraftOK, ReviewOK, EndOK, Drafted, CheckpointT
<1> DEFINE page == [text |-> ck.draft.text, of |-> Row(w).of,
                    checked |-> ck.draft.checked, under |-> ck.brief]
           book == [ck.book EXCEPT ![ck.chapter] = page]
           next == IF ck.revising THEN Total + 1 ELSE ck.chapter + 1
<1>3. page \in PageT /\ page.text = ck.draft.text /\ page.checked = page.under
  BY <1>0, <1>2 DEF CheckpointT, DraftT, PageT, RowT
<1> HIDE DEF page
<1>4. /\ book \in [Pages -> PageT] /\ book[ck.chapter] = page
      /\ \A n \in Pages : n # ck.chapter => book[n] = ck.book[n]
  BY <1>0, <1>2, <1>3 DEF CheckpointT
<1>5. next \in 1 .. Total + 1 /\ (~ck.revising => next = ck.chapter + 1)
  BY <1>0, <1>2, BookAssumption DEF CheckpointT, Pages, BookAssumption
<1>6. ck' = [ck EXCEPT !.book = book, !.chapter = next, !.audited = FALSE, !.revising = FALSE,
               !.scened = FALSE, !.revisions = 0, !.err = FALSE, !.chosen = NoContext,
               !.next = "orchestrator", !.given = "none"]
  BY <1>0, <1>2 DEF ApproveDone, Put, Approved, CheckpointT, page
<1>7. NoContext \in PlaceT
  BY DEF NoContext, PlaceT
<1> HIDE DEF book, next
<1>8. ck' \in CheckpointT
  BY <1>0, <1>4, <1>5, <1>6, <1>7 DEF CheckpointT, Nodes, Given0
<1>9. Sound'
  <2>1. /\ ck'.next = "orchestrator" /\ ck'.audited = FALSE /\ ck'.revising = FALSE
        /\ ck'.chapter = next /\ ck'.book = book
    BY <1>0, <1>6 DEF CheckpointT
  <2>2. DraftOK' /\ ReviewOK' /\ EndOK'
    BY <2>1 DEF DraftOK, ReviewOK, EndOK, Chaptered, Drafted
  <2>3. PagesOK'
    <3> SUFFICES ASSUME NEW n \in Pages
                 PROVE  /\ n # next => chapters'[n] = book[n].text
                        /\ n < next => book[n].text # 0
                        /\ book[n].text # 0 => book[n].checked = book[n].under
      BY <2>1 DEF PagesOK
    <3>1. CASE n = ck.chapter
      BY <1>1, <1>2, <1>3, <1>4, <3>1 DEF ApproveDone
    <3>2. CASE n # ck.chapter
      <4>1. n < next => n < ck.chapter \/ ck.revising
        BY <1>2, <1>5, <3>2 DEF Pages
      <4> QED
        BY <1>0, <1>4, <3>2, <4>1 DEF Sound, PagesOK, ApproveDone
    <3> QED
      BY <3>1, <3>2
  <2> QED
    BY <2>2, <2>3 DEF Sound
<1> QED
  BY <1>0, <1>8, <1>9, DrivenKept DEF ApproveDone, Outside, Pcs

LEMMA ApproveFailsStep ==
  ASSUME IInv, BookAssumption, NEW w \in Workers, ApproveFails(w) PROVE IInv'
<1>0. ck \in CheckpointT /\ Sound
  BY DEF IInv, Typed
<1>1. ck' = [ck EXCEPT !.err = TRUE, !.given = "none"]
  BY <1>0 DEF ApproveFails, Put, FailedApproval, CheckpointT
<1>2. ck' \in CheckpointT
  BY <1>0, <1>1 DEF CheckpointT, Given0
<1>3. Sound'
  BY <1>0, <1>1 DEF Sound, DraftOK, ReviewOK, PagesOK, EndOK, CheckpointT, ApproveFails
<1>4. \E from \in {"driving", "saved"} : May(w, from)
  BY DEF ApproveFails, At
<1> QED
  BY <1>2, <1>3, <1>4, KeptTyped, DrivenKept DEF ApproveFails, Outside, Pcs

LEMMA ContentCommitStep ==
  ASSUME IInv, BookAssumption, NEW w \in Workers, ContentCommit(w) PROVE IInv'
<1>0. ck \in CheckpointT /\ Sound /\ May(w, "driving") /\ ck.next = "END"
  BY DEF IInv, Typed, ContentCommit, At
<1>1. hand[w].pc # "idle"
  BY <1>0, Driving DEF Outside
<1>2. /\ jobs' \in [1 .. MaxJobs -> RowT] /\ hand' \in [Workers -> HandT]
      /\ \A v \in Workers : hand'[v].pc # "idle" => hand'[v].job \in 1 .. MaxJobs
      /\ hand'[w].pc = "idle" /\ \A v \in Workers \ {w} : hand'[v] = hand[v]
  BY <1>1, FinishTyped DEF IInv, ContentCommit, Statuses, Ends
<1> DEFINE new == [book |-> Texts(ck.book), audit |-> ck.audit, saved |-> chapters]
<1>3. Texts(ck.book) \in [Pages -> Nat] /\ \A n \in Pages : Texts(ck.book)[n] = ck.book[n].text
  BY <1>0 DEF Texts, CheckpointT, PageT
<1>4. new \in DocumentT /\ new.book = Texts(ck.book) /\ new.audit = ck.audit /\ new.saved = chapters
  BY <1>0, <1>3 DEF IInv, Typed, DocumentT, CheckpointT
<1>5. commits' = commits \cup {new}
  BY DEF ContentCommit
<1>6. \A n \in Pages : n # ck.chapter /\ n < ck.chapter
  BY <1>0, BookAssumption DEF Sound, EndOK, Pages, BookAssumption
<1>7. \A n \in DOMAIN new.book :
        new.book[n] # 0 /\ new.audit[n] = new.book[n] /\ new.saved[n] = new.book[n]
  BY <1>0, <1>3, <1>4, <1>6 DEF Sound, PagesOK, EndOK
<1> HIDE DEF new
<1>8. DocumentWhole'
  BY <1>5, <1>7 DEF IInv, DocumentWhole
<1>9. Typed' /\ HandMoved(w)
  BY <1>2, <1>4, <1>5 DEF IInv, Typed, ContentCommit, HandMoved, Leaves, Outside
<1>10. Alone' /\ Between'
  BY <1>2, <1>9, AloneKept, BetweenKept DEF IInv, ContentCommit
<1>11. Sound'
  BY <1>0 DEF Sound, DraftOK, ReviewOK, PagesOK, EndOK, ContentCommit
<1> QED
  BY <1>8, <1>9, <1>10, <1>11 DEF IInv

-----------------------------------------------------------------------------
(* run_novel up to the graph.                                              *)

LEMMA FreshSound ==
  ASSUME BookAssumption, NEW b \in Nat
  PROVE  /\ Fresh(b) \in CheckpointT /\ NoCheckpoint \in CheckpointT
         /\ Fresh(b).next = "orchestrator" /\ NoCheckpoint.next = "none"
         /\ \A c \in {Fresh(b), NoCheckpoint} :
              /\ c.chapter = 1 /\ c.revising = FALSE /\ c.audited = FALSE
              /\ \A n \in Pages : c.book[n] = Unwritten
<1>1. Unwritten \in PageT /\ NoDraft \in DraftT /\ NoContext \in PlaceT
  BY DEF Unwritten, PageT, NoDraft, DraftT, NoContext, PlaceT
<1>2. 1 \in 1 .. Total + 1
  BY DEF BookAssumption
<1>3. Fresh(b) \in CheckpointT /\ Fresh(0) \in CheckpointT
  BY <1>1, <1>2 DEF Fresh, CheckpointT, Nodes, Given0
<1>4. NoCheckpoint \in CheckpointT
  BY <1>3 DEF NoCheckpoint, CheckpointT, Nodes
<1> QED
  BY <1>3, <1>4 DEF NoCheckpoint, Fresh

LEMMA BeginStep == ASSUME IInv, BookAssumption, NEW w \in Workers, Begin(w) PROVE IInv'
<1>0. /\ ck \in CheckpointT /\ Sound /\ May(w, "begin") /\ kept \subseteq Nat \X (Nat \ {0})
      /\ hand[w].pc # "idle" /\ Row(w) \in RowT
  BY Driving DEF IInv, Typed, Begin, Outside
<1>1. CASE End(w, "failed")
  BY <1>0, <1>1, Ended, QuietKept DEF IInv, Statuses, Ends
<1>2. CASE /\ ck' = Fresh(Row(w).brief) /\ Go(w, "driving")
           /\ UNCHANGED <<jobs, brief, texts, kept, offers, chapters, shown, commits>>
  <2>1. Row(w).brief \in Nat /\ ck = NoCheckpoint
    BY <1>0 DEF RowT, Begin
  <2>2. /\ ck' \in CheckpointT /\ ck'.next = "orchestrator" /\ ck'.chapter = 1 /\ ck.chapter = 1
        /\ ck'.revising = FALSE /\ ck.revising = FALSE /\ ck'.audited = FALSE
        /\ \A n \in Pages : ck'.book[n] = ck.book[n]
    BY <1>2, <2>1, FreshSound
  <2>3. Sound'
    BY <1>0, <1>2, <2>2 DEF Sound, DraftOK, ReviewOK, PagesOK, EndOK, Chaptered, Drafted
  <2> QED
    BY <1>0, <1>2, <2>2, <2>3, DrivenKept DEF Outside, Pcs
<1> QED
  BY <1>1, <1>2 DEF Begin

LEMMA RebriefStep == ASSUME IInv, BookAssumption, NEW w \in Workers, Rebrief(w) PROVE IInv'
<1>0. /\ ck \in CheckpointT /\ Sound /\ May(w, "begin") /\ kept \subseteq Nat \X (Nat \ {0})
      /\ hand[w].pc # "idle" /\ Row(w) \in RowT
  BY Driving DEF IInv, Typed, Rebrief, Outside
<1>1. CASE End(w, "failed")
  BY <1>0, <1>1, Ended, QuietKept DEF IInv, Statuses, Ends
<1>2. CASE /\ ck' = IF Row(w).brief > ck.brief THEN Rebriefed(ck, Row(w).brief) ELSE ck
           /\ Go(w, "begun")
           /\ UNCHANGED <<jobs, brief, texts, kept, offers, chapters, shown, commits>>
  <2>1. Row(w).brief \in Nat /\ NoContext \in PlaceT /\ Required(ck) \in BOOLEAN
    BY <1>0 DEF RowT, NoContext, PlaceT, Required, CheckpointT
  <2>2. CASE ck' = ck
    BY <1>0, <1>2, <2>2, DrivenKept DEF Outside, Pcs, Sound, DraftOK, ReviewOK, PagesOK, EndOK
  <2>3. CASE ck' = Rebriefed(ck, Row(w).brief)
    <3>1. ck' \in CheckpointT
      BY <1>0, <2>1, <2>3 DEF Rebriefed, CheckpointT, Given0
    <3>2. /\ ck'.next = ck.next /\ ck'.given = "none" /\ ck'.chapter = ck.chapter
          /\ ck'.draft = ck.draft /\ ck'.book = ck.book /\ ck'.revising = ck.revising
          /\ ck'.audited = ck.audited /\ ck'.audit = ck.audit
          /\ ck.next = "human_review" => ck'.recheck
      BY <1>0, <2>3 DEF Rebriefed, Required, CheckpointT
    <3>3. Sound'
      BY <1>0, <1>2, <3>2 DEF Sound, DraftOK, ReviewOK, PagesOK, EndOK
    <3> QED
      BY <1>0, <1>2, <3>1, <3>3, DrivenKept DEF Outside, Pcs
  <2> QED
    BY <1>2, <2>2, <2>3
<1> QED
  BY <1>1, <1>2 DEF Rebrief

\* The answer may approve only what was checked under the brief.
LEMMA ContinueGraphStep ==
  ASSUME IInv, BookAssumption, NEW w \in Workers, ContinueGraph(w) PROVE IInv'
<1>0. /\ ck \in CheckpointT /\ Sound /\ May(w, "begun") /\ kept \subseteq Nat \X (Nat \ {0})
      /\ Row(w) \in RowT
  BY Driving DEF IInv, Typed, ContinueGraph, Outside
<1> DEFINE given == IF Row(w).answer = "none" THEN ck.given ELSE Given(w)
<1>1. given \in Given0
  BY <1>0 DEF Given0, Given, CheckpointT, RowT
<1>2. ck.next = "human_review" /\ given = "approve" => ~ck.recheck
  BY <1>0 DEF Sound, ReviewOK, Given
<1>3. ck' = [ck EXCEPT !.given = given] /\ Go(w, "driving")
      /\ UNCHANGED <<jobs, brief, texts, kept, offers, chapters, shown, commits>>
  BY <1>0 DEF ContinueGraph, Drive, CheckpointT
<1> HIDE DEF given
<1>4. ck' \in CheckpointT
  BY <1>0, <1>1, <1>3 DEF CheckpointT
<1>5. Sound'
  BY <1>0, <1>2, <1>3 DEF Sound, DraftOK, ReviewOK, PagesOK, EndOK, CheckpointT
<1> QED
  BY <1>0, <1>3, <1>4, <1>5, DrivenKept DEF Outside, Pcs

LEMMA ChangeCanonStep ==
  ASSUME IInv, BookAssumption, NEW w \in Workers, ChangeCanon(w) PROVE IInv'
<1>0. /\ ck \in CheckpointT /\ Sound /\ May(w, "begun") /\ kept \subseteq Nat \X (Nat \ {0})
  BY DEF IInv, Typed, ChangeCanon
<1>1. PICK given \in {"canon", "none"}, canon \in Nat : ck' = [ck EXCEPT !.canon = canon, !.given = given]
  <2>1. ck.canon \in Nat /\ ck.canon + 1 \in Nat
    BY <1>0 DEF CheckpointT
  <2>2. [ck EXCEPT !.given = "canon"] = [ck EXCEPT !.canon = ck.canon, !.given = "canon"]
    BY <1>0 DEF CheckpointT
  <2>3. \/ ck' = [ck EXCEPT !.given = "canon"]
        \/ ck' = [ck EXCEPT !.canon = ck.canon + 1, !.given = "none"]
    BY DEF ChangeCanon, Drive
  <2> QED
    BY <2>1, <2>2, <2>3
<1>2. ck' \in CheckpointT
  BY <1>0, <1>1 DEF CheckpointT, Given0
<1>3. Sound'
  BY <1>0, <1>1 DEF Sound, DraftOK, ReviewOK, PagesOK, EndOK, CheckpointT, ChangeCanon, Drive
<1> QED
  BY <1>0, <1>2, <1>3, DrivenKept DEF ChangeCanon, Drive, Outside, Pcs

LEMMA GatherCandidatesStep ==
  ASSUME IInv, BookAssumption, NEW w \in Workers, GatherCandidates(w) PROVE IInv'
<1>0. /\ ck \in CheckpointT /\ Sound /\ May(w, "begun") /\ kept \subseteq Nat \X (Nat \ {0})
      /\ ck' = ck
  BY DEF IInv, Typed, GatherCandidates, Drive
<1>1. Sound'
  BY <1>0 DEF Sound, DraftOK, ReviewOK, PagesOK, EndOK, GatherCandidates, Drive
<1> QED
  BY <1>0, <1>1, DrivenKept DEF GatherCandidates, Drive, Outside, Pcs

LEMMA ReviseBookStep ==
  ASSUME IInv, BookAssumption, NEW w \in Workers, ReviseBook(w) PROVE IInv'
<1>0. /\ ck \in CheckpointT /\ Sound /\ May(w, "begun") /\ kept \subseteq Nat \X (Nat \ {0})
      /\ ck.next = "END" /\ Total \in Nat
  BY DEF IInv, Typed, ReviseBook, Revisable, BookAssumption
<1>1. PICK m \in Pages :
        Drive(w, [ck EXCEPT !.next = "scene_writer", !.chapter = m,
              !.scened = TRUE, !.draft = [chapter |-> m, text |-> ck.book[m].text, checked |-> 0],
              !.revisions = 0, !.err = FALSE, !.revising = TRUE, !.audited = FALSE,
              !.chosen = NoContext, !.given = "none"], "driving")
  BY DEF ReviseBook
<1>2. /\ NoContext \in PlaceT /\ m \in 1 .. Total + 1
      /\ [chapter |-> m, text |-> ck.book[m].text, checked |-> 0] \in DraftT
  <2>1. m \in 1 .. Total + 1 /\ m \in Nat
    BY <1>0 DEF Pages
  <2>2. ck.book \in [Pages -> PageT]
    BY <1>0 DEF CheckpointT
  <2>3. ck.book[m].text \in Nat
    BY <2>2 DEF PageT
  <2>4. NoContext \in PlaceT
    BY DEF NoContext, PlaceT
  <2> QED
    BY <2>1, <2>3, <2>4 DEF DraftT
<1>3. ck' \in CheckpointT
  BY <1>0, <1>1, <1>2 DEF Drive, CheckpointT, Nodes, Given0
<1>4. /\ ck'.next = "scene_writer" /\ ck'.chapter = m /\ ck'.audited = FALSE
      /\ ck'.book = ck.book /\ UNCHANGED chapters
  BY <1>0, <1>1 DEF Drive, CheckpointT
<1>5. Sound'
  <2>1. DraftOK' /\ ReviewOK' /\ EndOK'
    BY <1>4 DEF DraftOK, ReviewOK, EndOK, Drafted
  <2>2. \A n \in Pages : chapters[n] = ck.book[n].text /\ ck.book[n].text # 0
    BY <1>0 DEF Sound, PagesOK, EndOK, Pages
  <2>3. PagesOK'
    BY <1>0, <1>4, <2>2 DEF Sound, PagesOK
  <2> QED
    BY <2>1, <2>3 DEF Sound
<1> QED
  BY <1>0, <1>1, <1>3, <1>5, DrivenKept DEF Drive, Outside, Pcs

LEMMA ReportOnlyStep ==
  ASSUME IInv, BookAssumption, NEW w \in Workers, ReportOnly(w) PROVE IInv'
<1>0. /\ ck \in CheckpointT /\ Sound /\ May(w, "begun") /\ hand[w].pc # "idle" /\ Moves(w)
  BY Driving DEF IInv, Typed, ReportOnly, Outside
<1>1. /\ jobs' \in [1 .. MaxJobs -> RowT] /\ hand' \in [Workers -> HandT]
      /\ \A v \in Workers : hand'[v].pc # "idle" => hand'[v].job \in 1 .. MaxJobs
      /\ hand'[w].pc = "idle" /\ \A v \in Workers \ {w} : hand'[v] = hand[v]
  BY <1>0, FinishTyped DEF IInv, ReportOnly, Statuses, Ends
<1>2. ck' \in CheckpointT
  BY <1>0 DEF ReportOnly, CheckpointT, Given0
<1>3. Typed' /\ HandMoved(w)
  BY <1>1, <1>2 DEF IInv, Typed, ReportOnly, HandMoved, Leaves, Outside
<1>4. Alone' /\ Between'
  BY <1>0, <1>1, <1>3, AloneKept, BetweenKept DEF IInv
<1>5. Sound'
  BY <1>0 DEF Sound, DraftOK, ReviewOK, PagesOK, EndOK, CheckpointT, ReportOnly
<1>6. DocumentWhole'
  BY DEF IInv, DocumentWhole, ReportOnly
<1> QED
  BY <1>3, <1>4, <1>5, <1>6 DEF IInv

LEMMA DraftCandidateStep ==
  ASSUME IInv, BookAssumption, NEW w \in Workers, DraftCandidate(w) PROVE IInv'
<1>1. Context \in PlaceT /\ texts + 1 \in Nat \ {0}
  BY DEF IInv, Typed, Context, PlaceT, CheckpointT, DraftT, BookAssumption
<1>2. offers' \subseteq [from : PlaceT, text : Nat \ {0}]
  BY <1>1 DEF IInv, Typed, DraftCandidate
<1>3. Typed'
  BY <1>1, <1>2 DEF IInv, Typed, DraftCandidate
<1> QED
  BY <1>3, QuietKept DEF DraftCandidate

-----------------------------------------------------------------------------
(* The invariant, and what it says of the book.                             *)

LEMMA InitHolds == BookAssumption /\ Init => IInv
<1> SUFFICES ASSUME BookAssumption, Init PROVE IInv
  OBVIOUS
<1>1. NoRow \in RowT /\ Idle \in HandT /\ Idle.pc = "idle"
  BY DEF NoRow, RowT, Statuses, Idle, HandT, Pcs
<1>2. /\ NoCheckpoint \in CheckpointT /\ NoCheckpoint.next = "none" /\ NoCheckpoint.chapter = 1
      /\ NoCheckpoint.revising = FALSE /\ NoCheckpoint.audited = FALSE
      /\ \A n \in Pages : NoCheckpoint.book[n] = Unwritten
  BY FreshSound
<1>3. Typed
  BY <1>1, <1>2 DEF Init, Typed
<1>4. Alone /\ Between
  BY <1>1 DEF Init, Alone, Between, Outside
<1>5. PagesOK
  <2>1. \A n \in Pages : n >= 1 /\ Unwritten.text = 0
    BY DEF Pages, Unwritten
  <2> QED
    BY <1>2, <2>1 DEF Init, PagesOK, Unwritten, Pages
<1>6. Sound
  BY <1>2, <1>5 DEF Init, Sound, DraftOK, ReviewOK, EndOK, Chaptered, Drafted
<1>7. DocumentWhole
  BY DEF Init, DocumentWhole
<1> QED
  BY <1>3, <1>4, <1>6, <1>7 DEF IInv

LEMMA StepHolds == BookAssumption /\ IInv /\ [Next]_vars => IInv'
<1> SUFFICES ASSUME BookAssumption, IInv, [Next]_vars PROVE IInv'
  OBVIOUS
<1>1. CASE UNCHANGED vars
  <2>1. Typed' /\ UNCHANGED <<hand, ck, chapters, commits>>
    BY <1>1 DEF vars, IInv, Typed
  <2> QED
    BY <2>1, QuietKept
<1>2. ASSUME NEW w \in Workers, Graph(w) PROVE IInv'
  BY <1>2, OrchestratorStep, BuildersStep, PlanningReviewStep, ScenePlannerStep,
     SceneWriterStep, SceneRewriterStep, StyleEditorStep, ConsistencyCheckerStep,
     AskReviewStep, PublishStep, ReviseStep, RecheckStep, CanonUpdateStep, RestoreSteps,
     ApproveSavesStep, ApproveDoneStep, ApproveFailsStep, BookAuditorStep, ContentCommitStep
     DEF Graph
<1>3. ASSUME NEW w \in Workers,
             \/ \E j \in 1 .. MaxJobs : Claim(w, j)
             \/ Leave(w) \/ Cancelled(w) \/ FailJob(w) \/ RetryLater(w)
             \/ TakeLock(w) \/ Begin(w) \/ Rebrief(w) \/ Reject(w)
             \/ ContinueGraph(w) \/ ChangeCanon(w) \/ ReviseBook(w) \/ ReportOnly(w)
             \/ GatherCandidates(w) \/ DraftCandidate(w) \/ HandIn(w)
      PROVE  IInv'
  BY <1>3, ClaimStep, LeaveStep, EndSteps, TakeLockStep, BeginStep, RebriefStep,
     ContinueGraphStep, ChangeCanonStep, ReviseBookStep, ReportOnlyStep,
     GatherCandidatesStep, DraftCandidateStep
<1> QED
  BY <1>1, <1>2, <1>3, ControlSteps DEF Next

\* The checkpoint that one process at a time drives is sound between any two of
\* its steps, whatever jobs are cancelled, reclaimed, answered or submitted.
THEOREM BooksSound == ASSUME BookAssumption PROVE Spec => []IInv
BY InitHolds, StepHolds, PTL DEF Spec

\* A chapter is in the book only with a check under the brief it was approved
\* under, although briefs change under drafts (bring_up_to_brief, human_review).
THEOREM BriefsChecked == ASSUME BookAssumption PROVE Spec => []CheckedUnderItsBrief
<1>1. IInv => CheckedUnderItsBrief
  BY DEF IInv, Typed, Sound, PagesOK, CheckedUnderItsBrief, CheckpointT
<1> QED
  BY <1>1, BooksSound, PTL

\* A document a job commits has every chapter, as audited and as saved, although
\* an approval is two writes that may part (approve_chapter, ContentCommit).
THEOREM DocumentsWhole == ASSUME BookAssumption PROVE Spec => []DocumentWhole
<1>1. IInv => DocumentWhole
  BY DEF IInv
<1> QED
  BY <1>1, BooksSound, PTL
=============================================================================
