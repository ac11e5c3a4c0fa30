------------------------------ MODULE Creation ------------------------------
(***************************************************************************)
(* The creations of a project: generate_content (execution/handlers.py) and  *)
(* its graph (workflows/content/graph.py).  A claim plans, writes and reviews *)
(* from the start, each stage a model call that is asked again once if its   *)
(* answer cannot be read; the draft is put in the object store and either    *)
(* published or shown to a human, whose approval publishes it and whose      *)
(* feedback starts another.  What was paid for all of the project's calls is *)
(* looked at before a call and recorded after it.  A thread that outlives its *)
(* handler is a process that has yet to leave.  That Control has committed   *)
(* the version before (committed_version) is left out: the job publishes it. *)
(***************************************************************************)
EXTENDS ContentAdapters

CONSTANTS
  Workers,
  Works,                          \* the jobs, creations of one project
  Drafts, Weak,                   \* what models write; what the policy's gate fails of it
  Source, Structured, Adapting,   \* the frozen source, and what kind of text it is
  Stages,                         \* request["nodes"]
  Limit, Costs, MaxCost,          \* max_project_tokens (0: no limit), tokens of a call
  MaxAttempts,                    \* worker_max_attempts
  MaxClaims                       \* bound: claims of a job

CreationAssumption ==
  /\ AdapterAssumption
  /\ IsFiniteSet(Works) /\ None \notin Works
  /\ \A d \in Drafts \cup ({Source} \ {None}) : IsDocument(d)
  /\ Structured \in BOOLEAN /\ Adapting \in BOOLEAN
  /\ Stages \in {<<"plan", "write", "review">>, <<"write", "review">>}
  /\ Limit \in Nat /\ MaxCost \in Nat /\ Costs \subseteq 0 .. MaxCost

VARIABLES
  rows,     \* runtime_jobs: [status, fence, live, answer, draft, agreed], draft being
            \* the content_commit in its result; agreed is history: the version a
            \* human was shown and approved
  writer,   \* what each process does: [work, fence, answer, at, stage, try, draft, outcome]
  spent,    \* the tokens of the project's model_calls
  calls,    \* and of which job, claim and stage they are
  stored    \* the documents in the object store: [work, version, text]

vars == <<rows, writer, spent, calls, stored>>
kept == <<spent, calls, stored>>

\* A version is uuid5 of the job and the token; liked is history: whether the model
\* that reviewed it approved.
NoDraft == [version |-> 0, text |-> None, liked |-> FALSE]
Idle == [work |-> None, fence |-> 0, answer |-> "none", at |-> "idle", stage |-> 1, try |-> 1,
         draft |-> NoDraft, outcome |-> None]
Outcomes == {"completed", "failed", "accepted", "waiting_review"}

TypeOK ==
  /\ \A j \in Works :
       /\ rows[j].status \in {"none", "running", "cancel_requested", "cancelled"} \cup Outcomes
       /\ rows[j].fence \in 0 .. MaxClaims /\ rows[j].answer \in {"none", "approve", "revise"}
  /\ \A w \in Workers :
       writer[w].at \in {"idle", "begin", "recall", "check", "ask", "record", "upload", "artifact", "finish"}
  /\ spent \in Nat

Init ==
  /\ rows = [j \in Works |-> [status |-> "none", fence |-> 0, live |-> FALSE, answer |-> "none",
                              draft |-> NoDraft, agreed |-> 0]]
  /\ writer = [w \in Workers |-> Idle]
  /\ spent = 0 /\ calls = {} /\ stored = {}

-----------------------------------------------------------------------------
(* The job: submitted, cancelled, answered, claimed, taken away.            *)

Submit(j) ==
  /\ rows[j].status = "none"
  /\ rows' = [rows EXCEPT ![j].status = "accepted"]
  /\ UNCHANGED <<writer, kept>>
AskCancel(j) ==
  /\ rows[j].status \in {"accepted", "waiting_review", "running"}
  /\ rows' = [rows EXCEPT ![j].status = IF @ = "running" THEN "cancel_requested" ELSE "cancelled",
                          ![j].draft = NoDraft]
  /\ UNCHANGED <<writer, kept>>
AskResume(j) ==
  /\ rows[j].status = "waiting_review"
  /\ \E answer \in {"approve", "revise"} :
       rows' = [rows EXCEPT ![j].status = "accepted", ![j].answer = answer,
                            ![j].agreed = IF answer = "approve" THEN rows[j].draft.version ELSE @]
  /\ UNCHANGED <<writer, kept>>
\* A lease runs out; the sweep of claim_next ends what was being cancelled.
Expire(j) ==
  /\ rows[j].live
  /\ rows' = [rows EXCEPT ![j].live = FALSE,
                          ![j].status = IF @ = "cancel_requested" THEN "cancelled" ELSE @]
  /\ UNCHANGED <<writer, kept>>
Claim(w, j) ==
  /\ writer[w] = Idle /\ rows[j].fence < MaxClaims
  /\ \/ rows[j].status = "accepted"
     \/ rows[j].status = "running" /\ ~ rows[j].live
  /\ rows' = [rows EXCEPT ![j].status = "running", ![j].fence = @ + 1, ![j].live = TRUE]
  /\ writer' = [writer EXCEPT ![w] = [Idle EXCEPT !.work = j, !.fence = rows[j].fence + 1, !.at = "begin",
                                                  !.answer = rows[j].answer, !.draft = rows[j].draft]]
  /\ UNCHANGED kept

\* A crash, a shutdown, a lease that is lost.
Leave(w) ==
  /\ writer[w] # Idle
  /\ writer' = [writer EXCEPT ![w] = Idle]
  /\ UNCHANGED <<rows, kept>>

Row(w) == rows[writer[w].work]
Owned(w) == Row(w).fence = writer[w].fence /\ Row(w).live
At(w, at) == writer[w].at = at
Goes(w, at) == writer' = [writer EXCEPT ![w].at = at]
\* How the handler ends, which finish has yet to write.
Ends(w, outcome) == writer' = [writer EXCEPT ![w].at = "finish", ![w].outcome = outcome]
Again(w) == IF writer[w].fence < MaxAttempts THEN "accepted" ELSE "failed"

\* finish: a cancellation overrides the outcome; only two of them have a result.
Finish(w) ==
  /\ At(w, "finish") /\ Owned(w)
  /\ LET status == IF Row(w).status = "cancel_requested" THEN "cancelled" ELSE writer[w].outcome
     IN rows' = [rows EXCEPT ![writer[w].work].status = status, ![writer[w].work].live = FALSE,
                             ![writer[w].work].draft =
                               IF status \in {"completed", "waiting_review"} THEN writer[w].draft ELSE NoDraft]
  /\ writer' = [writer EXCEPT ![w] = Idle]
  /\ UNCHANGED kept
\* A heartbeat that finds the cancellation.
Cancelled(w) ==
  /\ writer[w] # Idle /\ Owned(w) /\ Row(w).status = "cancel_requested"
  /\ rows' = [rows EXCEPT ![writer[w].work].status = "cancelled", ![writer[w].work].live = FALSE,
                          ![writer[w].work].draft = NoDraft]
  /\ writer' = [writer EXCEPT ![w] = Idle]
  /\ UNCHANGED kept

-----------------------------------------------------------------------------
(* The handler, one step for each await.                                    *)

\* The draft that the claim found in the row is published as it is, if it was
\* approved.
Begin(w) ==
  /\ At(w, "begin")
  /\ IF writer[w].draft # NoDraft /\ writer[w].answer # "revise" THEN Ends(w, "completed")
     ELSE writer' = [writer EXCEPT ![w].at = "recall", ![w].draft = NoDraft]
  /\ UNCHANGED <<rows, kept>>

\* The frozen input cannot be read or asks for what the graph does not support, the
\* source does not fit the context, a model is not configured or refuses, another
\* object is there, the database fails.
Fail(w) ==
  /\ writer[w].at \notin {"idle", "finish"}
  /\ Ends(w, "failed") /\ UNCHANGED <<rows, kept>>

\* creation_context and save_execution_plan; memory it requires may not be ready.
Recall(w) ==
  /\ At(w, "recall") /\ Owned(w)
  /\ Goes(w, "check") \/ Ends(w, Again(w))
  /\ UNCHANGED <<rows, kept>>

\* model_budget.
Unlimited == TRUE                              \* mutant: the budget is not looked at
Unspent == Limit = 0 \/ spent < Limit
Check(w) ==
  /\ At(w, "check") /\ Owned(w)
  /\ IF Unspent THEN Goes(w, "ask") ELSE Ends(w, "failed")
  /\ UNCHANGED <<rows, kept>>

\* The model, or one of its fallbacks, answers; none does, which is worth another
\* attempt if the first one's error is (Fail if it is not).
Ask(w) ==
  /\ At(w, "ask")
  /\ Goes(w, "record") \/ Ends(w, Again(w))
  /\ UNCHANGED <<rows, kept>>

Stage(w) == Stages[writer[w].stage]
Onward(w, draft) ==
  writer' = [writer EXCEPT ![w].at = IF writer[w].stage = Len(Stages) THEN "upload" ELSE "check",
                           ![w].stage = @ + 1, ![w].try = 1, ![w].draft = draft]
\* An answer that cannot be read is asked for again, once.
Unreadable(w) ==
  IF writer[w].try = 1 THEN writer' = [writer EXCEPT ![w].at = "check", ![w].try = 2]
                       ELSE Ends(w, "failed")

\* The call is recorded, and then its answer read.
Record(w) ==
  /\ At(w, "record") /\ Owned(w)
  /\ \E cost \in Costs : spent' = spent + cost
  /\ calls' = calls \cup {<<writer[w].work, writer[w].fence, Stage(w)>>}
  /\ \/ Unreadable(w)
     \/ Stage(w) = "plan" /\ Onward(w, NoDraft)
     \/ /\ Stage(w) = "write"
        /\ \E text \in Drafts : Onward(w, [version |-> writer[w].fence, text |-> text, liked |-> FALSE])
     \/ Stage(w) = "review" /\ \E liked \in BOOLEAN : Onward(w, [writer[w].draft EXCEPT !.liked = liked])
  /\ UNCHANGED <<rows, stored>>

\* upload: with If-None-Match.
Upload(w) ==
  LET draft == writer[w].draft IN
  /\ At(w, "upload")
  /\ \A o \in stored : o.work = writer[w].work /\ o.version = draft.version => o.text = draft.text
  /\ stored' = stored \cup {[work |-> writer[w].work, version |-> draft.version, text |-> draft.text]}
  /\ Goes(w, "artifact")
  /\ UNCHANGED <<rows, spent, calls>>

\* approved: by the model, without findings, and through the policy's gate.
ApprovedByModel(draft) == draft.liked /\ draft.text \notin Weak   \* mutant: findings do not count
Approved(draft) ==
  /\ draft.liked /\ draft.text \notin Weak
  /\ Findings(draft.text, Source, Structured, Adapting) = {}

\* record_artifact, which is refused under a cancellation.
Artifact(w) ==
  /\ At(w, "artifact") /\ Owned(w) /\ Row(w).status = "running"
  /\ Ends(w, IF Approved(writer[w].draft) THEN "completed" ELSE "waiting_review")
  /\ UNCHANGED <<rows, kept>>

Next ==
  \/ \E j \in Works : Submit(j) \/ AskCancel(j) \/ AskResume(j) \/ Expire(j)
  \/ \E w \in Workers :
       \/ \E j \in Works : Claim(w, j)
       \/ Leave(w) \/ Cancelled(w) \/ Finish(w)
       \/ Begin(w) \/ Fail(w) \/ Recall(w) \/ Check(w) \/ Ask(w) \/ Record(w)
       \/ Upload(w) \/ Artifact(w)

Spec == Init /\ [][Next]_vars

-----------------------------------------------------------------------------
\* The project's tokens go beyond the limit by less than one call of each creation,
\* however many of them looked at the budget before any recorded.
BudgetKept == Limit # 0 => spent < Limit + MaxCost * Cardinality(Works)
\* A draft that a human is shown, or that is published, is the document under its
\* version, and each stage it came through is accounted for.
DraftsBacked ==
  \A j \in Works : LET draft == rows[j].draft IN
    draft # NoDraft =>
      /\ \A o \in stored : o.work = j /\ o.version = draft.version => o.text = draft.text
      /\ [work |-> j, version |-> draft.version, text |-> draft.text] \in stored
      /\ \A i \in DOMAIN Stages : <<j, draft.version, Stages[i]>> \in calls
\* What is published a human approved, that very version; or no human was needed:
\* the model approved it, and it holds together.
PublishedSoundly ==
  \A j \in Works : rows[j].status = "completed" =>
    LET draft == rows[j].draft IN
      /\ draft # NoDraft
      /\ \/ rows[j].agreed = draft.version
         \/ /\ draft.liked /\ draft.text \notin Weak
            /\ Sound(draft.text, Source, Structured, Adapting)
CreatedSoundly == BudgetKept /\ DraftsBacked /\ PublishedSoundly
=============================================================================
