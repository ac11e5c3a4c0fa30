--------------------------- MODULE GeneratedMedia ---------------------------
(***************************************************************************)
(* An image, a voice, music or a sound made by one synchronous, paid call:  *)
(* workflows/media/generated.py and the generated_media_tasks row of        *)
(* PostgresGeneratedMediaStore.                                             *)
(*                                                                         *)
(* The row says "submitting" before the one POST; what it returned is       *)
(* archived, then a receipt of it, then the row confirms it.  A later claim *)
(* that finds no confirmation looks for the receipt and never asks again.   *)
(* Store calls and uploads run in threads and may take effect after their   *)
(* handler is gone; only the former ask for the lease.                      *)
(***************************************************************************)
EXTENDS MediaAnswers

CONSTANTS Workers, MaxClaims

VARIABLES
  job, hand,   \* of LeasedJob
  task,        \* the row: [state, approved, fence]
  provider,    \* [posts, made]: POSTs it received, products it made
  archive,     \* what the object store holds: "outputs", "receipt", "document"
  usage,       \* model_calls: rows written for this job
  step,        \* where each process is
  late         \* calls in threads whose handler is gone, as <<call, fence>>

J == INSTANCE LeasedJob
mediaVars == <<task, provider, archive, usage, step, late>>
vars == <<job, hand, mediaVars>>

Unanswered == {"submitting", "submission_unknown"}
StoreCalls == {"reserve_ok", "reserve_no", "approve_plan", "get", "begin_submit",
               "mark_unknown", "preserve", "rejected", "archived"}
Uploads == {"outputs", "receipt"}
Creating == {"post", "made", "refused"} \cup Uploads
Steps == StoreCalls \cup Uploads
           \cup {"idle", "load", "start", "plan", "post", "made", "refused", "recover",
                 "publish", "wait", "fail", "stop"}

TypeOK ==
  /\ J!TypeOK
  /\ task.state \in {"none", "prepared", "outputs_ready", "failed", "cancelled"} \cup Unanswered
  /\ task.approved \in {"no", "model", "user"} /\ task.fence \in 0 .. job.fence
  /\ archive \subseteq Uploads \cup {"document"}
  /\ step \in [Workers -> Steps]
  /\ late \subseteq (StoreCalls \cup Uploads) \X (1 .. MaxClaims)

Init ==
  /\ J!Init
  /\ task = [state |-> "none", approved |-> "no", fence |-> 0]
  /\ provider = [posts |-> 0, made |-> 0]
  /\ archive = {}
  /\ usage = 0
  /\ step = [w \in Workers |-> "idle"]
  /\ late = {}

-----------------------------------------------------------------------------
(* The store: the rows a call of claim f may leave, none when it refuses.    *)

Write(f, to) == [task EXCEPT !.state = to, !.fence = f]
From(states, row) == {row : s \in {task.state} \cap states}

GetAgain(f) ==                          \* mutant: a dead worker's call is repeated
  {IF task.state = "submitting" /\ task.fence # f THEN Write(f, "prepared") ELSE task}
\* get: a call begun under another claim has an unknown outcome.
Get(f) ==
  {IF task.state = "submitting" /\ task.fence # f THEN Write(f, "submission_unknown") ELSE task}
Reserve(f, by) ==
  IF task.state = "none" THEN {[state |-> "prepared", approved |-> by, fence |-> f]} ELSE Get(f)

\* archived: confirming the same outputs again changes nothing.
Archived(f) ==
  From({"outputs_ready"}, task) \cup From(Unanswered, Write(f, "outputs_ready"))

Stored(call, f) ==
  CASE call = "get" -> Get(f)
    [] call = "reserve_ok" -> Reserve(f, "model")
    [] call = "reserve_no" -> Reserve(f, "no")
    [] call = "approve_plan" -> From({"prepared"}, [Write(f, "prepared") EXCEPT !.approved = "user"])
    [] call = "begin_submit" ->
         {r \in From({"prepared"}, Write(f, "submitting")) : task.approved # "no"}
    [] call \in {"mark_unknown", "preserve"} -> From(Unanswered, Write(f, "submission_unknown"))
    [] call = "rejected" -> From({"submitting"}, Write(f, "failed"))
    [] call = "archived" -> Archived(f)

\* One transaction; the use of a confirmed call is recorded once.
Commit(call, row) ==
  /\ task' = row
  /\ usage' = IF call = "archived" /\ task.state # "outputs_ready" THEN usage + 1 ELSE usage

\* What a thread does when its handler is gone: nobody hears of a failure.
LateTakesEffect ==
  \E c \in late :
    /\ late' = late \ {c}
    /\ IF c[1] \in Uploads
       THEN archive' = archive \cup {c[1]} /\ UNCHANGED <<task, usage>>
       ELSE /\ UNCHANGED archive
            /\ IF J!Good(c[2]) /\ Stored(c[1], c[2]) # {}
               THEN \E row \in Stored(c[1], c[2]) : Commit(c[1], row)
               ELSE UNCHANGED <<task, usage>>
    /\ UNCHANGED <<job, hand, provider, step>>

-----------------------------------------------------------------------------
(* The job: claimed, cancelled, resumed, finished.                           *)

\* _media_cancellation_payload, in each transaction that asks for the
\* cancellation or settles it.
CancelledAtOnce ==                      \* mutant: an unanswered call is written off
  IF task.state \in {"prepared", "submitting"} THEN "cancelled" ELSE task.state
SettledState ==
  CASE task.state = "prepared" -> "cancelled"
    [] task.state = "submitting" -> "submission_unknown"
    [] OTHER -> task.state
Settles == task' = IF job'.status # job.status /\ job'.status \in {"cancel_requested", "cancelled"}
                   THEN [task EXCEPT !.state = SettledState] ELSE task

Outside ==
  /\ J!Accept("accepted") \/ J!Sweep \/ J!AskCancel \/ J!Expire \/ J!AskResume("approve")
  /\ Settles
  /\ UNCHANGED <<provider, archive, usage, step, late>>

Claim(w) ==
  /\ job.fence < MaxClaims
  /\ J!Claim(w)
  /\ step' = [step EXCEPT ![w] = "load"]
  /\ UNCHANGED <<task, provider, archive, usage, late>>

Ends(w, s) ==
  /\ IF J!Good(hand[w]) THEN J!Finish(w, s) /\ Settles ELSE J!Leave(w) /\ UNCHANGED task
  /\ step' = [step EXCEPT ![w] = "idle"]
  /\ UNCHANGED <<provider, archive, usage, late>>

At(w, s) == hand[w] # 0 /\ step[w] = s
Goto(w, s) ==
  /\ step' = [step EXCEPT ![w] = s]
  /\ UNCHANGED <<job, hand, task, provider, archive, usage, late>>

\* The heartbeat cancels the handler (a cancel, a lost lease) or the process
\* shuts down: a thread goes on; out of the paid call the doubt is stored first.
Interrupt(w) ==
  /\ hand[w] # 0 /\ step[w] # "stop"
  /\ late' = IF step[w] \in StoreCalls \cup Uploads
             THEN late \cup {<<step[w], hand[w]>>} ELSE late
  /\ step' = [step EXCEPT ![w] = IF @ \in Creating THEN "preserve" ELSE "stop"]
  /\ UNCHANGED <<job, hand, task, provider, archive, usage>>
Stop(w) ==
  /\ At(w, "stop")
  /\ IF job.status = "cancel_requested" THEN Ends(w, "cancelled")
     ELSE /\ J!Leave(w)
          /\ step' = [step EXCEPT ![w] = "idle"]
          /\ UNCHANGED <<task, provider, archive, usage, late>>
Crash(w) ==
  /\ J!Leave(w)
  /\ step' = [step EXCEPT ![w] = "idle"]
  /\ late' = IF step[w] \in StoreCalls \cup Uploads
             THEN late \cup {<<step[w], hand[w]>>} ELSE late
  /\ UNCHANGED <<task, provider, archive, usage>>

-----------------------------------------------------------------------------
(* The handler.                                                              *)

\* generate_content loads the frozen input before it knows what job it is: an
\* object store that does not answer fails the job.
Load(w) == At(w, "load") /\ (Goto(w, "start") \/ Ends(w, "failed"))

\* _generate_asset up to execute_generated_media, given the row of store.get.
Begin(w) ==
  /\ At(w, "start") /\ J!Good(hand[w])
  /\ \E row \in Get(hand[w]) :
       /\ task' = row
       /\ step' = [step EXCEPT ![w] =
            CASE row.state = "none" -> "plan"
              [] row.state = "prepared" /\ row.approved = "no" /\ job.resume = "approve"
                   -> "approve_plan"
              [] OTHER -> "get"]
  /\ UNCHANGED <<job, hand, provider, archive, usage, late>>

\* A plan and its review; the model's failures are retried or final.
Plan(w) ==
  /\ At(w, "plan")
  /\ \/ \E s \in {"reserve_ok", "reserve_no"} : Goto(w, s)
     \/ \E s \in {"accepted", "failed"} : Ends(w, s)

\* The row execute_generated_media has read decides.
Execute(row) ==
  CASE row.state = "outputs_ready" -> "publish"
    [] row.state \in Unanswered -> "recover"
    [] row.state = "prepared" /\ row.approved # "no" -> "begin_submit"
    [] row.state = "prepared" /\ row.approved = "no" -> "wait"
    [] OTHER -> "fail"
After(call, row) ==
  CASE call = "get" -> Execute(row)
    [] call \in {"reserve_ok", "approve_plan"} -> "get"
    [] call = "begin_submit" -> "post"
    [] call = "archived" -> "publish"
    [] call \in {"reserve_no", "mark_unknown"} -> "wait"
    [] call = "preserve" -> "stop"
    [] call = "rejected" -> "fail"

\* A ValueError of the store fails the job; what is archived is kept for a resume.
Refused(call) ==
  CASE call \in {"archived", "mark_unknown"} -> "wait"
    [] call = "preserve" -> "stop"
    [] OTHER -> "fail"

\* A store call is answered, or refuses, or finds the lease lost, or is left without an
\* answer, and may then take effect all the same.
Call(w) ==
  /\ hand[w] # 0 /\ step[w] \in StoreCalls
  /\ \/ /\ J!Good(hand[w])
        /\ \E row \in Stored(step[w], hand[w]) :
             /\ Commit(step[w], row)
             /\ step' = [step EXCEPT ![w] = After(@, row)]
        /\ UNCHANGED <<job, hand, provider, archive, late>>
     \/ J!Good(hand[w]) /\ Stored(step[w], hand[w]) = {} /\ Goto(w, Refused(step[w]))
     \/ ~J!Good(hand[w]) /\ Goto(w, "stop")
     \/ /\ step' = [step EXCEPT ![w] = IF @ = "preserve" THEN "stop" ELSE "wait"]
        /\ late' = late \cup {<<step[w], hand[w]>>}
        /\ UNCHANGED <<job, hand, task, provider, archive, usage>>

\* The one POST; afterwards the provider has made something, or nothing.
Post(w) ==
  /\ At(w, "post")
  /\ \E made \in {0, 1} :
       /\ provider' = [posts |-> provider.posts + 1, made |-> provider.made + made]
       /\ step' = [step EXCEPT ![w] = IF made = 1 THEN "made" ELSE "refused"]
  /\ UNCHANGED <<job, hand, task, archive, usage, late>>

NoAnswer(w) == Goto(w, "mark_unknown")
\* What the adapter hears: only a refusal is known to have made nothing; a lost
\* answer, or a product too large or unreadable, leaves the outcome open.
Answer(w) ==
  \E said \in {"product", "refusal", "doubt"} :
    /\ \/ At(w, "made") /\ said \in HeardWhenMade
       \/ At(w, "refused") /\ said \in HeardWhenNot
    /\ \/ said = "product" /\ Goto(w, "outputs")
       \/ said = "refusal" /\ Goto(w, "rejected")
       \/ said = "doubt" /\ NoAnswer(w)

Put(w, objects, next) ==
  /\ archive' = archive \cup objects
  /\ step' = [step EXCEPT ![w] = next]
  /\ UNCHANGED <<job, hand, task, provider, usage, late>>
\* record_artifact asks for a lease nobody wants back.
MayRecord(w) == J!Good(hand[w]) /\ job.status = "running"

UploadTogether(w) ==                    \* mutant: the receipt before the products
  \/ At(w, "outputs") /\ Put(w, {"receipt"}, "receipt")
  \/ At(w, "receipt") /\ Put(w, {"outputs"}, "archived")
  \/ (At(w, "outputs") \/ At(w, "receipt")) /\ NoAnswer(w)
\* The products, each recorded, then their receipt; either upload may fail.
Upload(w) ==
  \/ At(w, "outputs") /\ Put(w, {"outputs"}, IF MayRecord(w) THEN "receipt" ELSE "stop")
  \/ At(w, "receipt") /\ Put(w, {"receipt"}, "archived")
  \/ (At(w, "outputs") \/ At(w, "receipt")) /\ NoAnswer(w)

\* recover: the receipt and the products it names, if they can be read.
Recover(w) ==
  /\ At(w, "recover")
  /\ \/ {"outputs", "receipt"} \subseteq archive /\ Goto(w, "archived")
     \/ Goto(w, "wait")

\* The document is put together from the row, uploaded and recorded; storage or
\* a database that does not answer asks for a resume.
Publish(w) ==
  /\ At(w, "publish")
  /\ \/ /\ archive' = archive \cup {"document"}
        /\ IF MayRecord(w)
           THEN J!Finish(w, "completed") /\ step' = [step EXCEPT ![w] = "idle"]
           ELSE step' = [step EXCEPT ![w] = "stop"] /\ UNCHANGED <<job, hand>>
        /\ UNCHANGED <<task, provider, usage, late>>
     \/ Goto(w, "wait")

Return(w) ==
  \/ At(w, "wait") /\ Ends(w, "waiting_review")
  \/ At(w, "fail") /\ Ends(w, "failed")

Handler(w) == \/ Load(w) \/ Begin(w) \/ Plan(w) \/ Call(w) \/ Post(w) \/ Answer(w)
              \/ Upload(w) \/ Recover(w) \/ Publish(w) \/ Return(w)
Next ==
  \/ Outside \/ LateTakesEffect
  \/ \E w \in Workers : Claim(w) \/ Handler(w) \/ Interrupt(w) \/ Stop(w) \/ Crash(w)

Spec == Init /\ [][Next]_vars

-----------------------------------------------------------------------------
(* What must hold.                                                         *)

\* The provider is asked at most once for a job, and only for a plan that a
\* review or a user approved, whatever crashes, expires, commits late or is
\* resumed (image-speech-models.md: an approve does not repeat the POST).
PaidOnce == provider.posts =< 1 /\ (provider.posts = 1 => task.approved # "no")

\* Nothing paid for is written off: a row that says cancelled or failed means
\* the provider made nothing, a job whose doubt is open did not complete, a
\* receipt is never there without its products nor a confirmed row without a
\* receipt, and the use is recorded exactly once, by whichever of the calls that
\* race to confirm it comes first.
DoubtKept ==
  /\ task.state \in {"cancelled", "failed"} => provider.made = 0
  /\ job.status = "completed" => task.state = "outputs_ready"
  /\ "receipt" \in archive => "outputs" \in archive
  /\ task.state = "outputs_ready" => "receipt" \in archive
  /\ usage = IF task.state = "outputs_ready" THEN 1 ELSE 0

\* "a process that stops after archiving, before the database commits, is
\* recovered from the receipt and published" (image-speech-models.md): a job
\* whose products are archived does not end failed.
ArchivedNotFailed == "receipt" \in archive => job.status # "failed"
=============================================================================
