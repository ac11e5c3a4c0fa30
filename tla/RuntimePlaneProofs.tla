-------------------------- MODULE RuntimePlaneProofs --------------------------
(***************************************************************************)
(* What the Runtime's media jobs promise: PaidOnce and DoubtKept of          *)
(* GeneratedMedia, for any number of processes and claims, CreatedSoundly of *)
(* Creation, for any drafts, limits and creations, and the promises of every *)
(* part carried to the whole, in which each step is a step of one part and a *)
(* stutter of the others (PartsWithin).  The other parts' own theorems are in *)
(* CompositionProofs, MediaTaskProofs and NovelProofs.                       *)
(***************************************************************************)
EXTENDS RuntimePlane, FiniteSetTheorems, TLAPS

States == {"none", "prepared", "outputs_ready", "failed", "cancelled"} \cup Unanswered
Rows == [state : States, approved : {"no", "model", "user"}, fence : Nat]
JobRows == [status : {"none", "accepted", "waiting_review"} \cup J!Leased \cup J!Ends,
            fence : Nat, live : BOOLEAN, resume : J!Actions \cup {"none"}]

Typed ==
  /\ job \in JobRows /\ hand \in [Workers -> Nat]
  /\ task \in Rows /\ provider \in [posts : Nat, made : Nat] /\ usage \in Nat
  /\ archive \subseteq Uploads \cup {"document"}
  /\ step \in [Workers -> Steps]
  /\ late \subseteq (StoreCalls \cup Uploads) \X Nat

Early == {"none", "prepared"}
Closed == {"failed", "cancelled"}

\* A process is about to post only after the row has left "prepared", which it
\* does once; so nobody else is, and nobody was before.
PostOK ==
  /\ provider.posts =< 1
  /\ task.state \in Early => provider.posts = 0
  /\ provider.posts = 1 => task.approved # "no"
  /\ \A w \in Workers : step[w] = "post" =>
       /\ provider.posts = 0 /\ task.approved # "no" /\ task.state \notin Early \cup Closed
       /\ \A v \in Workers : step[v] = "post" => v = w

\* Whoever reports a refusal, now or late, has seen one, and nobody posts again.
NothingMade == provider.posts = 1 /\ provider.made = 0
RefusalOK ==
  /\ provider.made =< provider.posts
  /\ task.state \in Closed => provider.made = 0
  /\ \A w \in Workers : step[w] \in {"refused", "rejected"} => NothingMade
  /\ \A c \in late : c[1] = "rejected" => NothingMade

\* Products, receipt, confirmation, use: each is there before whoever takes the
\* next step, now or late.
ArchiveOK ==
  /\ "receipt" \in archive => "outputs" \in archive
  /\ task.state = "outputs_ready" => "receipt" \in archive
  /\ \A w \in Workers : /\ step[w] = "receipt" => "outputs" \in archive
                        /\ step[w] = "archived" => "receipt" \in archive
                        /\ step[w] = "publish" => task.state = "outputs_ready"
  /\ \A c \in late : /\ c[1] = "receipt" => "outputs" \in archive
                     /\ c[1] = "archived" => "receipt" \in archive
  /\ job.status = "completed" => task.state = "outputs_ready"
  /\ usage = IF task.state = "outputs_ready" THEN 1 ELSE 0

IInv == Typed /\ PostOK /\ RefusalOK /\ ArchiveOK

-----------------------------------------------------------------------------
(* What a transaction may do to the row.                                   *)

\* The moves of the row by store calls: only begin_submit leaves "prepared" for
\* a POST, only rejected ends it failed, only archived confirms it.
MovedBy(call, row) ==
  /\ row \in Rows
  /\ row.state \in Early => task.state \in Early
  /\ task.state # "none" /\ task.approved # "no" => row.approved # "no"
  /\ call = "begin_submit" =>
       task.state = "prepared" /\ row.approved # "no" /\ row.state = "submitting"
  /\ row.state \in Closed => row.state = task.state \/ call = "rejected"
  /\ task.state = "outputs_ready" => row.state = "outputs_ready"
  /\ call = "archived" => row.state = "outputs_ready"
  /\ row.state = "outputs_ready" => task.state = "outputs_ready" \/ call = "archived"

LEMMA StoredRows ==
  ASSUME Typed, NEW call \in StoreCalls, NEW f \in Nat, NEW row \in Stored(call, f)
  PROVE  MovedBy(call, row)
<1> USE DEF Typed, MovedBy, Rows, States, Unanswered, Early, Closed
<1>1. CASE call = "get"
  BY <1>1 DEF Stored, Get, Write
<1>2. CASE call \in {"reserve_ok", "reserve_no"}
  <2>1. CASE task.state = "none"
    BY <1>2, <2>1 DEF Stored, Reserve
  <2>2. CASE task.state # "none"
    <3>1. row \in Get(f)
      BY <1>2, <2>2 DEF Stored, Reserve
    <3> QED
      BY <1>2, <3>1 DEF Get, Write
  <2> QED
    BY <2>1, <2>2
<1>3. CASE call = "approve_plan"
  BY <1>3 DEF Stored, From, Write
<1>4. CASE call = "begin_submit"
  BY <1>4 DEF Stored, From, Write
<1>5. CASE call \in {"mark_unknown", "preserve"}
  BY <1>5 DEF Stored, From, Write
<1>6. CASE call = "rejected"
  BY <1>6 DEF Stored, From, Write
<1>7. CASE call = "archived"
  BY <1>7 DEF Stored, Archived, From, Write
<1> QED
  BY <1>1, <1>2, <1>3, <1>4, <1>5, <1>6, <1>7 DEF StoreCalls

\* A cancellation moves the row as if nobody had called: a POST that may be under
\* way leaves its outcome open.
SettledOK ==
  /\ task' \in Rows /\ task'.approved = task.approved
  /\ \/ task'.state = task.state
     \/ task.state = "prepared" /\ task'.state = "cancelled"
     \/ task.state = "submitting" /\ task'.state = "submission_unknown"

LEMMA SettledRow == ASSUME Typed, Settles PROVE SettledOK
BY DEF Typed, Settles, SettledOK, SettledState, Rows, States, Unanswered

-----------------------------------------------------------------------------
(* What the job does.                                                      *)

\* Nobody but a handler completes the job.
NotCompleted == job'.status = "completed" => job.status = "completed"
JobTyped == job' \in JobRows /\ hand' \in [Workers -> Nat]

LEMMA OutsideJob ==
  ASSUME Typed, J!Accept("accepted") \/ J!Sweep \/ J!AskCancel \/ J!Expire \/ J!AskResume("approve")
  PROVE  JobTyped /\ NotCompleted
BY DEF Typed, JobTyped, NotCompleted, JobRows, J!Accept, J!Sweep, J!AskCancel, J!Expire, J!AskResume,
       J!Leased, J!Ends, J!Actions

LEMMA FinishedJob ==
  ASSUME Typed, NEW w \in Workers, NEW s \in {"accepted", "waiting_review"} \cup J!Ends, J!Finish(w, s)
  PROVE  JobTyped /\ (s # "completed" => NotCompleted)
BY DEF Typed, JobTyped, NotCompleted, JobRows, J!Finish, J!Leased, J!Ends, J!Actions

LEMMA ClaimedJob ==
  ASSUME Typed, NEW w \in Workers, J!Claim(w) \/ J!Leave(w)
  PROVE  JobTyped /\ NotCompleted
<1> USE DEF Typed, JobTyped, NotCompleted, JobRows
<1>1. CASE J!Claim(w)
  <2>1. job.fence + 1 \in Nat
    OBVIOUS
  <2>2. job' = [job EXCEPT !.status = "running", !.fence = job.fence + 1, !.live = TRUE]
    BY <1>1 DEF J!Claim
  <2>3. job' \in JobRows
    BY <2>1, <2>2 DEF J!Leased
  <2>4. hand' \in [Workers -> Nat]
    BY <1>1, <2>1 DEF J!Claim
  <2> QED
    BY <2>2, <2>3, <2>4
<1>2. CASE J!Leave(w)
  BY <1>2 DEF J!Leave
<1> QED
  BY <1>1, <1>2

-----------------------------------------------------------------------------
(* The steps, by what they touch.                                          *)

\* A process moves to where nothing is claimed, or stays, its call in a thread
\* may go on, and the row is settled.
Harmless == Steps \ {"post", "refused", "rejected", "receipt", "archived", "publish"}
LEMMA StepAway ==
  ASSUME IInv, NEW w \in Workers, NEW s \in Harmless,
         step' = [step EXCEPT ![w] = s] \/ step' = step,
         \/ late' = late
         \/ step[w] \in StoreCalls \cup Uploads /\ late' = late \cup {<<step[w], hand[w]>>},
         SettledOK, JobTyped, NotCompleted, UNCHANGED <<provider, archive, usage>>
  PROVE  IInv'
<1> USE DEF IInv
<1>1. Typed'
  BY DEF Typed, SettledOK, JobTyped, Harmless
<1>2. PostOK'
  BY DEF Typed, PostOK, SettledOK, Harmless, Early, Closed, Rows
<1>3. RefusalOK'
  BY DEF Typed, PostOK, RefusalOK, NothingMade, SettledOK, Harmless, Early, Closed
<1>4. ArchiveOK'
  BY DEF Typed, ArchiveOK, SettledOK, NotCompleted, Harmless
<1> QED
  BY <1>1, <1>2, <1>3, <1>4

LEMMA EndsAway ==
  ASSUME IInv, NEW w \in Workers, NEW s \in {"accepted", "waiting_review", "failed", "cancelled"}, Ends(w, s)
  PROVE  IInv'
<1>1. SettledOK /\ JobTyped /\ NotCompleted
  <2>1. CASE J!Good(hand[w])
    BY <2>1, SettledRow, FinishedJob DEF Ends, IInv, J!Ends
  <2>2. CASE ~J!Good(hand[w])
    BY <2>2, ClaimedJob DEF Ends, IInv, Typed, SettledOK
  <2> QED
    BY <2>1, <2>2
<1>2. step' = [step EXCEPT ![w] = "idle"] /\ UNCHANGED <<provider, archive, usage>> /\ late' = late
  BY DEF Ends
<1>3. "idle" \in Harmless
  BY DEF Harmless, Steps
<1> QED
  BY <1>1, <1>2, <1>3, StepAway

\* What must be there before a process takes a step that claims something.
Earned(s) ==
  /\ s \in {"refused", "rejected"} => NothingMade
  /\ s = "receipt" => "outputs" \in archive
  /\ s = "archived" => "receipt" \in archive
  /\ s = "publish" => task.state = "outputs_ready"

\* A process moves on, and nothing else happens.
LEMMA StepOn ==
  ASSUME IInv, NEW w \in Workers, NEW s \in Steps \ {"post"}, Goto(w, s), Earned(s)
  PROVE  IInv'
<1> USE DEF IInv, Goto, Earned
<1>1. Typed'
  BY DEF Typed
<1>2. PostOK'
  BY DEF Typed, PostOK
<1>3. RefusalOK'
  BY DEF Typed, RefusalOK, NothingMade
<1>4. ArchiveOK'
  BY DEF Typed, ArchiveOK
<1> QED
  BY <1>1, <1>2, <1>3, <1>4

\* A call commits; if its process is still there, it moves on by the answer.
LEMMA CallCommits ==
  ASSUME IInv, NEW call \in StoreCalls, NEW f \in Nat, NEW row \in Stored(call, f),
         Commit(call, row),
         call = "rejected" => NothingMade, call = "archived" => "receipt" \in archive,
         step' = step \/ \E w \in Workers : /\ step[w] = call
                                            /\ step' = [step EXCEPT ![w] = After(call, row)],
         late' \subseteq late, UNCHANGED <<job, hand, provider, archive>>
  PROVE  IInv'
<1> USE DEF IInv
<1>1. MovedBy(call, row) /\ task' = row
  BY StoredRows DEF Commit
<1>2. PICK s \in Steps : /\ s = "post" => call = "begin_submit"
                         /\ s = "publish" => row.state = "outputs_ready"
                         /\ s \notin {"refused", "rejected", "receipt", "archived"}
                         /\ s = After(call, row)
  <2>1. row.state \in States
    BY <1>1 DEF MovedBy, Rows
  <2>2. CASE call = "get"
    BY <2>1, <2>2 DEF After, Execute, Steps, StoreCalls
  <2>3. CASE call # "get"
    BY <1>1, <2>3 DEF After, Steps, StoreCalls, MovedBy
  <2> QED
    BY <2>2, <2>3
<1>3. \A v \in Workers : step'[v] = step[v] \/ step'[v] = s
  BY <1>2 DEF Typed
<1>4. Typed'
  BY <1>1, <1>2, <1>3 DEF Typed, MovedBy, Commit
<1>5. PostOK'
  <2>1. call = "begin_submit" => \A v \in Workers : step[v] # "post"
    BY <1>1 DEF PostOK, MovedBy, Early
  <2>2. /\ provider'.posts =< 1
        /\ task'.state \in Early => provider'.posts = 0
        /\ provider'.posts = 1 => task'.approved # "no"
    BY <1>1 DEF PostOK, MovedBy, Early
  <2>3. ASSUME NEW w \in Workers, step'[w] = "post"
        PROVE  /\ provider'.posts = 0 /\ task'.approved # "no" /\ task'.state \notin Early \cup Closed
               /\ \A v \in Workers : step'[v] = "post" => v = w
    <3>1. CASE call = "begin_submit"
      <4>1. provider'.posts = 0 /\ task'.approved # "no" /\ task'.state \notin Early \cup Closed
        BY <1>1, <3>1 DEF PostOK, MovedBy, Early, Closed
      <4>2. \A v \in Workers : step'[v] = "post" => v = w
        BY <2>1, <2>3, <3>1 DEF Typed
      <4> QED
        BY <4>1, <4>2
    <3>2. CASE call # "begin_submit"
      <4>1. \A v \in Workers : step'[v] = "post" => step[v] = "post"
        BY <1>2, <1>3, <3>2
      <4>2. /\ provider.posts = 0 /\ task.approved # "no" /\ task.state \notin Early \cup Closed
            /\ \A v \in Workers : step[v] = "post" => v = w
        BY <2>3, <4>1 DEF PostOK
      <4>3. call # "rejected"
        BY <4>2 DEF NothingMade
      <4> QED
        BY <1>1, <4>1, <4>2, <4>3 DEF MovedBy, Early, Closed
    <3> QED
      BY <3>1, <3>2
  <2> QED
    BY <2>2, <2>3 DEF PostOK
<1>6. RefusalOK'
  BY <1>1, <1>2, <1>3 DEF RefusalOK, NothingMade, MovedBy, Closed
<1>7. ArchiveOK'
  BY <1>1, <1>2, <1>3 DEF ArchiveOK, MovedBy, Commit
<1> QED
  BY <1>4, <1>5, <1>6, <1>7

-----------------------------------------------------------------------------
(* The induction: one lemma for each action that does more than move on.    *)

LEMMA OutsideKeeps == ASSUME IInv, Outside PROVE IInv'
<1>1. SettledOK /\ JobTyped /\ NotCompleted
  BY SettledRow, OutsideJob DEF Outside, IInv
<1> USE DEF IInv
<1>2. Typed'
  BY <1>1 DEF Outside, Typed, SettledOK, JobTyped
<1>3. PostOK'
  BY <1>1 DEF Outside, Typed, PostOK, SettledOK, Early, Closed, Rows
<1>4. RefusalOK'
  BY <1>1 DEF Outside, Typed, PostOK, RefusalOK, NothingMade, SettledOK, Early, Closed
<1>5. ArchiveOK'
  BY <1>1 DEF Outside, Typed, ArchiveOK, SettledOK, NotCompleted
<1> QED
  BY <1>2, <1>3, <1>4, <1>5

LEMMA LateKeeps == ASSUME IInv, LateTakesEffect PROVE IInv'
<1>1. PICK c \in late :
        /\ late' = late \ {c}
        /\ IF c[1] \in Uploads
           THEN archive' = archive \cup {c[1]} /\ UNCHANGED <<task, usage>>
           ELSE /\ UNCHANGED archive
                /\ IF J!Good(c[2]) /\ Stored(c[1], c[2]) # {}
                   THEN \E row \in Stored(c[1], c[2]) : Commit(c[1], row)
                   ELSE UNCHANGED <<task, usage>>
        /\ UNCHANGED <<job, hand, provider, step>>
  BY DEF LateTakesEffect
<1>2. c[1] \in StoreCalls \cup Uploads /\ c[2] \in Nat
  BY DEF IInv, Typed
<1>3. CASE c[1] \in Uploads
  <2> USE DEF IInv
  <2>1. Typed'
    BY <1>1, <1>3 DEF Typed
  <2>2. PostOK'
    BY <1>1, <1>3 DEF PostOK
  <2>3. RefusalOK'
    BY <1>1, <1>3 DEF RefusalOK, NothingMade
  <2>4. ArchiveOK'
    BY <1>1, <1>3 DEF ArchiveOK, Uploads
  <2> QED
    BY <2>1, <2>2, <2>3, <2>4
<1>4. CASE c[1] \notin Uploads /\ J!Good(c[2]) /\ Stored(c[1], c[2]) # {}
  <2>1. PICK row \in Stored(c[1], c[2]) : Commit(c[1], row)
    BY <1>1, <1>4
  <2>2. /\ c[1] = "rejected" => NothingMade
        /\ c[1] = "archived" => "receipt" \in archive
    BY DEF IInv, RefusalOK, ArchiveOK
  <2>3. step' = step /\ late' \subseteq late /\ UNCHANGED <<job, hand, provider, archive>>
    BY <1>1, <1>4
  <2> QED
    BY <1>2, <1>4, <2>1, <2>2, <2>3, CallCommits
<1>5. CASE c[1] \notin Uploads /\ ~(J!Good(c[2]) /\ Stored(c[1], c[2]) # {})
  <2>1. late' \subseteq late /\ UNCHANGED <<job, hand, task, provider, archive, usage, step>>
    BY <1>1, <1>5
  <2> QED
    BY <2>1 DEF IInv, Typed, PostOK, RefusalOK, NothingMade, ArchiveOK
<1> QED
  BY <1>3, <1>4, <1>5

LEMMA ClaimKeeps == ASSUME IInv, NEW w \in Workers, Claim(w) PROVE IInv'
<1>1. JobTyped /\ NotCompleted
  BY ClaimedJob DEF Claim, IInv
<1>2. SettledOK /\ "load" \in Harmless
  BY DEF Claim, SettledOK, IInv, Typed, Harmless, Steps
<1>3. step' = [step EXCEPT ![w] = "load"] /\ UNCHANGED <<provider, archive, usage>> /\ late' = late
  BY DEF Claim
<1> QED
  BY <1>1, <1>2, <1>3, StepAway

LEMMA CrashKeeps == ASSUME IInv, NEW w \in Workers, Crash(w) PROVE IInv'
<1>1. JobTyped /\ NotCompleted
  BY ClaimedJob DEF Crash, IInv
<1>2. SettledOK /\ "idle" \in Harmless
  BY DEF Crash, SettledOK, IInv, Typed, Harmless, Steps
<1>3. /\ step' = [step EXCEPT ![w] = "idle"] /\ UNCHANGED <<provider, archive, usage>>
      /\ \/ late' = late
         \/ step[w] \in StoreCalls \cup Uploads /\ late' = late \cup {<<step[w], hand[w]>>}
  BY DEF Crash
<1> QED
  BY <1>1, <1>2, <1>3, StepAway

LEMMA InterruptKeeps == ASSUME IInv, NEW w \in Workers, Interrupt(w) PROVE IInv'
<1>1. SettledOK /\ JobTyped /\ NotCompleted
  BY DEF Interrupt, SettledOK, JobTyped, NotCompleted, IInv, Typed
<1>2. PICK s \in Harmless : step' = [step EXCEPT ![w] = s]
  BY DEF Interrupt, IInv, Typed, Harmless, Steps, StoreCalls, Creating
<1>3. /\ UNCHANGED <<provider, archive, usage>>
      /\ \/ late' = late
         \/ step[w] \in StoreCalls \cup Uploads /\ late' = late \cup {<<step[w], hand[w]>>}
  BY DEF Interrupt
<1> QED
  BY <1>1, <1>2, <1>3, StepAway

LEMMA StopKeeps == ASSUME IInv, NEW w \in Workers, Stop(w) PROVE IInv'
<1>1. CASE job.status = "cancel_requested"
  BY <1>1, EndsAway DEF Stop
<1>2. CASE job.status # "cancel_requested"
  <2>1. JobTyped /\ NotCompleted
    BY <1>2, ClaimedJob DEF Stop, IInv
  <2>2. SettledOK /\ "idle" \in Harmless
    BY <1>2 DEF Stop, SettledOK, IInv, Typed, Harmless, Steps
  <2>3. step' = [step EXCEPT ![w] = "idle"] /\ UNCHANGED <<provider, archive, usage>> /\ late' = late
    BY <1>2 DEF Stop
  <2> QED
    BY <2>1, <2>2, <2>3, StepAway
<1> QED
  BY <1>1, <1>2

\* Begin reads the row as get does, and goes on to a store call or a plan.
LEMMA BeginKeeps == ASSUME IInv, NEW w \in Workers, Begin(w) PROVE IInv'
<1>1. PICK row \in Get(hand[w]) :
        /\ task' = row
        /\ \E s \in {"plan", "approve_plan", "get"} : step' = [step EXCEPT ![w] = s]
  BY DEF Begin
<1>2. SettledOK
  BY <1>1 DEF Get, Write, SettledOK, IInv, Typed, Rows, States, Unanswered
<1>3. JobTyped /\ NotCompleted
  BY DEF Begin, JobTyped, NotCompleted, IInv, Typed
<1>4. {"plan", "approve_plan", "get"} \subseteq Harmless
  BY DEF Harmless, Steps, StoreCalls
<1>5. UNCHANGED <<provider, archive, usage>> /\ late' = late
  BY DEF Begin
<1> QED
  BY <1>1, <1>2, <1>3, <1>4, <1>5, StepAway

LEMMA CallKeeps == ASSUME IInv, NEW w \in Workers, Call(w) PROVE IInv'
<1>0. step[w] \in StoreCalls /\ hand[w] \in Nat
  BY DEF Call, IInv, Typed
<1>1. CASE /\ \E row \in Stored(step[w], hand[w]) :
                /\ Commit(step[w], row)
                /\ step' = [step EXCEPT ![w] = After(@, row)]
           /\ UNCHANGED <<job, hand, provider, archive, late>>
  <2>1. PICK row \in Stored(step[w], hand[w]) :
               Commit(step[w], row) /\ step' = [step EXCEPT ![w] = After(step[w], row)]
    BY <1>1
  <2>2. /\ step[w] = "rejected" => NothingMade
        /\ step[w] = "archived" => "receipt" \in archive
    BY DEF IInv, RefusalOK, ArchiveOK
  <2> QED
    BY <1>0, <1>1, <2>1, <2>2, CallCommits
<1>2. CASE Goto(w, Refused(step[w])) \/ Goto(w, "stop")
  <2>1. {"wait", "stop", "fail"} \subseteq Steps \ {"post"}
    BY DEF Steps
  <2>2. Refused(step[w]) \in {"wait", "stop", "fail"}
    BY DEF Refused
  <2>3. \A s \in {"wait", "stop", "fail"} : Earned(s)
    BY DEF Earned
  <2> QED
    BY <1>2, <2>1, <2>2, <2>3, StepOn
<1>3. CASE /\ step' = [step EXCEPT ![w] = IF @ = "preserve" THEN "stop" ELSE "wait"]
           /\ late' = late \cup {<<step[w], hand[w]>>}
           /\ UNCHANGED <<job, hand, task, provider, archive, usage>>
  <2>1. PICK s \in Harmless : step' = [step EXCEPT ![w] = s]
    BY <1>3 DEF IInv, Typed, Harmless, Steps
  <2>2. SettledOK /\ JobTyped /\ NotCompleted
    BY <1>3 DEF SettledOK, JobTyped, NotCompleted, IInv, Typed
  <2> QED
    BY <1>0, <1>3, <2>1, <2>2, StepAway
<1> QED
  BY <1>1, <1>2, <1>3 DEF Call

\* The one POST: nobody else is about to post, and nobody has reported on one.
LEMMA PostKeeps == ASSUME IInv, NEW w \in Workers, Post(w) PROVE IInv'
<1> USE DEF IInv
<1>1. /\ step[w] = "post" /\ provider = [posts |-> 0, made |-> 0]
      /\ task.approved # "no" /\ task.state \notin Early \cup Closed
      /\ \A v \in Workers : step[v] = "post" => v = w
  BY DEF Post, At, Typed, PostOK, RefusalOK
<1>2. PICK made \in {0, 1} :
        /\ provider' = [posts |-> 1, made |-> made]
        /\ step' = [step EXCEPT ![w] = IF made = 1 THEN "made" ELSE "refused"]
  <2>1. 0 + 1 = 1 /\ \A made \in {0, 1} : 0 + made = made
    OBVIOUS
  <2>2. PICK made \in {0, 1} :
          /\ provider' = [posts |-> provider.posts + 1, made |-> provider.made + made]
          /\ step' = [step EXCEPT ![w] = IF made = 1 THEN "made" ELSE "refused"]
    BY DEF Post
  <2>3. provider.posts = 0 /\ provider.made = 0
    BY <1>1
  <2> QED
    BY <2>1, <2>2, <2>3
<1>3. UNCHANGED <<job, hand, task, archive, usage, late>>
  BY DEF Post
<1>4. Typed'
  BY <1>2, <1>3 DEF Typed, Steps
<1>5. PostOK'
  BY <1>1, <1>2, <1>3 DEF PostOK, Typed
<1>6. RefusalOK'
  BY <1>1, <1>2, <1>3 DEF RefusalOK, NothingMade, Typed
<1>7. ArchiveOK'
  BY <1>2, <1>3 DEF ArchiveOK, Typed
<1> QED
  BY <1>4, <1>5, <1>6, <1>7

\* An upload adds to the archive what was asked for, and the process moves on.
LEMMA PutKeeps ==
  ASSUME IInv, NEW w \in Workers, NEW s \in Steps \ {"post", "refused", "rejected", "publish"},
         NEW objects \in SUBSET (Uploads \cup {"document"}), Put(w, objects, s),
         "receipt" \in objects => "outputs" \in archive,
         s = "receipt" => "outputs" \in objects, s = "archived" => "receipt" \in objects
  PROVE  IInv'
<1> USE DEF IInv, Put
<1>1. Typed'
  BY DEF Typed
<1>2. PostOK'
  BY DEF Typed, PostOK
<1>3. RefusalOK'
  BY DEF Typed, RefusalOK, NothingMade
<1>4. ArchiveOK'
  BY DEF Typed, ArchiveOK
<1> QED
  BY <1>1, <1>2, <1>3, <1>4

LEMMA UploadKeeps == ASSUME IInv, NEW w \in Workers, Upload(w) PROVE IInv'
<1>0. /\ {"receipt", "stop", "archived"} \subseteq Steps \ {"post", "refused", "rejected", "publish"}
      /\ "mark_unknown" \in Steps \ {"post"} /\ Earned("mark_unknown")
  BY DEF Steps, StoreCalls, Uploads, Earned
<1>1. CASE At(w, "outputs") /\ Put(w, {"outputs"}, IF MayRecord(w) THEN "receipt" ELSE "stop")
  <2>1. {"outputs"} \in SUBSET (Uploads \cup {"document"})
    BY DEF Uploads
  <2>2. CASE MayRecord(w)
    BY <1>0, <1>1, <2>1, <2>2, PutKeeps
  <2>3. CASE ~MayRecord(w)
    BY <1>0, <1>1, <2>1, <2>3, PutKeeps
  <2> QED
    BY <2>2, <2>3
<1>2. CASE At(w, "receipt") /\ Put(w, {"receipt"}, "archived")
  <2>1. {"receipt"} \in SUBSET (Uploads \cup {"document"})
    BY DEF Uploads
  <2>2. "outputs" \in archive
    BY <1>2 DEF IInv, ArchiveOK, At
  <2> QED
    BY <1>0, <1>2, <2>1, <2>2, PutKeeps
<1>3. CASE NoAnswer(w)
  BY <1>0, <1>3, StepOn DEF NoAnswer
<1> QED
  BY <1>1, <1>2, <1>3 DEF Upload

LEMMA PublishKeeps == ASSUME IInv, NEW w \in Workers, Publish(w) PROVE IInv'
<1>1. CASE /\ archive' = archive \cup {"document"}
           /\ IF MayRecord(w)
              THEN J!Finish(w, "completed") /\ step' = [step EXCEPT ![w] = "idle"]
              ELSE step' = [step EXCEPT ![w] = "stop"] /\ UNCHANGED <<job, hand>>
           /\ UNCHANGED <<task, provider, usage, late>>
  <2> USE DEF IInv
  <2>1. task.state = "outputs_ready"
    BY DEF Publish, At, ArchiveOK
  <2>2. JobTyped
    BY <1>1, FinishedJob DEF JobTyped, Typed, J!Ends
  <2>3. PICK s \in {"idle", "stop"} : step' = [step EXCEPT ![w] = s]
    BY <1>1
  <2>4. Typed'
    BY <1>1, <2>2, <2>3 DEF Typed, JobTyped, Steps
  <2>5. PostOK'
    BY <1>1, <2>3 DEF PostOK, Typed
  <2>6. RefusalOK'
    BY <1>1, <2>3 DEF RefusalOK, NothingMade, Typed
  <2>7. ArchiveOK'
    BY <1>1, <2>1, <2>3 DEF ArchiveOK, Typed
  <2> QED
    BY <2>4, <2>5, <2>6, <2>7
<1>2. CASE Goto(w, "wait")
  BY <1>2, StepOn DEF Earned, Steps
<1> QED
  BY <1>1, <1>2 DEF Publish

-----------------------------------------------------------------------------
(* What a provider's answer is read as.                                     *)

LEMMA ListsAreSequences == ASSUME NEW S, NEW list \in Lists(S) PROVE list \in Seq(S)
<1>1. PICK n \in 0 .. Longest : list \in [1 .. n -> S]
  BY DEF Lists
<1> QED
  BY <1>1, AnswersAssumption

\* No reading of an answer of a provider that made the product is a refusal
\* (images.py, speech.py, audio_generation.py).
THEOREM MadeIsNotRefused == "refusal" \notin HeardWhenMade
<1>1. \A code \in Statuses(TRUE) : Said(code) # "refusal"
  BY DEF Statuses, Unclear, Said
<1>2. \A a \in ImagesSent(TRUE) : ReadImages(a) # "refusal"
  BY DEF ReadImages
<1>3. \A a \in SoundsSent(TRUE) : ReadSound(a) # "refusal"
  BY DEF ReadSound
<1>4. ASSUME NEW a \in StreamsSent(TRUE), ReadStream(a) = "refusal" PROVE FALSE
  <2>1. PICK i \in DOMAIN a.events : RefusesJob(a.events, i)
    BY <1>4 DEF ReadStream
  <2>2. Before(a.events, i, "chunk")
    BY <2>1 DEF StreamsSent, RefusesJob
  <2> QED
    BY <2>1, <2>2 DEF RefusesJob
<1> QED
  BY <1>1, <1>2, <1>3, <1>4 DEF HeardWhenMade, HeardOf

\* No reading of an answer of a provider that made nothing is a product.
THEOREM ProductIsMade == "product" \notin HeardWhenNot
<1>1. \A code \in Statuses(FALSE) : Said(code) # "product"
  BY DEF Said
<1>2. ASSUME NEW a \in ImagesSent(FALSE), ReadImages(a) = "product" PROVE FALSE
  <2>1. a \in ImageAnswers /\ \A i \in DOMAIN a.images : ~ (a.images[i].url \/ a.images[i].image)
    BY DEF ImagesSent
  <2>2. /\ GoodCount(Len(a.images), a.upTo)
        /\ \A i \in DOMAIN a.images : GoodImage(a.images[i])
    BY <1>2 DEF ReadImages
  <2>3. a.images \in Seq(Images)
    BY <2>1, ListsAreSequences DEF ImageAnswers
  <2>4. Len(a.images) >= 1
    BY <2>2, <2>3, AnswersAssumption DEF GoodCount
  <2>5. 1 \in DOMAIN a.images /\ a.images[1] \in Images
    BY <2>3, <2>4
  <2> QED
    BY <2>1, <2>2, <2>5 DEF GoodImage, Images
<1>3. ASSUME NEW a \in SoundsSent(FALSE), ReadSound(a) = "product" PROVE FALSE
  BY <1>3 DEF SoundsSent, ReadSound
<1>4. ASSUME NEW a \in StreamsSent(FALSE), ReadStream(a) = "product" PROVE FALSE
  BY <1>4 DEF StreamsSent, ReadStream
<1> QED
  BY <1>1, <1>2, <1>3, <1>4 DEF HeardWhenNot, HeardOf

\* The steps that only move on: after an answer, a plan, a look for the receipt.
LEMMA MovesOn ==
  ASSUME IInv, NEW w \in Workers, Load(w) \/ Plan(w) \/ Answer(w) \/ Recover(w) \/ Return(w)
  PROVE  IInv'
<1> DEFINE Next1 == {"start", "reserve_ok", "reserve_no", "outputs", "rejected", "mark_unknown",
                     "archived", "wait"}
<1>1. CASE \E s \in {"accepted", "waiting_review", "failed"} : Ends(w, s)
  BY <1>1, EndsAway
<1>2. CASE \E s \in Next1 : Goto(w, s) /\ Earned(s)
  <2>1. Next1 \subseteq Steps \ {"post"}
    BY DEF Steps, StoreCalls, Uploads
  <2> QED
    BY <1>2, <2>1, StepOn
<1>3. CASE Load(w) \/ Plan(w) \/ Return(w)
  BY <1>1, <1>2, <1>3 DEF Load, Plan, Return, Earned
<1>4. CASE Answer(w)
  <2>1. PICK said \in {"product", "refusal", "doubt"} :
          /\ \/ At(w, "made") /\ said \in HeardWhenMade
             \/ At(w, "refused") /\ said \in HeardWhenNot
          /\ \/ said = "product" /\ Goto(w, "outputs")
             \/ said = "refusal" /\ Goto(w, "rejected")
             \/ said = "doubt" /\ NoAnswer(w)
    BY <1>4 DEF Answer
  <2>2. said = "refusal" => NothingMade
    BY <2>1, MadeIsNotRefused DEF At, IInv, RefusalOK
  <2> QED
    BY <1>2, <2>1, <2>2 DEF NoAnswer, Earned
<1>5. CASE Recover(w)
  BY <1>2, <1>5 DEF Recover, Earned
<1> QED
  BY <1>3, <1>4, <1>5

\* Generated media: the shapes of its rows, and what each step of a process or of
\* a call in a thread has behind it (workflows/media/generated.py).
THEOREM EachStepEarned == Spec => []IInv
<1>1. Init => IInv
  <2> SUFFICES ASSUME Init PROVE IInv
    OBVIOUS
  <2> USE DEF Init, J!Init, J!NoRow
  <2>1. Typed
    BY DEF Typed, JobRows, Rows, States, Steps
  <2>2. PostOK /\ RefusalOK /\ ArchiveOK
    BY DEF PostOK, RefusalOK, ArchiveOK, Early, Closed
  <2> QED
    BY <2>1, <2>2 DEF IInv
<1>2. IInv /\ [Next]_vars => IInv'
  <2> SUFFICES ASSUME IInv, [Next]_vars PROVE IInv'
    OBVIOUS
  <2>1. CASE Outside
    BY <2>1, OutsideKeeps
  <2>2. CASE LateTakesEffect
    BY <2>2, LateKeeps
  <2>3. CASE \E w \in Workers : Handler(w)
    BY <2>3, BeginKeeps, CallKeeps, PostKeeps, UploadKeeps, PublishKeeps, MovesOn DEF Handler
  <2>4. CASE \E w \in Workers : Claim(w) \/ Interrupt(w) \/ Stop(w) \/ Crash(w)
    BY <2>4, ClaimKeeps, InterruptKeeps, StopKeeps, CrashKeeps
  <2>5. CASE UNCHANGED vars
    BY <2>5 DEF vars, mediaVars, IInv, Typed, PostOK, RefusalOK, NothingMade, ArchiveOK
  <2> QED
    BY <2>1, <2>2, <2>3, <2>4, <2>5 DEF Next
<1> QED
  BY <1>1, <1>2, PTL DEF Spec

\* The provider is asked at most once for a job, and only for an approved plan,
\* however many processes claim it and whatever commits late.
THEOREM AskedOnceAlone == Spec => []PaidOnce
<1>1. IInv => PaidOnce
  BY DEF IInv, PostOK, PaidOnce
<1> QED
  BY <1>1, EachStepEarned, PTL

\* Nothing paid for is written off, and its use is recorded exactly once.
THEOREM NothingWrittenOffAlone == Spec => []DoubtKept
<1>1. IInv => DoubtKept
  BY DEF IInv, RefusalOK, ArchiveOK, DoubtKept, Closed
<1> QED
  BY <1>1, EachStepEarned, PTL

-----------------------------------------------------------------------------
(* Documents without findings.                                             *)

\* Finite sets are counted here as they are in Creation.
LEMMA SameFinite == ASSUME NEW S PROVE Text!IsFiniteSet(S) <=> IsFiniteSet(S)
BY DEF Text!IsFiniteSet, IsFiniteSet
LEMMA SameCount == ASSUME NEW S PROVE Text!Cardinality(S) = Cardinality(S)
BY DEF Text!Cardinality, Cardinality

LEMMA WorksFinite == IsFiniteSet(Works) /\ Cardinality(Works) \in Nat
BY TextAssumption, SameFinite, FS_CardinalityType DEF Text!CreationAssumption

\* A finding is about some block: where none is reported, no block has the flaw.
LEMMA NoneFlagged == ASSUME NEW code, NEW S, Text!Flagged(code, S) = {} PROVE S = {}
<1> SUFFICES ASSUME NEW i \in S PROVE FALSE
  OBVIOUS
<1>1. <<code, i>> \in Text!Flagged(code, S)
  BY DEF Text!Flagged
<1> QED BY <1>1

\* with_block_ids: the ids it derives do not meet those that were supplied.
LEMMA IdsDistinct ==
  ASSUME NEW d, Text!IsDocument(d), Text!IdFindings(d) = {}
  PROVE  Text!Identified(d) /\ \A i \in Text!Blocks(d) : Text!Id(d, i) # Odd
<1>1. {i \in Text!Blocks(d) : Text!Id(d, i) = Odd} = {}
  BY NoneFlagged DEF Text!IdFindings
<1>2. {i \in Text!Blocks(d) : Text!Id(d, i) # Odd /\ \E j \in 1 .. i - 1 : Text!Id(d, j) = Text!Id(d, i)} = {}
  BY NoneFlagged DEF Text!IdFindings
<1>3. Text!Blocks(d) = 1 .. Len(d.blocks) /\ Len(d.blocks) \in Nat
  BY DEF Text!Blocks, Text!IsDocument
<1>4. ASSUME NEW i \in Text!Blocks(d), NEW j \in Text!Blocks(d), Text!Id(d, i) = Text!Id(d, j), i < j PROVE FALSE
  BY <1>1, <1>2, <1>3, <1>4
<1> QED
  BY <1>1, <1>3, <1>4 DEF Text!Identified

\* Later in a list is higher in rank.
LEMMA Ranks ==
  ASSUME NEW n \in Nat, NEW S \in SUBSET (1 .. n), NEW i \in S, NEW j \in S, i < j
  PROVE  Text!Rank(i, S) \in Nat /\ Text!Rank(j, S) \in Nat /\ Text!Rank(i, S) < Text!Rank(j, S)
<1> DEFINE A == {k \in S : k =< i}
           B == {k \in S : k =< j}
<1>1. IsFiniteSet(1 .. n) /\ i \in 1 .. n /\ j \in 1 .. n
  BY FS_Interval
<1>2. IsFiniteSet(B) /\ IsFiniteSet(A)
  BY <1>1, FS_Subset
<1>3. A \subseteq B /\ j \in B /\ j \notin A
  <2>1. i \in Nat /\ j \in Nat /\ S \subseteq Nat
    BY <1>1
  <2>2. ASSUME NEW k \in A PROVE k \in B
    BY <2>1
  <2>3. j \in B
    BY <2>1
  <2>4. j \notin A
    BY <2>1
  <2> QED BY <2>2, <2>3, <2>4
<1>4. Cardinality(A) \in Nat /\ Cardinality(B) \in Nat /\ Cardinality(A) =< Cardinality(B)
  BY <1>2, <1>3, FS_CardinalityType, FS_Subset
<1>5. Cardinality(A) # Cardinality(B)
  BY <1>2, <1>3, FS_Subset
<1> HIDE DEF A, B
<1>6. Cardinality(A) < Cardinality(B)
  BY <1>4, <1>5
<1> QED
  BY <1>4, <1>6, SameCount DEF Text!Rank, A, B

\* _structure_findings: whoever speaks is declared once, and speaks in one scene.
LEMMA CastStands ==
  ASSUME NEW d, Text!IsDocument(d), Text!Identified(d), Text!CharacterFindings(d) = {}, Text!DialogueFindings(d) = {}
  PROVE  Text!Cast(d)
<1>1. /\ {i \in Text!OfType(d, "character") : Text!Character(d, i) # None
           /\ \E j \in Text!OfType(d, "character") : j < i /\ Text!Character(d, j) = Text!Character(d, i)} = {}
  <2>1. Text!Flagged("duplicate_character_id", {i \in Text!OfType(d, "character") : Text!Character(d, i) # None
        /\ \E j \in Text!OfType(d, "character") : j < i /\ Text!Character(d, j) = Text!Character(d, i)}) = {}
    BY DEF Text!CharacterFindings
  <2> QED BY <2>1, NoneFlagged
<1>2. /\ {i \in Text!OfType(d, "dialogue") : Text!Character(d, i) = None} = {}
      /\ {i \in Text!OfType(d, "dialogue") : Text!Character(d, i) \notin Text!Declared(d) \cup {None}} = {}
  <2>1. Text!Flagged("missing_character_reference", {i \in Text!OfType(d, "dialogue") : Text!Character(d, i) = None}) = {}
    BY DEF Text!DialogueFindings
  <2>2. Text!Flagged("unknown_character_reference", {i \in Text!OfType(d, "dialogue") : Text!Character(d, i) \notin Text!Declared(d) \cup {None}}) = {}
    BY DEF Text!DialogueFindings
  <2> QED BY <2>1, <2>2, NoneFlagged
<1>3. {i \in Text!OfType(d, "dialogue") :
         d.blocks[i].place \notin ({Text!Id(d, k) : k \in Text!OfType(d, "scene")} \ {Odd}) \cup {None}} = {}
  <2>1. Text!Flagged("unknown_scene_reference", {i \in Text!OfType(d, "dialogue") :
         d.blocks[i].place \notin ({Text!Id(d, k) : k \in Text!OfType(d, "scene")} \ {Odd}) \cup {None}}) = {}
    BY DEF Text!DialogueFindings
  <2> QED BY <2>1, NoneFlagged
<1>4. Text!Blocks(d) \subseteq Nat
  BY DEF Text!Blocks, Text!IsDocument
<1> SUFFICES ASSUME NEW i \in Text!OfType(d, "dialogue")
             PROVE  /\ Text!Exactly({k \in Text!OfType(d, "character") : Text!Character(d, k) = Text!Character(d, i)})
                    /\ d.blocks[i].place # None =>
                         Text!Exactly({k \in Text!Blocks(d) : Text!Id(d, k) = d.blocks[i].place} \cap Text!OfType(d, "scene"))
  BY DEF Text!Cast
<1>5. PICK k \in Text!OfType(d, "character") : Text!Character(d, k) = Text!Character(d, i) /\ Text!Character(d, k) # None
  BY <1>2 DEF Text!Declared
<1>6. ASSUME NEW m \in Text!OfType(d, "character"), Text!Character(d, m) = Text!Character(d, i) PROVE m = k
  BY <1>1, <1>4, <1>5, <1>6 DEF Text!OfType
<1>7. Text!Exactly({m \in Text!OfType(d, "character") : Text!Character(d, m) = Text!Character(d, i)})
  BY <1>5, <1>6 DEF Text!Exactly
<1>8. ASSUME d.blocks[i].place # None
      PROVE  Text!Exactly({m \in Text!Blocks(d) : Text!Id(d, m) = d.blocks[i].place} \cap Text!OfType(d, "scene"))
  <2>1. PICK s \in Text!OfType(d, "scene") : Text!Id(d, s) = d.blocks[i].place
    BY <1>3, <1>8
  <2>2. s \in Text!Blocks(d) /\ \A m \in Text!Blocks(d) : Text!Id(d, m) = d.blocks[i].place => m = s
    BY <2>1 DEF Text!Identified, Text!OfType
  <2>3. {m \in Text!Blocks(d) : Text!Id(d, m) = d.blocks[i].place} \cap Text!OfType(d, "scene") = {s}
    BY <2>1, <2>2
  <2> QED BY <2>3 DEF Text!Exactly
<1> QED BY <1>7, <1>8

\* _structure_findings: a number that is its rank goes up along the document.
LEMMA NumbersStand ==
  ASSUME NEW d, Text!IsDocument(d), Text!NumberFindings(d) = {}
  PROVE  Text!InOrder(d)
<1>1. {i \in Text!Numbered(d) : Text!Scene(d, i).number # Text!Rank(i, Text!ScenesOf(d, Text!Scene(d, i).episode))} = {}
  <2>1. Text!Flagged("invalid_scene_numbering", {i \in Text!Numbered(d) : Text!Scene(d, i).number # Text!Rank(i, Text!ScenesOf(d, Text!Scene(d, i).episode))}) = {}
    BY DEF Text!NumberFindings
  <2> QED BY <2>1, NoneFlagged
<1>2. {i \in Text!Episodes(d) : Text!Episode(d, i).number # Text!Rank(i, Text!Episodes(d))} = {}
  <2>1. Text!Flagged("invalid_episode_numbering", {i \in Text!Episodes(d) : Text!Episode(d, i).number # Text!Rank(i, Text!Episodes(d))}) = {}
    BY DEF Text!NumberFindings
  <2> QED BY <2>1, NoneFlagged
<1>3. {i \in Text!Numbered(d) : Text!Scene(d, i).episode \notin {0} \cup {Text!Episode(d, k).number : k \in Text!Episodes(d)}} = {}
  <2>1. Text!Flagged("unknown_episode_reference", {i \in Text!Numbered(d) : Text!Scene(d, i).episode \notin {0} \cup {Text!Episode(d, k).number : k \in Text!Episodes(d)}}) = {}
    BY DEF Text!NumberFindings
  <2> QED BY <2>1, NoneFlagged
<1>4. PICK n \in Nat : Text!Blocks(d) = 1 .. n
  BY DEF Text!Blocks, Text!IsDocument
<1>5. ASSUME NEW i \in Text!Numbered(d), NEW j \in Text!Numbered(d), Text!Scene(d, i).episode = Text!Scene(d, j).episode, i < j
      PROVE  Text!Scene(d, i).number < Text!Scene(d, j).number
  <2>1. PICK S : S = Text!ScenesOf(d, Text!Scene(d, i).episode)
    OBVIOUS
  <2>2. S \in SUBSET (1 .. n) /\ i \in S /\ j \in S
    BY <1>4, <1>5, <2>1 DEF Text!ScenesOf, Text!Numbered
  <2>3. Text!Scene(d, i).number = Text!Rank(i, S) /\ Text!Scene(d, j).number = Text!Rank(j, S)
    BY <1>1, <1>5, <2>1
  <2> QED BY <1>5, <2>2, <2>3, Ranks
<1>6. ASSUME NEW i \in Text!Episodes(d), NEW j \in Text!Episodes(d), i < j
      PROVE  Text!Episode(d, i).number < Text!Episode(d, j).number /\ Text!Episode(d, i).number # Text!Episode(d, j).number
  <2>1. PICK S : S = Text!Episodes(d)
    OBVIOUS
  <2>2. S \in SUBSET (1 .. n) /\ i \in S /\ j \in S
    BY <1>4, <2>1 DEF Text!Episodes
  <2>3. Text!Episode(d, i).number = Text!Rank(i, S) /\ Text!Episode(d, j).number = Text!Rank(j, S)
    BY <1>2, <2>1
  <2>4. Text!Rank(i, S) \in Nat /\ Text!Rank(j, S) \in Nat /\ Text!Rank(i, S) < Text!Rank(j, S)
    BY <1>6, <2>2, Ranks
  <2> QED BY <2>3, <2>4
<1>7. ASSUME NEW i \in Text!Numbered(d), Text!Scene(d, i).episode # 0
      PROVE  Text!Exactly({k \in Text!Episodes(d) : Text!Episode(d, k).number = Text!Scene(d, i).episode})
  <2>1. PICK k \in Text!Episodes(d) : Text!Episode(d, k).number = Text!Scene(d, i).episode
    BY <1>3, <1>7
  <2>2. Text!Episodes(d) \subseteq Nat
    BY <1>4 DEF Text!Episodes
  <2>3. ASSUME NEW m \in Text!Episodes(d), Text!Episode(d, m).number = Text!Scene(d, i).episode PROVE m = k
    <3>1. m < k \/ k < m \/ m = k
      BY <2>2
    <3> QED BY <1>6, <2>1, <2>3, <3>1
  <2>4. {m \in Text!Episodes(d) : Text!Episode(d, m).number = Text!Scene(d, i).episode} = {k}
    BY <2>1, <2>3
  <2> QED BY <2>4 DEF Text!Exactly
<1> QED BY <1>5, <1>6, <1>7 DEF Text!InOrder

\* _conversion_findings: the references of a document without findings lead to one
\* block each, and back from every block of the source.
LEMMA ConversionStands ==
  ASSUME NEW d, NEW source, source # None => Text!IsDocument(source), Text!ConversionFindings(d, source) = {}
  PROVE  Text!Converted(d, source)
<1>1. source # None /\ Text!IdFindings(source) = {} /\ source.blocks # <<>>
  <2>1. Text!SourceFindings(source) = {}
    BY DEF Text!ConversionFindings
  <2>2. source # None
    BY <2>1 DEF Text!SourceFindings
  <2>3. Text!Flagged("source", Text!IdFindings(source)) = {}
    BY <2>1, <2>2 DEF Text!SourceFindings
  <2>4. Text!IdFindings(source) = {}
    BY <2>3, NoneFlagged
  <2> QED BY <2>1, <2>2, <2>4 DEF Text!SourceFindings
<1>2. Text!Identified(source) /\ \A b \in Text!Blocks(source) : Text!Id(source, b) # Odd
  BY <1>1, IdsDistinct
<1>3. Text!ReferenceFindings(d, source) = {}
  BY DEF Text!ConversionFindings
<1>4. /\ {i \in Text!Blocks(d) : Text!Sources(d, i) = <<>>} = {}
      /\ {i \in Text!Blocks(d) : Text!Sources(d, i) = Odd} = {}
  <2>1. Text!Flagged("missing_source_references", {i \in Text!Blocks(d) : Text!Sources(d, i) = <<>>}) = {}
    BY <1>3 DEF Text!ReferenceFindings
  <2>2. Text!Flagged("invalid_source_references", {i \in Text!Blocks(d) : Text!Sources(d, i) = Odd}) = {}
    BY <1>3 DEF Text!ReferenceFindings
  <2> QED BY <2>1, <2>2, NoneFlagged
<1>5. {i \in Text!Referring(d) : ~ Text!Listed(d, i) \subseteq Text!KnownOf(source)} = {}
  <2>1. Text!Flagged("unknown_source_reference", {i \in Text!Referring(d) : ~ Text!Listed(d, i) \subseteq Text!KnownOf(source)}) = {}
    BY <1>3 DEF Text!ReferenceFindings
  <2> QED BY <2>1, NoneFlagged
<1>6. Text!KnownOf(source) \subseteq UNION {Text!Listed(d, i) : i \in Text!Referring(d)}
  BY <1>3 DEF Text!ReferenceFindings
<1>7. ASSUME NEW i \in Text!Blocks(d), NEW k \in DOMAIN Text!Sources(d, i)
      PROVE  Text!Exactly({b \in Text!Blocks(source) : Text!Id(source, b) = Text!Sources(d, i)[k]})
  <2>1. Text!Sources(d, i)[k] \in Text!Known(source)
    BY <1>1, <1>4, <1>5 DEF Text!Referring, Text!Listed, Text!KnownOf
  <2>2. PICK b \in Text!Blocks(source) : Text!Id(source, b) = Text!Sources(d, i)[k]
    BY <2>1 DEF Text!Known
  <2>3. {c \in Text!Blocks(source) : Text!Id(source, c) = Text!Sources(d, i)[k]} = {b}
    BY <1>2, <2>2 DEF Text!Identified
  <2> QED BY <2>3 DEF Text!Exactly
<1>8. ASSUME NEW b \in Text!Blocks(source) PROVE \E i \in Text!Blocks(d) : Text!Id(source, b) \in Text!Listed(d, i)
  <2>1. Text!Id(source, b) \in Text!KnownOf(source)
    BY <1>1, <1>2 DEF Text!KnownOf, Text!Known
  <2> QED BY <1>6, <2>1 DEF Text!Referring
<1> QED BY <1>1, <1>4, <1>7, <1>8 DEF Text!Converted

\* adapt_document: a document in which nothing is found holds together, whatever
\* its blocks are and however many.
LEMMA NothingFound ==
  ASSUME NEW d, NEW source, Text!IsDocument(d), source # None => Text!IsDocument(source),
         NEW structured \in BOOLEAN, NEW adapting \in BOOLEAN,
         Text!Findings(d, source, structured, adapting) = {}
  PROVE  Text!Sound(d, source, structured, adapting)
<1>1. Text!IdFindings(d) = {} /\ Text!Identified(d)
  BY IdsDistinct DEF Text!Findings
<1>2. ASSUME structured PROVE Text!Cast(d) /\ Text!InOrder(d)
  BY <1>1, <1>2, CastStands, NumbersStand DEF Text!Findings, Text!StructureFindings
<1>3. ASSUME adapting PROVE Text!Converted(d, source)
  BY <1>3, ConversionStands DEF Text!Findings
<1> QED BY <1>1, <1>2, <1>3 DEF Text!Sound

-----------------------------------------------------------------------------
(* The creations.  What makes their promises inductive: a claim is held by   *)
(* one process (ClaimsApart); what is between its look at the budget and its *)
(* record belongs to a job, and a job has one such call under its last claim *)
(* (BudgetInv); a draft is written by the claim that is its version, stage    *)
(* after stage (WriterFine), and what the row keeps of it is that draft.      *)

DraftType == [version : Nat, text : Drafts \cup {None}, liked : BOOLEAN]
RowType ==
  [status : {"none", "running", "cancel_requested", "cancelled"} \cup Text!Outcomes, fence : Nat, live : BOOLEAN,
   answer : {"none", "approve", "revise"}, draft : DraftType, agreed : Nat]
WriterType ==
  [work : Works \cup {None}, fence : Nat, answer : {"none", "approve", "revise"},
   at : {"idle", "begin", "recall", "check", "ask", "record", "upload", "artifact", "finish"},
   stage : Nat, try : Nat, draft : DraftType, outcome : Text!Outcomes \cup {None}]
CreationTyped ==
  /\ rows \in [Works -> RowType]
  /\ writer \in [Workers -> WriterType]
  /\ spent \in Nat
  /\ stored \subseteq [work : Works, version : Nat, text : Drafts \cup {None}]
Busy(w) == writer[w].at # "idle"
ClaimedOK ==
  \A w \in Workers :
    /\ ~ Busy(w) => writer[w] = Text!Idle
    /\ Busy(w) => writer[w].work \in Works /\ writer[w].fence # 0 /\ writer[w].fence =< Text!Row(w).fence
ClaimsApart ==
  \A v, w \in Workers :
    Busy(v) /\ Busy(w) /\ writer[v].work = writer[w].work /\ writer[v].fence = writer[w].fence => v = w
\* The drafts.
Backed(j, draft) ==
  /\ [work |-> j, version |-> draft.version, text |-> draft.text] \in stored
  /\ \A i \in DOMAIN Stages : <<j, draft.version, Stages[i]>> \in calls
Good(draft) == draft.liked /\ draft.text \notin Weak /\ Text!Findings(draft.text, Source, Structured, Adapting) = {}
OneText == \A o, p \in stored : o.work = p.work /\ o.version = p.version => o = p
Answered(row) == row.draft # Text!NoDraft /\ row.answer # "revise" => row.agreed = row.draft.version
RowFine(j) ==
  /\ rows[j].live => rows[j].status \in {"running", "cancel_requested"}
  /\ rows[j].draft # Text!NoDraft => Backed(j, rows[j].draft)
  /\ rows[j].status \in {"none", "accepted", "running", "cancel_requested"} => Answered(rows[j])
  /\ rows[j].status = "completed" =>
       /\ rows[j].draft # Text!NoDraft
       /\ \/ rows[j].agreed = rows[j].draft.version
          \/ Good(rows[j].draft) /\ rows[j].draft.text \in Drafts
RowOK == \A j \in Works : RowFine(j)
Rules(w) == Text!Owned(w) /\ Text!Row(w).status = "running"
Written(w) == writer[w].draft.version = writer[w].fence /\ writer[w].draft.text \in Drafts
WriterFine(w) ==
  /\ writer[w].at = "begin" /\ Rules(w) => writer[w].draft = Text!Row(w).draft /\ writer[w].answer = Text!Row(w).answer
  /\ writer[w].at = "begin" /\ writer[w].draft # Text!NoDraft => Backed(writer[w].work, writer[w].draft)
  /\ writer[w].at \in {"begin", "recall"} => writer[w].stage = 1
  /\ writer[w].at \in {"check", "ask", "record", "upload", "artifact"} =>
       \A i \in DOMAIN Stages : i < writer[w].stage =>
         /\ <<writer[w].work, writer[w].fence, Stages[i]>> \in calls
         /\ Stages[i] = "write" => Written(w)
  /\ writer[w].at \in {"check", "ask", "record"} => writer[w].stage \in DOMAIN Stages
  /\ writer[w].at \in {"upload", "artifact"} => writer[w].stage = Len(Stages) + 1
  /\ writer[w].at = "artifact" => Backed(writer[w].work, writer[w].draft)
  /\ writer[w].at = "finish" => writer[w].outcome \in Text!Outcomes
  /\ writer[w].at = "finish" /\ writer[w].outcome \in {"completed", "waiting_review"} =>
       writer[w].draft # Text!NoDraft /\ Backed(writer[w].work, writer[w].draft)
  /\ writer[w].at = "finish" /\ writer[w].outcome = "completed" =>
       \/ Rules(w) => Text!Row(w).agreed = writer[w].draft.version
       \/ Good(writer[w].draft) /\ writer[w].draft.text \in Drafts
WriterOK == \A w \in Workers : WriterFine(w)
Asking(j) == \E w \in Workers : writer[w].at \in {"ask", "record"} /\ writer[w].work = j /\ writer[w].fence = rows[j].fence
AskingJobs == {j \in Works : Asking(j)}
BudgetInv == Limit # 0 => spent + MaxCost * Cardinality(AskingJobs) < Limit + MaxCost * Cardinality(Works)
CreationInv == CreationTyped /\ ClaimedOK /\ ClaimsApart /\ OneText /\ RowOK /\ WriterOK /\ BudgetInv

LEMMA CreationBegins == Text!CreationAssumption /\ Text!Init => CreationInv
<1> SUFFICES ASSUME Text!CreationAssumption, Text!Init PROVE CreationInv
  OBVIOUS
<1>1. Text!NoDraft \in DraftType
  BY DEF Text!NoDraft, DraftType
<1>2. Text!Idle \in WriterType
  BY <1>1 DEF Text!Idle, WriterType
<1>3. CreationTyped
  BY <1>1, <1>2 DEF Text!Init, CreationTyped, RowType
<1>4. ClaimedOK /\ ClaimsApart
  BY DEF Text!Init, ClaimedOK, ClaimsApart, Busy, Text!Idle
<1>5. OneText /\ RowOK /\ WriterOK
  BY DEF Text!Init, OneText, RowOK, RowFine, Answered, WriterOK, WriterFine, Text!Idle
<1>6. BudgetInv
  <2>1. AskingJobs = {}
    BY DEF Text!Init, AskingJobs, Asking, Text!Idle
  <2>2. Cardinality(AskingJobs) = 0 /\ Cardinality(Works) \in Nat
    BY <2>1, FS_EmptySet, WorksFinite
  <2>3. ASSUME Limit # 0 PROVE spent + MaxCost * Cardinality(AskingJobs) < Limit + MaxCost * Cardinality(Works)
    <3>1. PICK n \in Nat : n = Cardinality(Works)
      BY <2>2
    <3>2. MaxCost * n \in Nat
      BY <3>1 DEF Text!CreationAssumption
    <3> QED BY <2>2, <2>3, <3>1, <3>2 DEF Text!Init, Text!CreationAssumption
  <2> QED BY <2>3 DEF BudgetInv
<1> QED BY <1>3, <1>4, <1>5, <1>6 DEF CreationInv

\* Arithmetic of the budget: fewer callers, less that may still be recorded.
LEMMA Products == ASSUME NEW a \in Nat, NEW m \in Nat, NEW n \in Nat, m =< n
               PROVE  a * m \in Nat /\ a * n \in Nat /\ a * m =< a * n
<1>1. PICK k \in Nat : n = m + k
  <2>1. n - m \in Nat /\ n = m + (n - m)
    OBVIOUS
  <2> QED BY <2>1
<1>2. a * n = a * m + a * k
  BY <1>1
<1>3. a * k \in Nat /\ a * m \in Nat
  OBVIOUS
<1> QED BY <1>2, <1>3

LEMMA Counts ==
  ASSUME Text!CreationAssumption, NEW S \in SUBSET Works, NEW T \in SUBSET S
  PROVE  /\ IsFiniteSet(S) /\ Cardinality(S) \in Nat /\ Cardinality(T) \in Nat
         /\ Cardinality(T) =< Cardinality(S) /\ Cardinality(S) =< Cardinality(Works)
BY WorksFinite, FS_Subset, FS_CardinalityType

\* As long as no more creations ask and nothing is spent, the budget is kept.
LEMMA BudgetShrinks ==
  ASSUME Text!CreationAssumption, CreationTyped, BudgetInv, spent' = spent, AskingJobs' \subseteq AskingJobs
  PROVE  BudgetInv'
<1>1. PICK m \in Nat, n \in Nat : m = Cardinality(AskingJobs') /\ n = Cardinality(AskingJobs) /\ m =< n
  BY Counts DEF AskingJobs
<1>2. MaxCost * m \in Nat /\ MaxCost * n \in Nat /\ MaxCost * m =< MaxCost * n
  BY <1>1, Products DEF Text!CreationAssumption
<1>3. PICK r : r = Limit + MaxCost * Cardinality(Works)
  OBVIOUS
<1>4. r \in Nat
  <2>1. Cardinality(Works) \in Nat
    BY WorksFinite
  <2> QED BY <1>3, <2>1 DEF Text!CreationAssumption
<1> QED BY <1>1, <1>2, <1>3, <1>4 DEF BudgetInv, CreationTyped

LEMMA StageFacts ==
  ASSUME Text!CreationAssumption
  PROVE  /\ DOMAIN Stages = 1 .. Len(Stages) /\ Len(Stages) \in Nat
         /\ \E i \in DOMAIN Stages : Stages[i] = "write"
         /\ \A i, j \in DOMAIN Stages : i =< j /\ Stages[i] = "write" =>
              Stages[j] # "plan" /\ (Stages[j] = "review" => i < j)
<1>1. CASE Stages = <<"plan", "write", "review">>
  <2>1. DOMAIN Stages = 1 .. 3 /\ Len(Stages) = 3
    BY <1>1
  <2>2. Stages[1] = "plan" /\ Stages[2] = "write" /\ Stages[3] = "review"
    BY <1>1
  <2> QED BY <2>1, <2>2
<1>2. CASE Stages = <<"write", "review">>
  <2>1. DOMAIN Stages = 1 .. 2 /\ Len(Stages) = 2
    BY <1>2
  <2>2. Stages[1] = "write" /\ Stages[2] = "review"
    BY <1>2
  <2> QED BY <2>1, <2>2
<1> QED BY <1>1, <1>2 DEF Text!CreationAssumption

\* A handler moves on, and stays one of the job's row as it is.
Moves(w) ==
  /\ rows' = rows /\ \E z \in WriterType : writer' = [writer EXCEPT ![w] = z]
  /\ Busy(w) /\ Busy(w)' /\ writer'[w].at # "begin"
  /\ writer'[w].work = writer[w].work /\ writer'[w].fence = writer[w].fence
  /\ stored \subseteq stored' /\ calls \subseteq calls'

LEMMA OthersStand ==
  ASSUME Text!CreationAssumption, CreationInv, NEW w \in Workers, Moves(w)
  PROVE  /\ writer' \in [Workers -> WriterType]
         /\ \A v \in Workers \ {w} : writer'[v] = writer[v] /\ WriterFine(v)'
         /\ ClaimedOK' /\ ClaimsApart' /\ RowOK'
<1>1. /\ writer' \in [Workers -> WriterType]
      /\ \A v \in Workers \ {w} : writer'[v] = writer[v]
  BY DEF CreationInv, CreationTyped, Moves
<1>2. ASSUME NEW j, NEW draft, Backed(j, draft) PROVE Backed(j, draft)'
  BY <1>2 DEF Backed, Moves
<1>3. ASSUME NEW v \in Workers \ {w} PROVE WriterFine(v)'
  <2>1. WriterFine(v) /\ writer'[v] = writer[v] /\ rows' = rows
    BY <1>1 DEF CreationInv, WriterOK, Moves
  <2>2. calls \subseteq calls'
    BY DEF Moves
  <2>3. Rules(v)' = Rules(v) /\ Text!Row(v)' = Text!Row(v) /\ Written(v)' = Written(v)
    BY <2>1 DEF Rules, Text!Owned, Text!Row, Written
  <2>4. Backed(writer[v].work, writer[v].draft) => Backed(writer[v].work, writer[v].draft)'
    BY <2>1 DEF Backed, Moves
  <2>5. Good(writer[v].draft)' = Good(writer[v].draft)
    BY <2>1 DEF Good
  <2> QED BY <2>1, <2>2, <2>3, <2>4, <2>5 DEF WriterFine
<1>4. ClaimedOK'
  <2>1. ASSUME NEW v \in Workers
        PROVE  (~ Busy(v) => writer[v] = Text!Idle)' /\ (Busy(v) => writer[v].work \in Works /\ writer[v].fence # 0 /\ writer[v].fence =< Text!Row(v).fence)'
    <3>1. CASE v = w
      BY <3>1 DEF CreationInv, ClaimedOK, Moves, Text!Row
    <3>2. CASE v # w
      BY <1>1, <3>2 DEF CreationInv, ClaimedOK, Moves, Text!Row, Busy
    <3> QED BY <3>1, <3>2
  <2> QED BY <2>1 DEF ClaimedOK
<1>5. ClaimsApart'
  <2>1. \A v \in Workers : /\ Busy(v)' = Busy(v) /\ writer'[v].work = writer[v].work
                           /\ writer'[v].fence = writer[v].fence
    BY <1>1 DEF Moves, Busy
  <2> QED BY <2>1 DEF CreationInv, ClaimsApart
<1>6. RowOK'
  <2>1. ASSUME NEW j \in Works PROVE RowFine(j)'
    BY <1>2 DEF CreationInv, RowOK, RowFine, Moves, Good, Answered
  <2> QED BY <2>1 DEF RowOK
<1> QED BY <1>1, <1>3, <1>4, <1>5, <1>6

\* What a handler that asks nothing leaves to be shown.
LEMMA HandlerStands ==
  ASSUME Text!CreationAssumption, CreationInv, NEW w \in Workers, Moves(w), CreationTyped', OneText', WriterFine(w)', BudgetInv'
  PROVE  CreationInv'
<1>1. WriterOK'
  BY OthersStand DEF WriterOK
<1> QED BY <1>1, OthersStand DEF CreationInv

LEMMA AskingStands ==
  ASSUME Text!CreationAssumption, CreationInv, NEW w \in Workers, Moves(w), spent' = spent,
         writer'[w].at \in {"ask", "record"} => writer[w].at \in {"ask", "record"}
  PROVE  BudgetInv'
<1>1. CreationTyped /\ BudgetInv /\ \A v \in Workers \ {w} : writer'[v] = writer[v]
  BY OthersStand DEF CreationInv
<1>2. ASSUME NEW j \in Works, Asking(j)' PROVE Asking(j)
  BY <1>1, <1>2 DEF Asking, Moves
<1>3. AskingJobs' \subseteq AskingJobs
  BY <1>2 DEF AskingJobs
<1> QED BY <1>1, <1>3, BudgetShrinks DEF CreationTyped, Moves, BudgetInv

LEMMA HandlerSteps ==
  ASSUME Text!CreationAssumption, CreationInv, NEW w \in Workers,
         Text!Begin(w) \/ Text!Fail(w) \/ Text!Recall(w) \/ Text!Check(w) \/ Text!Ask(w) \/ Text!Record(w) \/ Text!Upload(w) \/ Text!Artifact(w)
  PROVE  CreationInv'
<1>1. /\ CreationTyped /\ ClaimedOK /\ OneText /\ WriterFine(w) /\ BudgetInv /\ RowOK
      /\ writer[w] \in WriterType /\ writer \in [Workers -> WriterType]
  BY DEF CreationInv, CreationTyped, WriterOK
<1>2. ASSUME NEW at \in {"begin", "recall", "check", "ask", "record", "upload", "artifact", "finish"},
             NEW stage \in Nat, NEW try \in Nat, NEW draft \in DraftType, NEW outcome \in Text!Outcomes \cup {None}
      PROVE  [writer[w] EXCEPT !.at = at, !.stage = stage, !.try = try, !.draft = draft, !.outcome = outcome]
               \in WriterType
  BY <1>1 DEF WriterType
<1>3. Text!NoDraft \in DraftType
  BY DEF Text!NoDraft, DraftType
<1>4. /\ writer[w].work \in Works \cup {None} /\ writer[w].fence \in Nat /\ writer[w].stage \in Nat
      /\ writer[w].try \in Nat /\ writer[w].draft \in DraftType /\ writer[w].outcome \in Text!Outcomes \cup {None}
  BY <1>1 DEF WriterType
<1>5. Stages \in {<<"plan", "write", "review">>, <<"write", "review">>}
  BY DEF Text!CreationAssumption
<1>6. Text!Again(w) \in Text!Outcomes
  BY DEF Text!Again, Text!Outcomes
<1>7. ASSUME NEW outcome \in Text!Outcomes, Text!Ends(w, outcome)
      PROVE  /\ writer'[w].at = "finish" /\ writer'[w].outcome = outcome /\ writer'[w].draft = writer[w].draft
             /\ writer'[w].work = writer[w].work /\ writer'[w].fence = writer[w].fence
             /\ \E z \in WriterType : writer' = [writer EXCEPT ![w] = z]
  <2>1. PICK z : z = [writer[w] EXCEPT !.at = "finish", !.outcome = outcome]
    OBVIOUS
  <2>2. z \in WriterType
    BY <1>1, <1>7, <2>1 DEF WriterType
  <2>3. writer' = [writer EXCEPT ![w] = z]
    BY <1>1, <1>7, <2>1 DEF Text!Ends
  <2>4. writer'[w] = z
    BY <1>1, <2>3
  <2>5. /\ z.at = "finish" /\ z.outcome = outcome /\ z.draft = writer[w].draft
        /\ z.work = writer[w].work /\ z.fence = writer[w].fence
    BY <1>1, <2>1 DEF WriterType
  <2> QED BY <2>2, <2>3, <2>4, <2>5
<1>8. ASSUME NEW at \in {"check", "ask", "record", "upload", "artifact"}, Text!Goes(w, at)
      PROVE  /\ writer'[w].at = at /\ writer'[w].draft = writer[w].draft /\ writer'[w].stage = writer[w].stage
             /\ writer'[w].work = writer[w].work /\ writer'[w].fence = writer[w].fence
             /\ \E z \in WriterType : writer' = [writer EXCEPT ![w] = z]
  <2>1. PICK z : z = [writer[w] EXCEPT !.at = at]
    OBVIOUS
  <2>2. z \in WriterType
    BY <1>1, <2>1 DEF WriterType
  <2>3. writer' = [writer EXCEPT ![w] = z]
    BY <1>1, <1>8, <2>1 DEF Text!Goes
  <2>4. writer'[w] = z
    BY <1>1, <2>3
  <2>5. /\ z.at = at /\ z.draft = writer[w].draft /\ z.stage = writer[w].stage
        /\ z.work = writer[w].work /\ z.fence = writer[w].fence
    BY <1>1, <2>1 DEF WriterType
  <2> QED BY <2>2, <2>3, <2>4, <2>5
\* What a failure, or another attempt, leaves.
<1>9. ASSUME NEW outcome \in {"failed", "accepted"}, Text!Ends(w, outcome), Busy(w),
             rows' = rows, spent' = spent, stored' = stored, calls \subseteq calls'
      PROVE  CreationInv'
  <2>1. outcome \in Text!Outcomes /\ outcome \notin {"completed", "waiting_review"}
    BY DEF Text!Outcomes
  <2>2. Moves(w) /\ writer'[w].at = "finish" /\ writer'[w].outcome = outcome
    BY <1>7, <1>9, <2>1 DEF Moves, Busy
  <2>3. WriterFine(w)'
    BY <2>1, <2>2 DEF WriterFine
  <2>4. CreationTyped'
    BY <1>1, <1>9, <2>2, OthersStand DEF CreationTyped
  <2>5. OneText'
    BY <1>1, <1>9 DEF OneText
  <2> QED BY <1>9, <2>2, <2>3, <2>4, <2>5, HandlerStands, AskingStands
\* What going on to the next await leaves.
<1>10. ASSUME NEW at \in {"check", "ask", "record", "artifact"}, Text!Goes(w, at), WriterFine(w)', OneText',
              rows' = rows, spent' = spent, calls' = calls, stored \subseteq stored',
              stored' \subseteq [work : Works, version : Nat, text : Drafts \cup {None}], Busy(w), BudgetInv'
       PROVE  CreationInv'
  <2>1. Moves(w)
    BY <1>8, <1>10 DEF Moves, Busy
  <2>2. CreationTyped'
    BY <1>1, <1>10, <2>1, OthersStand DEF CreationTyped
  <2> QED BY <1>10, <2>1, <2>2, HandlerStands
<1>11. ASSUME NEW at \in {"check", "ask", "record", "artifact"}, Text!Goes(w, at), Busy(w),
              rows' = rows, spent' = spent, stored \subseteq stored', calls \subseteq calls',
              at \in {"ask", "record"} => writer[w].at \in {"ask", "record"}
       PROVE  BudgetInv'
  <2>1. Moves(w) /\ writer'[w].at = at
    BY <1>8, <1>11 DEF Moves, Busy
  <2> QED BY <1>11, <2>1, AskingStands
<1>12. CASE Text!Begin(w)
  <2>1. Busy(w) /\ writer[w].at = "begin" /\ rows' = rows /\ spent' = spent /\ stored' = stored /\ calls' = calls
    BY <1>12 DEF Text!Begin, Text!At, Busy, Text!kept
  <2>2. CASE writer[w].draft # Text!NoDraft /\ writer[w].answer # "revise"
    <3>1. Text!Ends(w, "completed") /\ "completed" \in Text!Outcomes
      BY <1>12, <2>2 DEF Text!Begin, Text!Outcomes
    <3>2. Moves(w) /\ writer'[w].at = "finish" /\ writer'[w].outcome = "completed" /\ writer'[w].draft = writer[w].draft
      BY <1>7, <2>1, <3>1 DEF Moves, Busy
    <3>3. Backed(writer[w].work, writer[w].draft)'
      BY <1>1, <2>1, <2>2, <3>2 DEF WriterFine, Backed, Moves
    <3>4. Rules(w)' => Text!Row(w)'.agreed = writer'[w].draft.version
      <4>1. Rules(w)' = Rules(w) /\ Text!Row(w)' = Text!Row(w)
        BY <3>2 DEF Moves, Rules, Text!Owned, Text!Row
      <4>2. Rules(w) => writer[w].draft = Text!Row(w).draft /\ writer[w].answer = Text!Row(w).answer
        BY <1>1, <2>1 DEF WriterFine
      <4>3. Rules(w) => Answered(Text!Row(w))
        BY <1>1, <2>1 DEF ClaimedOK, RowOK, RowFine, Rules, Text!Row
      <4> QED BY <2>2, <3>2, <4>1, <4>2, <4>3 DEF Answered
    <3>5. WriterFine(w)'
      BY <2>2, <3>1, <3>2, <3>3, <3>4 DEF WriterFine, Moves
    <3>6. CreationTyped' /\ OneText'
      BY <1>1, <2>1, <3>2, OthersStand DEF CreationTyped, OneText
    <3> QED BY <2>1, <3>2, <3>5, <3>6, HandlerStands, AskingStands
  <2>3. CASE ~ (writer[w].draft # Text!NoDraft /\ writer[w].answer # "revise")
    <3>1. PICK z : z = [writer[w] EXCEPT !.at = "recall", !.draft = Text!NoDraft]
      OBVIOUS
    <3>2. writer' = [writer EXCEPT ![w] = z]
      BY <1>1, <1>12, <2>3, <3>1 DEF Text!Begin
    <3>3. z \in WriterType /\ z.at = "recall" /\ z.work = writer[w].work /\ z.fence = writer[w].fence /\ z.stage = writer[w].stage
      BY <1>1, <1>3, <3>1 DEF WriterType
    <3>4. writer'[w] = z
      BY <1>1, <3>2
    <3>5. Moves(w)
      BY <2>1, <3>2, <3>3, <3>4 DEF Moves, Busy
    <3>6. WriterFine(w)'
      BY <1>1, <2>1, <3>3, <3>4 DEF WriterFine
    <3>7. CreationTyped' /\ OneText'
      BY <1>1, <2>1, <3>5, OthersStand DEF CreationTyped, OneText
    <3> QED BY <2>1, <3>3, <3>4, <3>5, <3>6, <3>7, HandlerStands, AskingStands
  <2> QED BY <2>2, <2>3
<1>13. CASE Text!Fail(w)
  BY <1>9, <1>13 DEF Text!Fail, Busy, Text!kept
<1>14. CASE Text!Recall(w)
  <2>1. Busy(w) /\ writer[w].at = "recall" /\ rows' = rows /\ spent' = spent /\ stored' = stored /\ calls' = calls
    BY <1>14 DEF Text!Recall, Text!At, Busy, Text!kept
  <2>2. CASE Text!Ends(w, Text!Again(w))
    BY <1>9, <2>1, <2>2 DEF Text!Again
  <2>3. CASE Text!Goes(w, "check")
    <3>1. WriterFine(w)'
      BY <1>1, <1>5, <1>8, <2>1, <2>3 DEF WriterFine
    <3>2. BudgetInv' /\ OneText'
      BY <1>1, <1>11, <2>1, <2>3 DEF OneText
    <3> QED BY <1>1, <1>10, <2>1, <2>3, <3>1, <3>2 DEF CreationTyped
  <2> QED BY <1>14, <2>2, <2>3 DEF Text!Recall
<1>15. CASE Text!Check(w)
  <2>1. Busy(w) /\ writer[w].at = "check" /\ rows' = rows /\ spent' = spent /\ stored' = stored /\ calls' = calls
    BY <1>15 DEF Text!Check, Text!At, Busy, Text!kept
  <2>2. CASE ~ Text!Unspent
    BY <1>9, <1>15, <2>1, <2>2 DEF Text!Check
  <2>3. CASE Text!Unspent
    <3>1. Text!Goes(w, "ask")
      BY <1>15, <2>3 DEF Text!Check
    <3>2. WriterFine(w)'
      BY <1>1, <1>8, <2>1, <3>1 DEF WriterFine, Written
    <3>3. BudgetInv'
      <4>1. PICK m \in Nat, n \in Nat : m = Cardinality(AskingJobs') /\ n = Cardinality(Works) /\ m =< n
        BY Counts DEF AskingJobs
      <4>2. MaxCost * m \in Nat /\ MaxCost * n \in Nat /\ MaxCost * m =< MaxCost * n
        BY <4>1, Products DEF Text!CreationAssumption
      <4> QED BY <1>1, <2>1, <2>3, <4>1, <4>2 DEF BudgetInv, Text!Unspent, CreationTyped, Text!CreationAssumption
    <3>4. OneText'
      BY <1>1, <2>1 DEF OneText
    <3> QED BY <1>1, <1>10, <2>1, <3>1, <3>2, <3>3, <3>4 DEF CreationTyped
  <2> QED BY <2>2, <2>3
<1>16. CASE Text!Ask(w)
  <2>1. Busy(w) /\ writer[w].at = "ask" /\ rows' = rows /\ spent' = spent /\ stored' = stored /\ calls' = calls
    BY <1>16 DEF Text!Ask, Text!At, Busy, Text!kept
  <2>2. CASE Text!Ends(w, Text!Again(w))
    BY <1>9, <2>1, <2>2 DEF Text!Again
  <2>3. CASE Text!Goes(w, "record")
    <3>1. WriterFine(w)'
      BY <1>1, <1>8, <2>1, <2>3 DEF WriterFine, Written
    <3>2. BudgetInv' /\ OneText'
      BY <1>1, <1>11, <2>1, <2>3 DEF OneText
    <3> QED BY <1>1, <1>10, <2>1, <2>3, <3>1, <3>2 DEF CreationTyped
  <2> QED BY <1>16, <2>2, <2>3 DEF Text!Ask
<1>17. CASE Text!Record(w)
  <2>1. /\ Busy(w) /\ writer[w].at = "record" /\ Text!Owned(w) /\ rows' = rows /\ stored' = stored
        /\ calls' = calls \cup {<<writer[w].work, writer[w].fence, Text!Stage(w)>>}
    BY <1>17 DEF Text!Record, Text!At, Busy
  <2>2. PICK cost \in 0 .. MaxCost : spent' = spent + cost
    BY <1>17 DEF Text!Record, Text!CreationAssumption
  <2>3. writer[w].stage \in DOMAIN Stages /\ Text!Stage(w) = Stages[writer[w].stage]
    BY <1>1, <2>1 DEF WriterFine, Text!Stage
  <2>4. ASSUME Moves(w), writer'[w].at \notin {"ask", "record"} PROVE BudgetInv'
    <3>1. PICK j : j = writer[w].work
      OBVIOUS
    <3>2. j \in Works /\ Asking(j)
      BY <1>1, <2>1, <3>1 DEF ClaimedOK, Asking, Text!Owned, Text!Row
    <3>3. ASSUME NEW k \in Works, Asking(k)' PROVE Asking(k) /\ k # j
      <4>1. PICK v \in Workers : writer'[v].at \in {"ask", "record"} /\ writer'[v].work = k /\ writer'[v].fence = rows[k].fence
        BY <2>1, <3>3 DEF Asking
      <4>2. v # w /\ writer'[v] = writer[v]
        BY <2>4, <4>1, OthersStand
      <4>3. k # j
        BY <2>1, <3>1, <4>1, <4>2 DEF CreationInv, ClaimsApart, Text!Owned, Text!Row, Busy
      <4> QED BY <4>1, <4>2, <4>3 DEF Asking
    <3>4. PICK O : O = AskingJobs
      OBVIOUS
    <3>5. AskingJobs' \subseteq O \ {j} /\ j \in O /\ O \subseteq Works
      BY <3>2, <3>3, <3>4 DEF AskingJobs
    <3>6. PICK m \in Nat, n \in Nat : m = Cardinality(AskingJobs') /\ n = Cardinality(O) /\ m + 1 =< n
      <4>1. IsFiniteSet(O) /\ Cardinality(O) \in Nat
        BY <3>5, Counts
      <4>2. Cardinality(O \ {j}) = Cardinality(O) - 1
        BY <3>5, <4>1, FS_RemoveElement
      <4>3. Cardinality(AskingJobs') \in Nat /\ Cardinality(O \ {j}) \in Nat /\ Cardinality(AskingJobs') =< Cardinality(O \ {j})
        BY <3>5, Counts
      <4> QED BY <4>1, <4>2, <4>3
    <3>7. MaxCost * (m + 1) \in Nat /\ MaxCost * n \in Nat /\ MaxCost * (m + 1) =< MaxCost * n
      BY <3>6, Products DEF Text!CreationAssumption
    <3>8. MaxCost * (m + 1) = MaxCost * m + MaxCost /\ MaxCost * m \in Nat
      BY <3>6 DEF Text!CreationAssumption
    <3>9. PICK r \in Nat : r = Limit + MaxCost * Cardinality(Works)
      <4>1. Cardinality(Works) \in Nat
        BY WorksFinite
      <4> QED BY <4>1 DEF Text!CreationAssumption
    <3>10. MaxCost \in Nat /\ spent \in Nat
      BY <1>1 DEF Text!CreationAssumption, CreationTyped
    <3> QED BY <1>1, <2>2, <3>4, <3>6, <3>7, <3>8, <3>9, <3>10 DEF BudgetInv
  <2>5. ASSUME Moves(w), WriterFine(w)', writer'[w].at \notin {"ask", "record"} PROVE CreationInv'
    <3>1. CreationTyped'
      BY <1>1, <2>1, <2>2, <2>5, OthersStand DEF CreationTyped, Text!CreationAssumption
    <3>2. OneText'
      BY <1>1, <2>1 DEF OneText
    <3> QED BY <2>4, <2>5, <3>1, <3>2, HandlerStands
  <2>6. CASE Text!Unreadable(w) /\ writer[w].try # 1
    <3>1. Text!Ends(w, "failed") /\ "failed" \in Text!Outcomes
      BY <2>6 DEF Text!Unreadable, Text!Outcomes
    <3>2. Moves(w) /\ writer'[w].at = "finish" /\ writer'[w].outcome = "failed"
      BY <1>7, <2>1, <3>1 DEF Moves, Busy
    <3>3. WriterFine(w)'
      BY <3>1, <3>2 DEF WriterFine
    <3> QED BY <2>5, <3>2, <3>3
  <2>7. CASE Text!Unreadable(w) /\ writer[w].try = 1
    <3>1. PICK z : z = [writer[w] EXCEPT !.at = "check", !.try = 2]
      OBVIOUS
    <3>2. writer' = [writer EXCEPT ![w] = z]
      BY <1>1, <2>7, <3>1 DEF Text!Unreadable
    <3>3. /\ z \in WriterType /\ z.at = "check" /\ z.work = writer[w].work /\ z.fence = writer[w].fence
          /\ z.stage = writer[w].stage /\ z.draft = writer[w].draft
      BY <1>1, <3>1 DEF WriterType
    <3>4. writer'[w] = z
      BY <1>1, <3>2
    <3>5. Moves(w)
      BY <2>1, <3>2, <3>3, <3>4 DEF Moves, Busy
    <3>6. WriterFine(w)'
      BY <1>1, <2>1, <3>3, <3>4 DEF WriterFine, Written
    <3> QED BY <2>5, <3>3, <3>4, <3>5, <3>6
  <2>8. ASSUME NEW draft \in DraftType, Text!Onward(w, draft),
               \A i \in DOMAIN Stages : i =< writer[w].stage /\ Stages[i] = "write" =>
                 draft.version = writer[w].fence /\ draft.text \in Drafts
        PROVE  CreationInv'
    <3>0. PICK at \in {"upload", "check"} : at = IF writer[w].stage = Len(Stages) THEN "upload" ELSE "check"
      OBVIOUS
    <3>1. PICK z : z = [writer[w] EXCEPT !.at = at, !.stage = writer[w].stage + 1, !.try = 1, !.draft = draft]
      OBVIOUS
    <3>2. writer' = [writer EXCEPT ![w] = z]
      BY <1>1, <2>8, <3>0, <3>1 DEF Text!Onward
    <3>3. /\ z \in WriterType /\ z.work = writer[w].work /\ z.fence = writer[w].fence
          /\ z.stage = writer[w].stage + 1 /\ z.draft = draft /\ z.at = at
      <4>1. writer[w].stage + 1 \in Nat
        BY <1>4
      <4> QED BY <1>1, <2>8, <3>1, <4>1 DEF WriterType
    <3>4. writer'[w] = z
      BY <1>1, <3>2
    <3>5. Moves(w)
      BY <2>1, <3>2, <3>3, <3>4 DEF Moves, Busy
    <3>6. ASSUME NEW i \in DOMAIN Stages, i < z.stage
          PROVE  /\ <<z.work, z.fence, Stages[i]>> \in calls'
                 /\ Stages[i] = "write" => z.draft.version = z.fence /\ z.draft.text \in Drafts
      <4>1. i \in Nat /\ i =< writer[w].stage /\ (i < writer[w].stage \/ i = writer[w].stage)
        BY <1>4, <1>5, <3>3, <3>6
      <4>2. <<z.work, z.fence, Stages[i]>> \in calls'
        BY <1>1, <2>1, <2>3, <3>3, <4>1 DEF WriterFine
      <4> QED BY <2>8, <3>3, <4>1, <4>2
    <3>7. /\ z.at = "check" => z.stage \in DOMAIN Stages
          /\ z.at = "upload" => z.stage = Len(Stages) + 1
          /\ z.at \in {"check", "upload"}
      BY <1>4, <2>3, <3>0, <3>3, StageFacts
    <3>8. WriterFine(w)'
      BY <3>4, <3>6, <3>7 DEF WriterFine, Written
    <3> QED BY <2>5, <3>4, <3>5, <3>7, <3>8
  <2>9. CASE Text!Stage(w) = "plan" /\ Text!Onward(w, Text!NoDraft)
    <3>1. \A i \in DOMAIN Stages : i =< writer[w].stage => Stages[i] # "write"
      BY <2>3, <2>9, StageFacts
    <3> QED BY <1>3, <2>8, <2>9, <3>1
  <2>10. CASE Text!Stage(w) = "write" /\ \E text \in Drafts : Text!Onward(w, [version |-> writer[w].fence, text |-> text, liked |-> FALSE])
    <3>1. PICK text \in Drafts : Text!Onward(w, [version |-> writer[w].fence, text |-> text, liked |-> FALSE])
      BY <2>10
    <3>2. PICK draft : draft = [version |-> writer[w].fence, text |-> text, liked |-> FALSE]
      OBVIOUS
    <3>3. draft \in DraftType /\ draft.version = writer[w].fence /\ draft.text \in Drafts
      BY <1>4, <3>2 DEF DraftType
    <3> QED BY <2>8, <3>1, <3>2, <3>3
  <2>11. CASE Text!Stage(w) = "review" /\ \E liked \in BOOLEAN : Text!Onward(w, [writer[w].draft EXCEPT !.liked = liked])
    <3>1. PICK liked \in BOOLEAN : Text!Onward(w, [writer[w].draft EXCEPT !.liked = liked])
      BY <2>11
    <3>2. PICK draft : draft = [writer[w].draft EXCEPT !.liked = liked]
      OBVIOUS
    <3>3. draft \in DraftType /\ draft.version = writer[w].draft.version /\ draft.text = writer[w].draft.text
      BY <1>4, <3>2 DEF DraftType
    <3>4. \A i \in DOMAIN Stages : i =< writer[w].stage /\ Stages[i] = "write" => i < writer[w].stage
      BY <2>3, <2>11, StageFacts
    <3>5. \A i \in DOMAIN Stages : i < writer[w].stage /\ Stages[i] = "write" => Written(w)
      BY <1>1, <2>1 DEF WriterFine
    <3> QED BY <2>8, <3>1, <3>2, <3>3, <3>4, <3>5 DEF Written
  <2> QED BY <1>17, <2>6, <2>7, <2>9, <2>10, <2>11 DEF Text!Record
<1>18. CASE Text!Upload(w)
  <2>1. PICK o : o = [work |-> writer[w].work, version |-> writer[w].draft.version, text |-> writer[w].draft.text]
    OBVIOUS
  <2>2. /\ Busy(w) /\ writer[w].at = "upload" /\ rows' = rows /\ spent' = spent /\ calls' = calls
        /\ stored' = stored \cup {o} /\ Text!Goes(w, "artifact")
        /\ \A p \in stored : p.work = o.work /\ p.version = o.version => p.text = o.text
    BY <1>18, <2>1 DEF Text!Upload, Text!At, Busy
  <2>3. writer[w].work \in Works /\ o \in [work : Works, version : Nat, text : Drafts \cup {None}]
    BY <1>1, <1>4, <2>1, <2>2 DEF ClaimedOK, DraftType
  <2>4. OneText'
    BY <1>1, <2>2, <2>3 DEF OneText, CreationTyped
  <2>5. \A i \in DOMAIN Stages : <<writer[w].work, writer[w].fence, Stages[i]>> \in calls /\ (Stages[i] = "write" => Written(w))
    BY <1>1, <2>2, StageFacts DEF WriterFine
  <2>6. Written(w)
    BY <2>5, StageFacts
  <2>7. Backed(writer[w].work, writer[w].draft)'
    <3>1. writer'[w].work = writer[w].work /\ writer'[w].draft = writer[w].draft
      BY <1>8, <2>2
    <3> QED BY <2>1, <2>2, <2>5, <2>6, <3>1 DEF Backed, Written
  <2>8. WriterFine(w)'
    BY <1>1, <1>8, <2>2, <2>7 DEF WriterFine, Written
  <2>9. BudgetInv'
    BY <1>11, <2>2
  <2> QED BY <1>1, <1>10, <2>2, <2>3, <2>4, <2>8, <2>9 DEF CreationTyped
<1>19. CASE Text!Artifact(w)
  <2>1. Busy(w) /\ writer[w].at = "artifact" /\ rows' = rows /\ spent' = spent /\ stored' = stored /\ calls' = calls
    BY <1>19 DEF Text!Artifact, Text!At, Busy, Text!kept
  <2>2. PICK outcome \in Text!Outcomes : /\ Text!Ends(w, outcome)
                                    /\ outcome = IF Text!Approved(writer[w].draft) THEN "completed" ELSE "waiting_review"
    BY <1>19 DEF Text!Artifact, Text!Outcomes
  <2>3. Moves(w) /\ writer'[w].at = "finish" /\ writer'[w].outcome = outcome /\ writer'[w].draft = writer[w].draft
    BY <1>7, <2>1, <2>2 DEF Moves, Busy
  <2>4. \A i \in DOMAIN Stages : Stages[i] = "write" => Written(w)
    <3>1. writer[w].stage = Len(Stages) + 1
      BY <1>1, <2>1 DEF WriterFine
    <3>2. \A i \in DOMAIN Stages : i < writer[w].stage
      BY <3>1, StageFacts
    <3> QED BY <1>1, <2>1, <3>2 DEF WriterFine
  <2>5. writer[w].draft.text \in Drafts /\ writer[w].draft.version = writer[w].fence
    BY <2>4, StageFacts DEF Written
  <2>6. writer[w].draft # Text!NoDraft
    BY <1>1, <2>1, <2>5 DEF Text!NoDraft, ClaimedOK
  <2>7. Backed(writer[w].work, writer[w].draft)'
    BY <1>1, <2>1, <2>3 DEF WriterFine, Backed, Moves
  <2>8. outcome = "completed" => Good(writer[w].draft)
    BY <2>2 DEF Text!Approved, Good
  <2>9. WriterFine(w)'
    BY <2>2, <2>3, <2>5, <2>6, <2>7, <2>8 DEF WriterFine, Moves, Good
  <2>10. CreationTyped' /\ OneText'
    BY <1>1, <2>1, <2>3, OthersStand DEF CreationTyped, OneText
  <2> QED BY <2>1, <2>3, <2>9, <2>10, HandlerStands, AskingStands
<1> QED BY <1>12, <1>13, <1>14, <1>15, <1>16, <1>17, <1>18, <1>19

\* What the job does, and a process that goes, leave.
LEMMA JobStands ==
  ASSUME Text!CreationAssumption, CreationInv, UNCHANGED Text!kept, rows' \in [Works -> RowType], RowOK',
         \A j \in Works : /\ rows'[j].fence = rows[j].fence
                          /\ rows'[j].live /\ rows'[j].status = "running" =>
                               /\ rows[j].live /\ rows[j].status = "running" /\ rows'[j].draft = rows[j].draft
                               /\ rows'[j].answer = rows[j].answer /\ rows'[j].agreed = rows[j].agreed,
         writer' \in [Workers -> WriterType],
         \A w \in Workers : writer'[w] = writer[w] \/ writer'[w] = Text!Idle
  PROVE  CreationInv'
<1>1. CreationTyped /\ ClaimedOK /\ ClaimsApart /\ OneText /\ WriterOK /\ BudgetInv
  BY DEF CreationInv
<1>2. spent' = spent /\ calls' = calls /\ stored' = stored
  BY DEF Text!kept
<1>3. ASSUME NEW w \in Workers, writer'[w].at # "idle"
      PROVE  writer'[w] = writer[w] /\ Busy(w) /\ writer[w].work \in Works
  BY <1>1, <1>3 DEF Text!Idle, ClaimedOK, Busy
<1>4. CreationTyped' /\ OneText'
  BY <1>1, <1>2 DEF CreationTyped, OneText
<1>5. ClaimedOK'
  <2>1. ASSUME NEW w \in Workers
        PROVE  (~ Busy(w) => writer[w] = Text!Idle)'
               /\ (Busy(w) => writer[w].work \in Works /\ writer[w].fence # 0 /\ writer[w].fence =< Text!Row(w).fence)'
    BY <1>1, <1>3 DEF ClaimedOK, Busy, Text!Row, Text!Idle
  <2> QED BY <2>1 DEF ClaimedOK
<1>6. ClaimsApart'
  BY <1>1, <1>3 DEF ClaimsApart, Busy
<1>7. ASSUME NEW w \in Workers PROVE WriterFine(w)'
  <2>1. CASE writer'[w].at = "idle"
    BY <2>1 DEF WriterFine
  <2>2. CASE writer'[w].at # "idle"
    <3>1. writer'[w] = writer[w] /\ WriterFine(w) /\ writer[w].work \in Works
      BY <1>1, <1>3, <2>2 DEF WriterOK
    <3>2. Rules(w)' => /\ Rules(w) /\ Text!Row(w)'.draft = Text!Row(w).draft /\ Text!Row(w)'.answer = Text!Row(w).answer
                       /\ Text!Row(w)'.agreed = Text!Row(w).agreed
      BY <3>1 DEF Rules, Text!Owned, Text!Row
    <3> QED BY <1>2, <3>1, <3>2 DEF WriterFine, Written, Backed, Good
  <2> QED BY <2>1, <2>2
<1>8. BudgetInv'
  <2>1. ASSUME NEW j \in Works, Asking(j)' PROVE Asking(j)
    BY <1>3, <2>1 DEF Asking
  <2> QED BY <1>1, <1>2, <2>1, BudgetShrinks DEF AskingJobs
<1> QED BY <1>4, <1>5, <1>6, <1>7, <1>8 DEF CreationInv, WriterOK

LEMMA RowsStand ==
  ASSUME Text!CreationAssumption, CreationInv, UNCHANGED Text!kept, NEW j \in Works, NEW row \in RowType,
         rows' = [rows EXCEPT ![j] = row], row.fence = rows[j].fence,
         row.live /\ row.status = "running" =>
           /\ rows[j].live /\ rows[j].status = "running" /\ row.draft = rows[j].draft
           /\ row.answer = rows[j].answer /\ row.agreed = rows[j].agreed,
         RowFine(j)',
         writer' \in [Workers -> WriterType],
         \A w \in Workers : writer'[w] = writer[w] \/ writer'[w] = Text!Idle
  PROVE  CreationInv'
<1>1. rows \in [Works -> RowType] /\ RowOK /\ calls' = calls /\ stored' = stored
  BY DEF CreationInv, CreationTyped, Text!kept
<1>2. rows' \in [Works -> RowType] /\ rows'[j] = row /\ \A k \in Works \ {j} : rows'[k] = rows[k]
  BY <1>1
<1>3. ASSUME NEW k \in Works \ {j} PROVE RowFine(k)'
  BY <1>1, <1>2 DEF RowOK, RowFine, Backed, Good, Answered
<1>4. RowOK'
  BY <1>3 DEF RowOK
<1> QED BY <1>2, <1>4, JobStands

LEMMA JobSteps ==
  ASSUME Text!CreationAssumption, CreationInv, NEW j \in Works,
         Text!Submit(j) \/ Text!AskCancel(j) \/ Text!AskResume(j) \/ Text!Expire(j)
  PROVE  CreationInv'
<1>1. /\ rows \in [Works -> RowType] /\ writer \in [Workers -> WriterType] /\ rows[j] \in RowType /\ RowFine(j)
  BY DEF CreationInv, CreationTyped, RowOK
<1>2. UNCHANGED Text!kept /\ writer' = writer /\ calls' = calls /\ stored' = stored
  BY DEF Text!Submit, Text!AskCancel, Text!AskResume, Text!Expire, Text!kept
<1>3. ASSUME NEW stands \in {"none", "running", "cancel_requested", "cancelled"} \cup Text!Outcomes, NEW live \in BOOLEAN, NEW draft \in {rows[j].draft, Text!NoDraft},
             rows' = [rows EXCEPT ![j] = [rows[j] EXCEPT !.status = stands, !.live = live, !.draft = draft]],
             live => rows[j].live /\ stands \in {"running", "cancel_requested"},
             stands \notin {"none", "completed"},
             stands = "running" => rows[j].status = "running" /\ draft = rows[j].draft,
             stands \in {"accepted", "running", "cancel_requested"} =>
               rows[j].status \in {"none", "accepted", "running", "cancel_requested"}
      PROVE  CreationInv'
  <2>1. PICK row : row = [rows[j] EXCEPT !.status = stands, !.live = live, !.draft = draft]
    OBVIOUS
  <2>2. rows' = [rows EXCEPT ![j] = row]
    BY <1>1, <1>3, <2>1
  <2>3. /\ row \in RowType /\ row.status = stands /\ row.live = live /\ row.fence = rows[j].fence /\ row.draft = draft
        /\ row.answer = rows[j].answer /\ row.agreed = rows[j].agreed
    <3>1. rows[j].draft \in DraftType /\ Text!NoDraft \in DraftType
      <4>1. rows[j].draft \in DraftType
        BY <1>1 DEF RowType
      <4> QED BY <4>1 DEF Text!NoDraft, DraftType
    <3>2. PICK d \in DraftType : d = draft
      BY <3>1
    <3>3. row = [rows[j] EXCEPT !.status = stands, !.live = live, !.draft = d]
      BY <2>1, <3>2
    <3> QED BY <1>1, <3>2, <3>3 DEF RowType
  <2>4. rows'[j] = row
    BY <1>1, <2>2
  <2>5. RowFine(j)'
    BY <1>1, <1>2, <1>3, <2>3, <2>4 DEF RowFine, Backed, Answered
  <2> QED BY <1>1, <1>2, <1>3, <2>2, <2>3, <2>5, RowsStand
<1>4. CASE Text!AskResume(j)
  <2>1. PICK answer \in {"approve", "revise"} :
          rows' = [rows EXCEPT ![j].status = "accepted", ![j].answer = answer,
                               ![j].agreed = IF answer = "approve" THEN rows[j].draft.version ELSE @]
    BY <1>4 DEF Text!AskResume
  <2>2. PICK agreed : agreed = IF answer = "approve" THEN rows[j].draft.version ELSE rows[j].agreed
    OBVIOUS
  <2>3. PICK row : row = [rows[j] EXCEPT !.status = "accepted", !.answer = answer, !.agreed = agreed]
    OBVIOUS
  <2>4. rows' = [rows EXCEPT ![j] = row]
    BY <1>1, <2>1, <2>2, <2>3
  <2>5. agreed \in Nat
    BY <1>1, <2>2 DEF RowType, DraftType
  <2>6. /\ row \in RowType /\ row.status = "accepted" /\ row.live = rows[j].live /\ row.fence = rows[j].fence
        /\ row.draft = rows[j].draft /\ row.answer = answer /\ row.agreed = agreed
    BY <1>1, <2>3, <2>5 DEF RowType, Text!Outcomes
  <2>7. rows'[j] = row
    BY <1>1, <2>4
  <2>8. ~ rows[j].live
    BY <1>1, <1>4 DEF Text!AskResume, RowFine
  <2>9. RowFine(j)'
    BY <1>1, <1>2, <2>2, <2>6, <2>7, <2>8 DEF RowFine, Backed, Answered
  <2> QED BY <1>1, <1>2, <2>4, <2>6, <2>8, <2>9, RowsStand
<1>5. rows[j].live \in BOOLEAN /\ (rows[j].live => rows[j].status \in {"running", "cancel_requested"})
  BY <1>1 DEF RowType, RowFine
<1>6. CASE Text!Submit(j)
  <2>1. /\ rows' = [rows EXCEPT ![j] = [rows[j] EXCEPT !.status = "accepted", !.live = rows[j].live, !.draft = rows[j].draft]]
        /\ rows[j].status = "none" /\ ~ rows[j].live
    BY <1>1, <1>5, <1>6 DEF Text!Submit, RowType
  <2>2. "accepted" \in {"none", "running", "cancel_requested", "cancelled"} \cup Text!Outcomes
    BY DEF Text!Outcomes
  <2>3. PICK stands \in {"none", "running", "cancel_requested", "cancelled"} \cup Text!Outcomes, live \in BOOLEAN :
          stands = "accepted" /\ live = rows[j].live
    BY <1>5, <2>2
  <2> QED BY <1>3, <2>1, <2>3
<1>7. CASE Text!AskCancel(j)
  <2>1. PICK stands \in {"cancel_requested", "cancelled"} :
           stands = IF rows[j].status = "running" THEN "cancel_requested" ELSE "cancelled"
    OBVIOUS
  <2>2. /\ rows' = [rows EXCEPT ![j] = [rows[j] EXCEPT !.status = stands, !.live = rows[j].live, !.draft = Text!NoDraft]]
        /\ rows[j].status \in {"accepted", "waiting_review", "running"}
    BY <1>1, <1>7, <2>1 DEF Text!AskCancel, RowType
  <2>3. PICK live \in BOOLEAN : live = rows[j].live
    BY <1>5
  <2>4. live => rows[j].live /\ stands \in {"running", "cancel_requested"}
    BY <1>5, <2>1, <2>2, <2>3
  <2> QED BY <1>3, <2>1, <2>2, <2>3, <2>4
<1>8. CASE Text!Expire(j)
  <2>1. PICK stands : stands = IF rows[j].status = "cancel_requested" THEN "cancelled" ELSE rows[j].status
    OBVIOUS
  <2>2. rows[j].live /\ rows' = [rows EXCEPT ![j] = [rows[j] EXCEPT !.status = stands, !.live = FALSE, !.draft = rows[j].draft]]
    BY <1>1, <1>8, <2>1 DEF Text!Expire, RowType
  <2>3. /\ rows[j].status \in {"running", "cancel_requested"} /\ stands \in {"running", "cancelled"}
        /\ stands = "running" => rows[j].status = "running"
    BY <1>5, <2>1, <2>2
  <2>4. PICK draft \in {rows[j].draft, Text!NoDraft} : draft = rows[j].draft
    OBVIOUS
  <2>5. rows' = [rows EXCEPT ![j] = [rows[j] EXCEPT !.status = stands, !.live = FALSE, !.draft = draft]]
    BY <2>2, <2>4
  <2> QED BY <1>3, <2>3, <2>4, <2>5
<1> QED BY <1>4, <1>6, <1>7, <1>8

LEMMA TakenStands ==
  ASSUME Text!CreationAssumption, CreationInv, NEW w \in Workers, NEW j \in Works, Text!Claim(w, j)
  PROVE  CreationInv'
<1>1. /\ CreationTyped /\ ClaimedOK /\ ClaimsApart /\ OneText /\ RowOK /\ WriterOK /\ BudgetInv /\ RowFine(j)
      /\ rows[j] \in RowType /\ rows \in [Works -> RowType] /\ writer \in [Workers -> WriterType]
  BY DEF CreationInv, CreationTyped, RowOK
<1>2. PICK n \in Nat : n = rows[j].fence + 1
  BY <1>1 DEF RowType
<1>3. PICK row : row = [rows[j] EXCEPT !.status = "running", !.fence = n, !.live = TRUE]
  OBVIOUS
<1>4. PICK z : z = [Text!Idle EXCEPT !.work = j, !.fence = n, !.at = "begin", !.answer = rows[j].answer, !.draft = rows[j].draft]
  OBVIOUS
<1>5. rows' = [rows EXCEPT ![j] = row]
  BY <1>1, <1>2, <1>3 DEF Text!Claim, RowType
<1>6. writer' = [writer EXCEPT ![w] = z]
  BY <1>2, <1>4 DEF Text!Claim
<1>7. /\ row \in RowType /\ row.status = "running" /\ row.fence = n /\ row.live = TRUE
      /\ row.draft = rows[j].draft /\ row.answer = rows[j].answer /\ row.agreed = rows[j].agreed
  BY <1>1, <1>3 DEF RowType
<1>8. /\ z \in WriterType /\ z.work = j /\ z.fence = n /\ z.at = "begin" /\ z.stage = 1
      /\ z.answer = rows[j].answer /\ z.draft = rows[j].draft
  BY <1>1, <1>4 DEF Text!Idle, Text!NoDraft, WriterType, RowType
<1>9. /\ rows'[j] = row /\ writer'[w] = z
      /\ \A k \in Works \ {j} : rows'[k] = rows[k]
      /\ \A v \in Workers \ {w} : writer'[v] = writer[v]
  BY <1>1, <1>5, <1>6
<1>10. spent' = spent /\ calls' = calls /\ stored' = stored
  BY DEF Text!Claim, Text!kept
<1>11. writer[w] = Text!Idle /\ ~ Busy(w) /\ rows[j].status \in {"accepted", "running"}
  BY DEF Text!Claim, Busy, Text!Idle
<1>12. ASSUME NEW v \in Workers \ {w}, Busy(v)
       PROVE  /\ writer[v].work \in Works /\ writer[v].fence # 0 /\ writer[v].fence \in Nat
              /\ writer[v].fence =< rows[writer[v].work].fence /\ rows[writer[v].work].fence \in Nat
  BY <1>1, <1>12 DEF ClaimedOK, Text!Row, WriterType, RowType
<1>13. CreationTyped' /\ OneText'
  BY <1>1, <1>5, <1>6, <1>7, <1>8, <1>10 DEF CreationTyped, OneText
<1>14. ClaimedOK'
  <2>1. ASSUME NEW v \in Workers
        PROVE  (~ Busy(v) => writer[v] = Text!Idle)'
               /\ (Busy(v) => writer[v].work \in Works /\ writer[v].fence # 0 /\ writer[v].fence =< Text!Row(v).fence)'
    <3>1. CASE v = w
      <4>1. n # 0 /\ n =< row.fence
        BY <1>1, <1>2, <1>7 DEF RowType
      <4>2. writer'[v].work = j /\ writer'[v].fence = n /\ writer'[v].at = "begin"
        BY <1>8, <1>9, <3>1
      <4>3. rows'[writer'[v].work].fence = row.fence
        BY <1>9, <4>2
      <4> QED BY <4>1, <4>2, <4>3 DEF Busy, Text!Row
    <3>2. CASE v # w
      <4>1. writer'[v] = writer[v] /\ (~ Busy(v) => writer[v] = Text!Idle)
        BY <1>1, <1>9, <3>2 DEF ClaimedOK
      <4>2. \A k \in Works : rows[k].fence \in Nat /\ rows[k].fence =< rows'[k].fence
        BY <1>1, <1>2, <1>7, <1>9 DEF RowType
      <4>3. ASSUME Busy(v)
            PROVE  /\ writer[v].work \in Works /\ writer[v].fence # 0
                   /\ writer[v].fence =< rows'[writer[v].work].fence
        <5>1. PICK k \in Works : k = writer[v].work
          BY <1>12, <3>2, <4>3
        <5>2. PICK f \in Nat : f = writer[v].fence /\ f # 0 /\ f =< rows[k].fence
          BY <1>12, <3>2, <4>3, <5>1
        <5>3. PICK a \in Nat : a = rows[k].fence
          BY <4>2
        <5>4. a =< rows'[k].fence
          BY <4>2, <5>3
        <5>5. rows'[k].fence \in Nat
          BY <1>2, <1>7, <1>9, <4>2
        <5> QED BY <5>1, <5>2, <5>3, <5>4, <5>5
      <4> QED BY <4>1, <4>3 DEF Busy, Text!Row
    <3> QED BY <3>1, <3>2
  <2> QED BY <2>1 DEF ClaimedOK
<1>15. ClaimsApart'
  <2>1. ASSUME NEW u \in Workers, NEW v \in Workers, writer'[u].at # "idle", writer'[v].at # "idle",
               writer'[u].work = writer'[v].work, writer'[u].fence = writer'[v].fence, u # v
        PROVE  FALSE
    <3>1. CASE u # w /\ v # w
      BY <1>1, <1>9, <2>1, <3>1 DEF ClaimsApart, Busy
    <3>2. ASSUME NEW x \in Workers \ {w}, Busy(x), writer[x].work = j, writer[x].fence = n PROVE FALSE
      BY <1>2, <1>12, <3>2
    <3>3. CASE u = w
      BY <1>8, <1>9, <2>1, <3>2, <3>3 DEF Busy
    <3>4. CASE v = w
      BY <1>8, <1>9, <2>1, <3>2, <3>4 DEF Busy
    <3> QED BY <3>1, <3>3, <3>4
  <2> QED BY <2>1 DEF ClaimsApart, Busy
<1>16. RowOK'
  <2>1. RowFine(j)'
    BY <1>1, <1>7, <1>9, <1>10, <1>11 DEF RowFine, Backed, Answered
  <2>2. ASSUME NEW k \in Works \ {j} PROVE RowFine(k)'
    BY <1>1, <1>9, <1>10 DEF RowOK, RowFine, Backed, Good, Answered
  <2> QED BY <2>1, <2>2 DEF RowOK
<1>17. WriterOK'
  <2>1. WriterFine(w)'
    BY <1>1, <1>7, <1>8, <1>9, <1>10 DEF WriterFine, Rules, Text!Owned, Text!Row, Backed, RowFine
  <2>2. ASSUME NEW v \in Workers \ {w} PROVE WriterFine(v)'
    <3>1. CASE ~ Busy(v)
      BY <1>9, <3>1 DEF WriterFine, Busy
    <3>2. CASE Busy(v)
      <4>1. writer'[v] = writer[v] /\ WriterFine(v)
        BY <1>1, <1>9 DEF WriterOK
      <4>2. Text!Owned(v)' => writer[v].work # j
        BY <1>2, <1>7, <1>9, <1>12, <3>2, <4>1 DEF Text!Owned, Text!Row
      <4>3. Rules(v)' => Rules(v) /\ Text!Row(v)' = Text!Row(v)
        BY <1>9, <1>12, <3>2, <4>1, <4>2 DEF Rules, Text!Owned, Text!Row
      <4> QED BY <1>10, <4>1, <4>3 DEF WriterFine, Written, Backed, Good
    <3> QED BY <3>1, <3>2
  <2> QED BY <2>1, <2>2 DEF WriterOK
<1>18. BudgetInv'
  <2>1. ASSUME NEW k \in Works, Asking(k)' PROVE Asking(k)
    <3>1. PICK v \in Workers : writer'[v].at \in {"ask", "record"} /\ writer'[v].work = k /\ writer'[v].fence = rows'[k].fence
      BY <2>1 DEF Asking
    <3>2. v # w /\ writer'[v] = writer[v] /\ Busy(v)
      BY <1>8, <1>9, <3>1 DEF Busy
    <3>3. k # j
      BY <1>2, <1>7, <1>9, <1>12, <3>1, <3>2
    <3> QED BY <1>9, <3>1, <3>2, <3>3 DEF Asking
  <2> QED BY <1>1, <1>10, <2>1, BudgetShrinks DEF AskingJobs
<1> QED BY <1>13, <1>14, <1>15, <1>16, <1>17, <1>18 DEF CreationInv

LEMMA EndSteps ==
  ASSUME Text!CreationAssumption, CreationInv, NEW w \in Workers, Text!Leave(w) \/ Text!Cancelled(w) \/ Text!Finish(w)
  PROVE  CreationInv'
<1>1. /\ CreationTyped /\ ClaimedOK /\ RowOK /\ WriterFine(w)
      /\ rows \in [Works -> RowType] /\ writer \in [Workers -> WriterType] /\ writer[w] \in WriterType
  BY DEF CreationInv, CreationTyped, WriterOK
<1>2. Text!NoDraft \in DraftType /\ Text!Idle \in WriterType
  BY DEF Text!NoDraft, DraftType, Text!Idle, WriterType
<1>3. /\ writer' = [writer EXCEPT ![w] = Text!Idle] /\ UNCHANGED Text!kept /\ calls' = calls /\ stored' = stored
  BY DEF Text!Leave, Text!Cancelled, Text!Finish, Text!kept
<1>4. /\ writer' \in [Workers -> WriterType]
      /\ \A v \in Workers : writer'[v] = writer[v] \/ writer'[v] = Text!Idle
  BY <1>1, <1>2, <1>3
<1>5. CASE Text!Leave(w)
  BY <1>1, <1>3, <1>4, <1>5, JobStands DEF Text!Leave, Text!kept, RowOK, RowFine, Backed, Good, Answered
<1>6. ASSUME writer[w] # Text!Idle PROVE Busy(w) /\ writer[w].work \in Works
  BY <1>1, <1>6 DEF ClaimedOK
<1>7. ASSUME NEW stands \in {"cancelled"} \cup Text!Outcomes, NEW draft \in DraftType,
             writer[w].work \in Works, Text!Owned(w),
             rows' = [rows EXCEPT ![writer[w].work].status = stands, ![writer[w].work].live = FALSE,
                                  ![writer[w].work].draft = draft],
             draft # Text!NoDraft => Backed(writer[w].work, draft),
             stands = "accepted" => draft = Text!NoDraft,
             stands = "completed" => /\ draft # Text!NoDraft
                                     /\ Text!Row(w).agreed = draft.version \/ (Good(draft) /\ draft.text \in Drafts)
      PROVE  CreationInv'
  <2>1. PICK j \in Works : j = writer[w].work
    BY <1>7
  <2>2. PICK row : row = [rows[j] EXCEPT !.status = stands, !.live = FALSE, !.draft = draft]
    OBVIOUS
  <2>3. rows[j] \in RowType /\ RowFine(j)
    BY <1>1 DEF RowOK
  <2>4. rows' = [rows EXCEPT ![j] = row]
    BY <1>1, <1>7, <2>1, <2>2, <2>3 DEF RowType
  <2>5. /\ row \in RowType /\ row.status = stands /\ row.live = FALSE /\ row.fence = rows[j].fence /\ row.draft = draft
        /\ row.answer = rows[j].answer /\ row.agreed = rows[j].agreed
    BY <2>2, <2>3 DEF RowType
  <2>6. rows'[j] = row
    BY <1>1, <2>4
  <2>7. stands \notin {"none", "running", "cancel_requested"}
    BY DEF Text!Outcomes
  <2>8. RowFine(j)'
    <3>1. draft # Text!NoDraft => Backed(j, draft)'
      BY <1>3, <1>7, <2>1 DEF Backed
    <3>2. stands = "accepted" => Answered(row)
      BY <1>7, <2>5 DEF Answered
    <3>3. stands = "completed" =>
            /\ draft # Text!NoDraft
            /\ row.agreed = draft.version \/ (Good(draft) /\ draft.text \in Drafts)
      BY <1>7, <2>1, <2>5 DEF Text!Row
    <3> QED BY <2>5, <2>6, <2>7, <3>1, <3>2, <3>3 DEF RowFine, Good, Answered
  <2> QED BY <1>3, <1>4, <2>4, <2>5, <2>8, RowsStand
<1>8. CASE Text!Cancelled(w)
  <2>1. /\ writer[w].work \in Works /\ Text!Owned(w)
        /\ rows' = [rows EXCEPT ![writer[w].work].status = "cancelled", ![writer[w].work].live = FALSE,
                                ![writer[w].work].draft = Text!NoDraft]
    BY <1>6, <1>8 DEF Text!Cancelled
  <2>2. PICK stands \in {"cancelled"} \cup Text!Outcomes, draft \in DraftType : stands = "cancelled" /\ draft = Text!NoDraft
    BY <1>2
  <2> QED BY <1>7, <2>1, <2>2
<1>9. CASE Text!Finish(w)
  <2>1. PICK stands : stands = IF Text!Row(w).status = "cancel_requested" THEN "cancelled" ELSE writer[w].outcome
    OBVIOUS
  <2>2. PICK draft : draft = IF stands \in {"completed", "waiting_review"} THEN writer[w].draft ELSE Text!NoDraft
    OBVIOUS
  <2>3. /\ writer[w].at = "finish" /\ Text!Owned(w) /\ writer[w].work \in Works
        /\ rows' = [rows EXCEPT ![writer[w].work].status = stands, ![writer[w].work].live = FALSE,
                                ![writer[w].work].draft = draft]
    BY <1>1, <1>9, <2>1, <2>2 DEF Text!Finish, Text!At, Busy, ClaimedOK
  <2>4. writer[w].outcome \in Text!Outcomes /\ draft \in DraftType
    BY <1>1, <1>2, <2>2, <2>3 DEF WriterType, WriterFine
  <2>5. stands \in {"cancelled"} \cup Text!Outcomes
    BY <2>1, <2>4
  <2>6. stands \in {"completed", "waiting_review"} => Rules(w) /\ stands = writer[w].outcome /\ draft = writer[w].draft
    BY <1>1, <2>1, <2>2, <2>3 DEF Rules, RowOK, RowFine, Text!Owned, Text!Row
  <2> QED BY <1>1, <1>7, <2>1, <2>2, <2>3, <2>4, <2>5, <2>6 DEF WriterFine, Text!Outcomes
<1> QED BY <1>5, <1>8, <1>9

LEMMA CreationSteps == Text!CreationAssumption /\ CreationInv /\ [Text!Next]_(Text!vars) => CreationInv'
<1> SUFFICES ASSUME Text!CreationAssumption, CreationInv, [Text!Next]_(Text!vars) PROVE CreationInv'
  OBVIOUS
<1>1. CASE Text!Next
  BY <1>1, HandlerSteps, JobSteps, TakenStands, EndSteps DEF Text!Next
<1>2. CASE UNCHANGED Text!vars
  <2>1. UNCHANGED Text!kept /\ rows' = rows /\ writer' = writer /\ calls' = calls /\ stored' = stored
    BY <1>2 DEF Text!vars, Text!kept
  <2>2. RowOK'
    BY <2>1 DEF CreationInv, RowOK, RowFine, Backed, Good, Answered
  <2> QED BY <2>1, <2>2, JobStands DEF CreationInv, CreationTyped
<1> QED BY <1>1, <1>2

LEMMA StandsSoundly == Text!CreationAssumption /\ CreationInv => Text!CreatedSoundly
<1> SUFFICES ASSUME Text!CreationAssumption, CreationInv PROVE Text!CreatedSoundly
  OBVIOUS
<1>1. CreationTyped /\ RowOK /\ OneText /\ BudgetInv
  BY DEF CreationInv
<1>2. Text!BudgetKept
  <2>1. PICK m \in Nat : m = Cardinality(AskingJobs)
    BY Counts DEF AskingJobs
  <2>2. MaxCost * m \in Nat
    BY <2>1 DEF Text!CreationAssumption
  <2>3. PICK r \in Nat : r = Limit + MaxCost * Cardinality(Works)
    <3>1. Cardinality(Works) \in Nat
      BY WorksFinite
    <3> QED BY <3>1 DEF Text!CreationAssumption
  <2> QED BY <1>1, <2>1, <2>2, <2>3, SameCount DEF Text!BudgetKept, BudgetInv, CreationTyped
<1>3. Text!DraftsBacked
  <2>1. ASSUME NEW j \in Works, rows[j].draft # Text!NoDraft
        PROVE  /\ \A o \in stored : o.work = j /\ o.version = rows[j].draft.version => o.text = rows[j].draft.text
               /\ [work |-> j, version |-> rows[j].draft.version, text |-> rows[j].draft.text] \in stored
               /\ \A i \in DOMAIN Stages : <<j, rows[j].draft.version, Stages[i]>> \in calls
    <3>1. Backed(j, rows[j].draft)
      BY <1>1, <2>1 DEF RowOK, RowFine
    <3>2. PICK p \in stored : p = [work |-> j, version |-> rows[j].draft.version, text |-> rows[j].draft.text]
      BY <3>1 DEF Backed
    <3> QED BY <1>1, <3>1, <3>2 DEF OneText, Backed
  <2> QED BY <2>1 DEF Text!DraftsBacked
<1>4. Text!PublishedSoundly
  <2>1. ASSUME NEW j \in Works, rows[j].status = "completed"
        PROVE  /\ rows[j].draft # Text!NoDraft
               /\ \/ rows[j].agreed = rows[j].draft.version
                  \/ /\ rows[j].draft.liked /\ rows[j].draft.text \notin Weak
                     /\ Text!Sound(rows[j].draft.text, Source, Structured, Adapting)
    <3>1. /\ rows[j].draft # Text!NoDraft
          /\ rows[j].agreed = rows[j].draft.version \/ (Good(rows[j].draft) /\ rows[j].draft.text \in Drafts)
      BY <1>1, <2>1 DEF RowOK, RowFine
    <3>2. ASSUME Good(rows[j].draft), rows[j].draft.text \in Drafts
          PROVE  Text!Sound(rows[j].draft.text, Source, Structured, Adapting)
      <4>1. PICK d \in Drafts : d = rows[j].draft.text
        BY <3>2
      <4>2. Text!IsDocument(d) /\ (Source # None => Text!IsDocument(Source)) /\ Structured \in BOOLEAN /\ Adapting \in BOOLEAN
        BY DEF Text!CreationAssumption
      <4>3. Text!Findings(d, Source, Structured, Adapting) = {}
        BY <3>2, <4>1 DEF Good
      <4> QED BY <4>1, <4>2, <4>3, NothingFound
    <3> QED BY <3>1, <3>2 DEF Good
  <2> QED BY <2>1 DEF Text!PublishedSoundly
<1> QED BY <1>2, <1>3, <1>4 DEF Text!CreatedSoundly

\* Every creation by itself: the budget of the project is exceeded by less than one
\* call of each of its jobs, a draft that is shown is stored and accounted for, and
\* what is published was approved by a human, that very version, or by the model
\* and has no flaw (generate_content, create_content_graph, adapt_document).
THEOREM CreationsAlone == Text!Spec => []Text!CreatedSoundly
<1>1. Text!CreationAssumption
  BY TextAssumption
<1> QED BY <1>1, CreationBegins, CreationSteps, StandsSoundly, PTL DEF Text!Spec

-----------------------------------------------------------------------------
(* The whole plane.                                                        *)

\* A step of the plane is a step or a stutter of each part.
THEOREM PartsWithin ==
  PlaneSpec => Spec /\ Film!Spec /\ Film!CutSpec /\ Video!Spec /\ Book!Spec /\ Text!Spec
<1>1. PlaneInit => Init /\ Film!Init /\ Film!CutInit /\ Video!Init /\ Book!Init /\ Text!Init
  BY DEF PlaneInit
<1>2. [PlaneNext]_planeVars => [Next]_vars
  BY DEF PlaneNext, planeVars
<1>3. [PlaneNext]_planeVars => [Film!Next]_(Film!vars)
  BY DEF PlaneNext, planeVars, filmVars, Film!vars, Film!renderVars
<1>6. [PlaneNext]_planeVars => [Film!CutNext]_(Film!cutVars)
  BY DEF PlaneNext, planeVars, cutVars, Film!cutVars
<1>4. [PlaneNext]_planeVars => [Video!Next]_(Video!vars)
  BY DEF PlaneNext, planeVars, videoVars, Video!vars, Video!runtimeVars, Video!mediaVars
<1>5. [PlaneNext]_planeVars => [Book!Next]_(Book!vars)
  BY DEF PlaneNext, planeVars, bookVars, Book!vars
<1>7. [PlaneNext]_planeVars => [Text!Next]_(Text!vars)
  BY DEF PlaneNext, planeVars, textVars, Text!vars
<1> QED
  BY <1>1, <1>2, <1>3, <1>4, <1>5, <1>6, <1>7, PTL
  DEF PlaneSpec, Spec, Film!Spec, Film!CutSpec, Video!Spec, Book!Spec, Text!Spec

\* A generated medium is paid for once, whatever is lost, reclaimed or late.
THEOREM AskedOnce == PlaneSpec => []PaidOnce
BY AskedOnceAlone, PartsWithin, PTL

\* Nothing that may have been paid for is written off.
THEOREM NothingWrittenOff == PlaneSpec => []DoubtKept
BY NothingWrittenOffAlone, PartsWithin, PTL

\* The row, the receipt and the object of a film agree, whichever of two
\* renderers got there first (composition_runs.artifact_id).
THEOREM OneFilmOnly == PlaneSpec => []OneFilm
<1>1. Film!Spec => []Film!OneFilm
  BY FilmAssumption, Film!OneFilmOnly
<1> QED
  BY <1>1, PartsWithin, PTL DEF OneFilm

\* A render that was cancelled is not taken up again (begin, mark_cancelled).
THEOREM CancelledStays == PlaneSpec => StoppedIsStopped
<1>1. Film!Spec => Film!StoppedIsStopped
  BY FilmAssumption, Film!CancelledStays
<1> QED
  BY <1>1, PartsWithin, PTL DEF StoppedIsStopped

\* What the assembler accepts without a review the renderer renders, frame by
\* frame in step with the sound (assemble_timeline, _compose).
THEOREM RendersSoundly == PlaneSpec => []RendersInStep
<1>1. Film!CutSpec => []Film!RendersInStep
  BY CutAssumption, Film!FilmsInStep
<1> QED
  BY <1>1, PartsWithin, PTL DEF RendersInStep

\* One video is ordered per job, and only if its plan was accepted, whatever a
\* dead handler's call still does (PostgresMediaTaskStore.begin_submit).
THEOREM OrderedOnce == PlaneSpec => []OneSubmission
<1>1. Video!Spec => []Video!OneSubmission
  BY VideoAssumption, Video!OrderedOnce
<1> QED
  BY <1>1, PartsWithin, PTL DEF OneSubmission

\* The row and the provider agree on what has ended and what still runs, and
\* what an ended video cost is recorded (update_status, mark_cancelled).
THEOREM HonestEnds == PlaneSpec => []EndsHonestly
<1>1. Video!Spec => []Video!EndsHonestly
  BY VideoAssumption, Video!HonestEnds
<1> QED
  BY <1>1, PartsWithin, PTL DEF EndsHonestly

\* An order whose answer is missing is marked as unknown before a reviewer is
\* asked and before a cancellation is settled.
THEOREM DoubtShown == PlaneSpec => []DoubtIsShown
<1>1. Video!Spec => []Video!DoubtIsShown
  BY VideoAssumption, Video!DoubtShown
<1> QED
  BY <1>1, PartsWithin, PTL DEF DoubtIsShown

\* A chapter is in the book only with a check under the brief it was approved
\* under, although briefs change under drafts (bring_up_to_brief, human_review).
THEOREM BriefsKept == PlaneSpec => []Book!CheckedUnderItsBrief
<1>1. Book!Spec => []Book!CheckedUnderItsBrief
  BY BookAssumption, Book!BriefsChecked
<1> QED
  BY <1>1, PartsWithin, PTL

\* A document a job commits has every chapter, as audited and as saved, although
\* an approval is two writes that may part (approve_chapter, ContentCommit).
THEOREM BooksWhole == PlaneSpec => []Book!DocumentWhole
<1>1. Book!Spec => []Book!DocumentWhole
  BY BookAssumption, Book!DocumentsWhole
<1> QED
  BY <1>1, PartsWithin, PTL

\* What is in the book and what is committed of it (Novel).
THEOREM BooksSound == PlaneSpec => []BookSound
BY BriefsKept, BooksWhole, PTL DEF BookSound

\* The project's budget is overshot by less than a call of each creation, a draft
\* is stored and accounted for before it is shown, and what is published was
\* approved (model_budget, record_model_call, generate_content).
THEOREM CreationsSound == PlaneSpec => []CreatedSoundly
BY CreationsAlone, PartsWithin, PTL DEF CreatedSoundly

=============================================================================
