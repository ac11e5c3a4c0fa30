----------------------------- MODULE LeasedJob -----------------------------
(***************************************************************************)
(* One Runtime job as its handlers meet it: claimed by one process at a     *)
(* time under a fencing token, taken away when the lease runs out, asked to *)
(* stop, sent back by a reviewer.  RuntimeJobs implements this for each of  *)
(* its jobs; the handlers of paid media, compositions, memory and novels    *)
(* are modelled on top of it.                                               *)
(***************************************************************************)
EXTENDS Naturals

CONSTANT Workers

VARIABLES
  job,   \* the row: [status, fence, live (its lease), resume (resume_input's action)]
  hand   \* the fencing token each process works under, 0 for none

vars == <<job, hand>>

Actions == {"approve", "revise", "reconcile"}
Leased == {"running", "cancel_requested"}
Ends == {"completed", "failed", "cancelled"}
NoRow == [status |-> "none", fence |-> 0, live |-> FALSE, resume |-> "none"]

TypeOK ==
  /\ job \in [status : {"none", "accepted", "waiting_review"} \cup Leased \cup Ends,
              fence : Nat, live : BOOLEAN, resume : Actions \cup {"none"}]
  /\ hand \in [Workers -> 0 .. job.fence]

Init == job = NoRow /\ hand = [w \in Workers |-> 0]

\* The lease of the claim f is good: _owned, and _scope of the media stores.
Good(f) == job.live /\ job.fence = f /\ job.status \in Leased

\* accept_task: cancelled at once when the cancellation came first.
Accept(s) ==
  /\ job.status = "none" /\ s \in {"accepted", "cancelled"}
  /\ job' = [job EXCEPT !.status = s]
  /\ UNCHANGED hand

\* claim_next: a due job, or one whose lease has run out.
Claim(w) ==
  /\ hand[w] = 0
  /\ \/ job.status = "accepted"
     \/ job.status = "running" /\ ~job.live
  /\ job' = [job EXCEPT !.status = "running", !.fence = @ + 1, !.live = TRUE]
  /\ hand' = [hand EXCEPT ![w] = job.fence + 1]

\* The sweep at the head of claim_next.
Sweep ==
  /\ job.status = "cancel_requested" /\ ~job.live
  /\ job' = [job EXCEPT !.status = "cancelled"]
  /\ UNCHANGED hand

AskCancel ==
  /\ job.status \in {"accepted", "waiting_review", "running"}
  /\ job' = [job EXCEPT !.status = IF @ = "running" THEN "cancel_requested" ELSE "cancelled"]
  /\ UNCHANGED hand

AskResume(a) ==
  /\ job.status = "waiting_review"
  /\ job' = [job EXCEPT !.status = "accepted", !.resume = a]
  /\ UNCHANGED hand

\* finish: a pending cancel overrides what the handler ended with.
Finish(w, s) ==
  /\ hand[w] # 0 /\ Good(hand[w])
  /\ job' = [job EXCEPT !.status = IF @ = "cancel_requested" THEN "cancelled" ELSE s,
                        !.live = FALSE]
  /\ hand' = [hand EXCEPT ![w] = 0]

\* A crash, a shutdown, a FencingTokenError: the row is left as it is.
Leave(w) == hand[w] # 0 /\ hand' = [hand EXCEPT ![w] = 0] /\ UNCHANGED job

Expire == job.live /\ job' = [job EXCEPT !.live = FALSE] /\ UNCHANGED hand

Outcomes == {"accepted", "waiting_review"} \cup Ends
Next ==
  \/ \E s \in {"accepted", "cancelled"} : Accept(s)
  \/ Sweep \/ AskCancel \/ Expire
  \/ \E a \in Actions : AskResume(a)
  \/ \E w \in Workers : Claim(w) \/ Leave(w) \/ \E s \in Outcomes : Finish(w, s)

Spec == Init /\ [][Next]_vars
=============================================================================
