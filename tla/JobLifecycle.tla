---------------------------- MODULE JobLifecycle ----------------------------
(***************************************************************************)
(* What the Runtime promises of a job, whatever workers, leases, retries   *)
(* and duplicated commands do underneath: the states a job may move        *)
(* through (the status check of infra/migrations/.../runtime/001_init.sql  *)
(* and docs/architecture/messaging.md), that an end is final, and that a   *)
(* cancellation asked for before the end is the end.                       *)
(*                                                                         *)
(* Several jobs may move in one transaction, so a step moves any of them.  *)
(***************************************************************************)
EXTENDS Naturals

CONSTANT Jobs

VARIABLES
  state,        \* "none", or a value of runtime_jobs.status
  cancelAsked,  \* the jobs somebody asked to cancel
  published     \* the content version a completed job published, 0 for none

vars == <<state, cancelAsked, published>>

\* The moves of a job nobody asked to cancel.
Edges ==
  [none |-> {"accepted"},
   accepted |-> {"running"},
   running |-> {"accepted", "waiting_review", "completed", "failed"},
   waiting_review |-> {"accepted"}]

Init ==
  /\ state = [j \in Jobs |-> "none"]
  /\ cancelAsked = {}
  /\ published = [j \in Jobs |-> 0]

Same(j) == state'[j] = state[j] /\ published'[j] = published[j]

\* The job moves on; only a completed job publishes.
Move(j) ==
  /\ state[j] \in DOMAIN Edges
  /\ j \notin cancelAsked'
  /\ state'[j] \in Edges[state[j]]
  /\ IF state'[j] = "completed" THEN published'[j] \in Nat
                                ELSE published'[j] = published[j]

\* Asking for a cancellation ends a job no worker holds at once, and tells the
\* worker of a running one; it does nothing to a job that is not there yet or
\* that has ended.
Ask(j) ==
  /\ j \in cancelAsked'
  /\ published'[j] = published[j]
  /\ \/ state[j] \in {"accepted", "waiting_review"} /\ state'[j] = "cancelled"
     \/ state[j] = "running" /\ state'[j] = "cancel_requested"
     \/ /\ state[j] \notin {"accepted", "waiting_review", "running"}
        /\ state'[j] = state[j]

\* The asked cancellation takes effect.
Cancel(j) ==
  /\ j \in cancelAsked
  /\ state[j] \in {"none", "cancel_requested"}
  /\ state'[j] = "cancelled"
  /\ published'[j] = published[j]

Next ==
  /\ cancelAsked \subseteq cancelAsked'
  /\ \A j \in Jobs : \/ Same(j) /\ (j \in cancelAsked' => j \in cancelAsked)
                     \/ Move(j)
                     \/ Ask(j)
                     \/ Cancel(j)

Spec == Init /\ [][Next]_vars
=============================================================================
