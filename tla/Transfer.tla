------------------------------ MODULE Transfer ------------------------------
(***************************************************************************)
(* Exports of projects: modules/project/transfer of the Control plane.      *)
(*                                                                         *)
(* A request stores a snapshot of the project in project_transfers and      *)
(* starts a goroutine that renders it; at most Slots of them render at a    *)
(* time.  Goroutines die with their process, so a loop takes up what is     *)
(* queued and queues again what has been running for a minute - the first   *)
(* renderer may still be at it.                                            *)
(***************************************************************************)
EXTENDS Naturals, FiniteSets

CONSTANTS
  Exports,
  Tasks,       \* bound: goroutines at one time
  Slots,       \* the capacity of Service.slots
  MaxFaults,   \* bound: crashes and lost answers of the database
  MaxSlow      \* bound: rows queued again under a renderer that is still at it

VARIABLES
  export,      \* project_transfers: [status, claim, result]; claim stands for
               \* updated_at, which no two claims of a row share
  task,        \* what each goroutine of Execute does
  faults, slow

vars == <<export, task, faults, slow>>

Open == {"queued", "running"}
Ends == {"completed", "failed", "cancelled"}
Idle == [at |-> "idle"]
InSlot == {t \in Tasks : task[t].at \in {"slot", "render"}}

TypeOK ==
  /\ export \in [Exports -> [status : {"none"} \cup Open \cup Ends, claim : Nat,
                             result : {"none", "snapshot", "file"}]]
  /\ \A t \in Tasks : task[t].at \in {"idle", "waiting", "slot", "render"}
  /\ faults \in 0 .. MaxFaults /\ slow \in 0 .. MaxSlow

Init ==
  /\ export = [x \in Exports |-> [status |-> "none", claim |-> 0, result |-> "none"]]
  /\ task = [t \in Tasks |-> Idle]
  /\ faults = 0 /\ slow = 0

Becomes(x, status, result) ==
  export' = [export EXCEPT ![x] =
               [status |-> status, claim |-> export[x].claim, result |-> result]]
Starts(x) ==
  \E t \in Tasks : task[t] = Idle /\ task' = [task EXCEPT ![t] = [at |-> "waiting", x |-> x]]
Leaves(t) == task' = [task EXCEPT ![t] = Idle]
Fault == faults < MaxFaults /\ faults' = faults + 1

-----------------------------------------------------------------------------
\* POST exports/jobs: the snapshot, the row and a goroutine.
Queue(x) ==
  /\ export[x].status = "none"
  /\ Becomes(x, "queued", "snapshot")
  /\ Starts(x)
  /\ UNCHANGED <<faults, slow>>

\* Execute waits for a slot; after thirty seconds it gives up.
Take(t) ==
  /\ task[t].at = "waiting" /\ Cardinality(InSlot) < Slots
  /\ task' = [task EXCEPT ![t].at = "slot"]
  /\ UNCHANGED <<export, faults, slow>>
GiveUp(t) ==
  /\ task[t].at = "waiting" /\ Cardinality(InSlot) >= Slots
  /\ Leaves(t)
  /\ UNCHANGED <<export, faults, slow>>

\* ClaimTransfer; its answer may be lost, before or after it was committed.
Claimed(x) == [export EXCEPT ![x].status = "running", ![x].claim = @ + 1]
Claim(t) == LET x == task[t].x IN
  /\ task[t].at = "slot"
  /\ IF export[x].status = "queued"
     THEN /\ export' = Claimed(x)
          /\ task' = [task EXCEPT ![t] = [at |-> "render", x |-> x, claim |-> export'[x].claim]]
     ELSE Leaves(t) /\ export' = export
  /\ UNCHANGED <<faults, slow>>
ClaimLost(t) == LET x == task[t].x IN
  /\ task[t].at = "slot"
  /\ \/ export' = export
     \/ export[x].status = "queued" /\ export' = Claimed(x)
  /\ Leaves(t)
  /\ Fault
  /\ UNCHANGED slow

RunningStill(x, claim) == export[x].status = "running"   \* mutant: without updated_at
\* FinishTransfer is fenced by the time of the claim; a failure (the limit of
\* thirty seconds included) discards the snapshot, an error of it is ignored.
Fenced(x, claim) == export[x].status = "running" /\ export[x].claim = claim
Finish(t) == LET x == task[t].x IN
  /\ task[t].at = "render"
  /\ IF Fenced(x, task[t].claim)
     THEN Becomes(x, "completed", "file") \/ Becomes(x, "failed", "none")
     ELSE export' = export
  /\ Leaves(t)
  /\ UNCHANGED <<faults, slow>>
FinishLost(t) ==
  /\ task[t].at = "render"
  /\ Leaves(t)
  /\ Fault
  /\ UNCHANGED <<export, slow>>

Cancel(x) ==
  /\ export[x].status \in Open
  /\ Becomes(x, "cancelled", "none")
  /\ UNCHANGED <<task, faults, slow>>

-----------------------------------------------------------------------------
\* Recover, every minute: PendingTransfers queues again what has been running
\* for sixty seconds, and a goroutine starts for whatever is queued.
Renders(t, x) == task[t] = [at |-> "render", x |-> x, claim |-> export[x].claim]
Rendering(x) == \E t \in Tasks : Renders(t, x)
QueuedOnly(x) == export[x].status = "queued"           \* mutant: running rows are not aged
Pending(x) == export[x].status \in Open
Recover(x) ==
  /\ Pending(x)
  /\ IF export[x].status = "running" /\ Rendering(x)
     THEN slow < MaxSlow /\ slow' = slow + 1
     ELSE slow' = slow
  /\ Becomes(x, "queued", export[x].result)
  /\ Starts(x)
  /\ UNCHANGED faults

\* The process stops; whoever starts it again begins with Recover.
Crash ==
  /\ \E t \in Tasks : task[t] # Idle
  /\ task' = [t \in Tasks |-> Idle]
  /\ Fault
  /\ UNCHANGED <<export, slow>>

Next ==
  \/ \E x \in Exports : Queue(x) \/ Cancel(x) \/ Recover(x)
  \/ \E t \in Tasks : Take(t) \/ GiveUp(t) \/ Claim(t) \/ ClaimLost(t) \/ Finish(t) \/ FinishLost(t)
  \/ Crash

Spec == Init /\ [][Next]_vars

(***************************************************************************)
(* The loop comes round (app.go, periodic), a goroutine gets on, and a free  *)
(* slot is taken: a channel with room never lets its senders time out.      *)
(***************************************************************************)
Fairness ==
  /\ \A x \in Exports : WF_vars(Recover(x))
  /\ \A t \in Tasks : WF_vars(Take(t)) /\ WF_vars(Claim(t)) /\ WF_vars(Finish(t))

FairSpec == Spec /\ Fairness

-----------------------------------------------------------------------------
(* What must hold.                                                         *)

\* An export ends as the last of its claims says, a user's cancellation aside,
\* and keeps to it; until then the snapshot is there for the next attempt and
\* from then on a file only where it is complete ("an old worker cannot
\* overwrite a retry", service.go).
LastClaimEnds ==
  [][\A x \in Exports :
       /\ export[x].status \in Ends => export'[x].status = export[x].status
       /\ export[x].status = "running" /\ export'[x].status \in {"completed", "failed"} =>
            \E t \in Tasks : Renders(t, x) /\ task'[t] = Idle
       /\ export'[x].result =
            CASE export'[x].status \in Open -> "snapshot"
              [] export'[x].status = "completed" -> "file" [] OTHER -> "none"]_vars

\* Every export ends, although the goroutine that renders it may die with its
\* process, find no slot, or fail to store what it has rendered.
ExportEnds == \A x \in Exports : export[x].status \in Open ~> export[x].status \in Ends
=============================================================================
