-------------------------- MODULE ControlPlaneProofs --------------------------
(***************************************************************************)
(* What the parts of the Control plane promise, proved for each part and     *)
(* carried to the whole: every step of the plane is a step of one part and   *)
(* a stutter of the others (PartsWithin).  For productions and the catalogue *)
(* it takes an inductive invariant (IInv, CatalogueOK), for the catalogue    *)
(* because a version, once a row, stays as it is (VersionsGrow): what was    *)
(* published when it was bound, frozen or put into a pack is so for ever.    *)
(* The founder of a workspace is one of its users.                          *)
(***************************************************************************)
EXTENDS ControlPlane, FiniteSetTheorems, SequenceTheorems, TLAPS

Statuses == {"none", "waiting_review"} \cup Active \cup Ended
RunRows == [status : Statuses, request : Requests \cup {NoRequest}, timeline : BOOLEAN, final : BOOLEAN]
Ops == {"none", "picked", "rejected"} \cup Locking
Views == [op : Ops, seen : [Slots -> JobStatuses], target : SUBSET Slots]

Shapes ==
  /\ caller = [c \in Callers |-> Posting(caller[c].phase, caller[c].kinds, caller[c].routes)]
  /\ run \in RunRows /\ child \in [Slots -> JobStatuses] /\ committed \subseteq Slots
  /\ tx \in [Actors -> Views]

\* What a transaction has read of a child still tells of it: nobody else creates
\* one, an end is final, and what was told to stop only ends.
Since(seen, now) ==
  /\ seen = "none" <=> now = "none"
  /\ seen \in Ended => now = seen
  /\ seen = "cancel_requested" => now \in Ended \cup {"cancel_requested"}
LocksOK ==
  /\ \A a, b \in Actors : tx[a].op \in Locking /\ tx[b].op \in Locking => a = b
  /\ \A a \in Actors : tx[a].op \in Locking =>
       run.status # "none" /\ \A s \in Slots : Since(tx[a].seen[s], child[s])

NoneYet == run.status = "none" => \A s \in Slots : child[s] = "none"
EndsHold == run.status \in {"failed", "cancelled"} => Stopped
KeyOK ==
  \A c \in Callers : caller[c].phase = "answered" =>
    run.status # "none" /\ run.request = RequestOf[c]

RunOK == NoneYet /\ EndsHold /\ KeyOK /\ StagesInOrder
IInv == Shapes /\ LocksOK /\ RunOK

\* What EndIsFinal says of a step, with what holds before and after it.
NoneStarted == \A s \in Slots : child[s] = "none" => child'[s] = "none"
EndStays ==
  run.status \in Ended =>
    /\ run'.status \in {run.status} \cup IF run.status = "failed" THEN {"cancelled"} ELSE {}
    /\ NoneStarted

StepOK == IInv' /\ EndStays

-----------------------------------------------------------------------------
(* Steps on the parent row.                                                *)

\* An actor that leaves its transaction leaves the row to others.
LEMMA LeavesLock ==
  ASSUME Shapes, LocksOK, NEW a \in Actors, tx[a].op \in Locking, NEW op \in Ops \ Locking,
         Leave(a, op)
  PROVE  tx' \in [Actors -> Views] /\ LocksOK'
<1>1. [Idle EXCEPT !.op = op] = [op |-> op, seen |-> NoChild, target |-> {}]
  BY DEF Idle
<1>2. NoChild \in [Slots -> JobStatuses]
  BY DEF NoChild, JobStatuses
<1>3. tx' \in [Actors -> Views]
  BY <1>1, <1>2 DEF Shapes, Leave, Views
<1>4. \A b \in Actors : tx'[b].op \notin Locking
  BY <1>1 DEF Shapes, LocksOK, Leave
<1> QED
  BY <1>3, <1>4 DEF LocksOK

\* The assets never include the timeline or the film.
LEMMA AssetSlots ==
  ASSUME NEW r PROVE Assemble \notin Assets(r) /\ Compose \notin Assets(r)
BY DEF Assets, Assemble, Compose, Music

LEMMA AssetsKnown == ASSUME NEW r PROVE Assets(r) \subseteq Slots
<1>1. {"visual"} \X (Shots \ r.visualOf) \subseteq Slots
  BY DEF Slots
<1>2. {"audio"} \X (IF r.speech THEN Spoken \ r.audioOf ELSE {}) \subseteq Slots
  BY RequestAssumption DEF Slots
<1>3. {"effect"} \X (IF r.effects THEN Lasting ELSE {}) \subseteq Slots
  BY RequestAssumption DEF Slots
<1>4. (IF r.music THEN {Music} ELSE {}) \subseteq Slots
  BY DEF Slots, Music
<1> QED
  BY <1>1, <1>2, <1>3, <1>4 DEF Assets

LEMMA KnownSlots == Assemble \in Slots /\ Compose \in Slots /\ Assemble # Compose
BY DEF Slots, Assemble, Compose

\* Nothing but the children of a run that has begun, none of them new, none that
\* has ended: stages and keys stand.
ChildrenMove ==
  \A s \in Slots : /\ child[s] = "none" <=> child'[s] = "none"
                   /\ child[s] \in Ended => child'[s] = child[s]

LEMMA StagesStand ==
  ASSUME StagesInOrder, ChildrenMove, UNCHANGED committed, run'.request = run.request,
         run'.status = "completed" => UNCHANGED run
  PROVE  StagesInOrder'
BY KnownSlots, AssetsKnown DEF StagesInOrder, ChildrenMove, Ended

\* Cancelling the children that were seen alive stops whatever is alive.
LEMMA CancelStops ==
  ASSUME Shapes, LocksOK, NEW a \in Actors, tx[a].op \in Locking, CancelChildren(tx[a].seen)
  PROVE  child' \in [Slots -> JobStatuses] /\ Stopped' /\ ChildrenMove
<1> DEFINE seen == tx[a].seen
<1>1. \A s \in Slots : Since(seen[s], child[s]) /\ seen[s] \in JobStatuses /\ child[s] \in JobStatuses
  BY DEF LocksOK, Shapes, Views
<1>2. child' = [s \in Slots |-> IF s \in ToCancel(seen) THEN "cancel_requested" ELSE child[s]]
  BY DEF CancelChildren
<1>3. \A s \in ToCancel(seen) : child[s] \notin Ended
  BY DEF CancelChildren
<1>4. \A s \in Slots : s \in ToCancel(seen) <=> seen[s] \notin Ended \cup {"none", "cancel_requested"}
  BY DEF ToCancel
<1>5. child' \in [Slots -> JobStatuses]
  BY <1>1, <1>2 DEF JobStatuses
<1>6. Stopped'
  BY <1>1, <1>2, <1>4 DEF Stopped, Since
<1>7. ChildrenMove
  BY <1>1, <1>2, <1>3, <1>4 DEF ChildrenMove, Since, Ended
<1> QED
  BY <1>5, <1>6, <1>7

-----------------------------------------------------------------------------
(* One lemma for each kind of step.                                        *)

\* Nothing but what an actor has read changes.
Held == UNCHANGED <<caller, route, run, child, committed>>
LEMMA HeldKeeps ==
  ASSUME IInv, Held, tx' \in [Actors -> Views], LocksOK'
  PROVE  StepOK
<1> USE DEF IInv, Held
<1>1. Shapes'
  BY DEF Shapes
<1>2. RunOK'
  BY DEF RunOK, NoneYet, EndsHold, Stopped, KeyOK, StagesInOrder
<1>3. EndStays
  BY DEF EndStays, NoneStarted
<1> QED
  BY <1>1, <1>2, <1>3 DEF StepOK

LEMMA RollBackKeeps ==
  ASSUME IInv, NEW a \in Actors, tx[a].op \in Locking, NEW op \in {"none", "rejected"},
         RollBack(a, op)
  PROVE  StepOK
<1>1. op \in Ops \ Locking /\ Leave(a, op) /\ Held
  BY DEF Ops, Locking, RollBack, Held
<1> QED
  BY <1>1, LeavesLock, HeldKeeps DEF IInv

LEMMA PickKeeps == ASSUME IInv, NEW a \in Actors, Pick(a) PROVE StepOK
<1>1. tx' \in [Actors -> Views]
  BY DEF Pick, IInv, Shapes, Views, Ops
<1>2. \A b \in Actors : tx'[b].op \in Locking => tx[b].op \in Locking /\ tx'[b] = tx[b]
  BY DEF Pick, IInv, Shapes, Locking
<1>3. Held
  BY DEF Pick, Held
<1>4. LocksOK'
  BY <1>2, <1>3 DEF IInv, LocksOK, Held
<1> QED
  BY <1>1, <1>3, <1>4, HeldKeeps

LEMMA BeginKeeps ==
  ASSUME IInv, NEW a \in Actors, NEW op \in Locking, NEW T \in SUBSET Slots, Begin(a, op, T)
  PROVE  StepOK
<1>1. [op |-> op, seen |-> child, target |-> T] \in Views
  BY DEF IInv, Shapes, Views, Ops
<1>2. tx' \in [Actors -> Views]
  BY <1>1 DEF Begin, IInv, Shapes
<1>3. \A b \in Actors : tx'[b].op \in Locking => b = a
  BY DEF Begin, LockFree, IInv, Shapes
<1>4. tx'[a].seen = child /\ run.status # "none" /\ Held
  BY DEF Begin, IInv, Shapes, Held
<1>5. \A s \in Slots : Since(child[s], child[s])
  BY DEF Since
<1>6. LocksOK'
  BY <1>3, <1>4, <1>5 DEF LocksOK, Held
<1> QED
  BY <1>2, <1>4, <1>6, HeldKeeps

\* The children are told to stop and the run has failed or is cancelled.
LEMMA StopsKeep ==
  ASSUME IInv, NEW a \in Actors, tx[a].op \in Locking, CancelChildren(tx[a].seen),
         NEW status \in {"failed", "cancelled"}, run' = [run EXCEPT !.status = status],
         run.status # "completed", run.status = "cancelled" => status = "cancelled",
         Leave(a, "none"), UNCHANGED <<caller, route, committed>>
  PROVE  StepOK
<1> USE DEF IInv
<1>1. child' \in [Slots -> JobStatuses] /\ Stopped' /\ ChildrenMove
  BY CancelStops
<1>2. tx' \in [Actors -> Views] /\ LocksOK'
  BY LeavesLock DEF Ops, Locking
<1>3. /\ run' \in RunRows /\ run'.status = status /\ run'.request = run.request
      /\ run.status # "none"
  BY DEF Shapes, RunRows, Statuses, Ended, LocksOK
<1>4. Shapes'
  BY <1>1, <1>2, <1>3 DEF Shapes
<1>5. StagesInOrder'
  BY <1>1, <1>3, StagesStand DEF RunOK
<1>6. NoneYet' /\ EndsHold' /\ KeyOK'
  BY <1>1, <1>3 DEF RunOK, NoneYet, EndsHold, KeyOK
<1>7. EndStays
  BY <1>1, <1>3 DEF EndStays, NoneStarted, ChildrenMove, Ended
<1> QED
  BY <1>2, <1>4, <1>5, <1>6, <1>7 DEF StepOK, RunOK

\* A pause, and the reviews that are answered: the run stays open.
LEMMA OpenKeeps ==
  ASSUME IInv, NEW a \in Actors, tx[a].op \in Locking, ChildrenMove,
         child' \in [Slots -> JobStatuses],
         NEW status \in {"waiting_review", "assets"}, run' = [run EXCEPT !.status = status],
         run.status \notin Ended, NEW op \in {"none", "picked"}, Leave(a, op),
         UNCHANGED <<caller, route, committed>>
  PROVE  StepOK
<1> USE DEF IInv
<1>1. tx' \in [Actors -> Views] /\ LocksOK'
  BY LeavesLock DEF Ops, Locking
<1>2. /\ run' \in RunRows /\ run'.status = status /\ run'.request = run.request
      /\ run.status # "none"
  BY DEF Shapes, RunRows, Statuses, Active, LocksOK
<1>3. Shapes'
  BY <1>1, <1>2 DEF Shapes
<1>4. StagesInOrder'
  BY <1>2, StagesStand DEF RunOK
<1>5. NoneYet' /\ EndsHold' /\ KeyOK'
  BY <1>2 DEF RunOK, NoneYet, EndsHold, KeyOK
<1> QED
  BY <1>1, <1>3, <1>4, <1>5 DEF StepOK, RunOK, EndStays

LEMMA PausesKeeps == ASSUME IInv, NEW a \in Actors, AdvancePauses(a) PROVE StepOK
<1>1. ChildrenMove /\ child' \in [Slots -> JobStatuses]
  BY DEF AdvancePauses, ChildrenMove, IInv, Shapes
<1> QED
  BY <1>1, OpenKeeps DEF AdvancePauses, Locking

LEMMA ResumeKeeps == ASSUME IInv, NEW a \in Actors, ResumeProduction(a) PROVE StepOK
<1>1. CASE RollBack(a, "none")
  BY <1>1, RollBackKeeps DEF ResumeProduction, Locking
<1>2. CASE ~RollBack(a, "none")
  <2>1. /\ run.status = "waiting_review"
        /\ \A s \in Waiting(a) : child[s] = "waiting_review"
        /\ child' = [s \in Slots |-> IF s \in Waiting(a) THEN "queued" ELSE child[s]]
        /\ run' = [run EXCEPT !.status = "assets"]
        /\ Leave(a, "picked") /\ UNCHANGED <<caller, route, committed>>
    BY <1>2 DEF ResumeProduction
  <2>2. ChildrenMove
    BY <2>1 DEF ChildrenMove, Ended
  <2>3. child' \in [Slots -> JobStatuses]
    BY <2>1 DEF IInv, Shapes, JobStatuses
  <2> QED
    BY <2>1, <2>2, <2>3, OpenKeeps DEF ResumeProduction, Locking, Ended
<1> QED
  BY <1>1, <1>2

\* What is scheduled has its stage's versions in the database.
LEMMA SchedulesKeeps == ASSUME IInv, NEW a \in Actors, AdvanceSchedules(a) PROVE StepOK
<1> USE DEF IInv
<1> DEFINE seen == tx[a].seen
<1>1. CASE RollBack(a, "rejected")
  BY <1>1, RollBackKeeps DEF AdvanceSchedules, Locking
<1>2. CASE ~RollBack(a, "rejected")
  <2>1. /\ tx[a].op = "advance" /\ run.status \in Active
        /\ child' = [s \in Slots |-> IF s \in Missing(seen) THEN "queued" ELSE child[s]]
        /\ run' = [run EXCEPT !.status = Stage(seen),
                     !.timeline = @ \/ (Ready(seen) /\ Done(seen, Assemble)),
                     !.final = @ \/ Stage(seen) = "completed"]
        /\ Leave(a, "none") /\ UNCHANGED <<caller, route, committed>>
    BY <1>2 DEF AdvanceSchedules
  <2>2. \A s \in Slots : Since(seen[s], child[s])
    BY <2>1 DEF LocksOK, Locking
  <2>3. tx' \in [Actors -> Views] /\ LocksOK'
    BY <2>1, LeavesLock DEF Ops, Locking
  <2>4. Stage(seen) \in {"assets", "assembling", "composing", "completed"}
    BY DEF Stage
  <2>5. run.timeline \in BOOLEAN /\ run.final \in BOOLEAN
    BY DEF Shapes, RunRows
  <2>6. /\ run' = [status |-> Stage(seen), request |-> run.request,
                   timeline |-> run.timeline \/ (Ready(seen) /\ Done(seen, Assemble)),
                   final |-> run.final \/ Stage(seen) = "completed"]
        /\ run.request \in Requests \cup {NoRequest}
    BY <2>1 DEF Shapes, RunRows
  <2>7. run' \in RunRows
    BY <2>4, <2>5, <2>6 DEF RunRows, Statuses, Active, Ended
  <2>8. child' \in [Slots -> JobStatuses]
    BY <2>1 DEF Shapes, JobStatuses
  <2>9. Shapes'
    BY <2>1, <2>3, <2>7, <2>8 DEF Shapes
  <2>10. \A s \in Slots : Done(seen, s) => child[s] = "completed" /\ child'[s] = "completed" /\ s \in committed
    BY <2>1, <2>2 DEF Done, Since, Ended, Missing
  <2>11. \A s \in Slots : child[s] = "completed" => child'[s] = "completed"
    BY <2>1, <2>2 DEF Missing, Since
  <2>12. StagesInOrder'
    <3>1. Ready(seen) => \A s \in Assets(run.request) : child'[s] = "completed" /\ s \in committed
      BY <2>10, AssetsKnown DEF Ready
    <3>2. Assemble \in Missing(seen) => Ready(seen)
      BY AssetSlots DEF Missing, Assemble, Compose
    <3>3. Compose \in Missing(seen) => Ready(seen) /\ Done(seen, Assemble)
      BY AssetSlots DEF Missing, Assemble, Compose
    <3>4. child'[Assemble] # "none" =>
            \A s \in Assets(run.request) : child'[s] = "completed" /\ s \in committed
      BY <2>1, <2>11, <3>1, <3>2, KnownSlots, AssetsKnown DEF RunOK, StagesInOrder
    <3>5. child'[Compose] # "none" => Assemble \in committed /\ child'[Assemble] = "completed"
      BY <2>1, <2>10, <2>11, <3>3, KnownSlots DEF RunOK, StagesInOrder
    <3>6. Stage(seen) = "completed" => Ready(seen) /\ Done(seen, Assemble) /\ Done(seen, Compose)
      BY DEF Stage
    <3>7. run'.status = "completed" => Compose \in committed /\ run'.timeline /\ run'.final
      BY <2>6, <3>6 DEF Done
    <3>8. run'.request = run.request /\ committed' = committed
      BY <2>1, <2>6
    <3> QED
      BY <3>4, <3>5, <3>7, <3>8 DEF StagesInOrder
  <2>13. NoneYet' /\ EndsHold'
    BY <2>4, <2>6 DEF NoneYet, EndsHold
  <2>14. KeyOK'
    BY <2>1, <2>4, <2>6 DEF RunOK, KeyOK
  <2>15. EndStays
    BY <2>1 DEF EndStays, Active, Ended
  <2> QED
    BY <2>3, <2>9, <2>12, <2>13, <2>14, <2>15 DEF StepOK, RunOK
<1> QED
  BY <1>1, <1>2

LEMMA ActKeeps == ASSUME IInv, NEW a \in Actors, Act(a) PROVE StepOK
<1>1. CASE AdvanceNothing(a)
  BY <1>1, RollBackKeeps DEF AdvanceNothing, Locking
<1>2. CASE AdvanceFails(a)
  BY <1>2, RollBackKeeps, StopsKeep DEF AdvanceFails, Locking, Ended
<1>3. CASE Failover(a)
  BY <1>3, RollBackKeeps, StopsKeep DEF Failover, Locking, Active
<1>4. CASE CancelProduction(a)
  BY <1>4, RollBackKeeps, StopsKeep DEF CancelProduction, Locking
<1> QED
  BY <1>1, <1>2, <1>3, <1>4, PausesKeeps, SchedulesKeeps, ResumeKeeps DEF Act

\* A poster moves on without the row: who is answered asked for what is there.
LEMMA PosterKeeps ==
  ASSUME IInv, NEW c \in Callers, NEW phase, NEW kinds, NEW chosen,
         caller' = [caller EXCEPT ![c] = Posting(phase, kinds, chosen)],
         phase = "answered" => run.status # "none" /\ run.request = RequestOf[c],
         UNCHANGED <<run, child, committed, tx>>
  PROVE  StepOK
<1> USE DEF IInv
<1>1. Shapes'
  BY DEF Shapes, Posting
<1>2. LocksOK'
  BY DEF LocksOK
<1>3. NoneYet' /\ EndsHold' /\ StagesInOrder'
  BY DEF RunOK, NoneYet, EndsHold, Stopped, StagesInOrder
<1>4. KeyOK'
  BY DEF RunOK, KeyOK, Posting, Shapes
<1>5. EndStays
  BY DEF EndStays, NoneStarted
<1> QED
  BY <1>1, <1>2, <1>3, <1>4, <1>5 DEF StepOK, RunOK

LEMMA PostKeeps == ASSUME IInv, NEW c \in Callers, Post(c) PROVE StepOK
<1>1. CASE run.status # "none"
  BY <1>1, PosterKeeps DEF Post, Answer
<1>2. CASE run.status = "none"
  BY <1>2, PosterKeeps DEF Post
<1> QED
  BY <1>1, <1>2

LEMMA FreezeKeeps == ASSUME IInv, NEW c \in Callers, FreezeKind(c) PROVE StepOK
<1>1. PICK k, r : caller' = [caller EXCEPT ![c].kinds = k, ![c].routes = r]
  BY DEF FreezeKind
<1>2. /\ caller = [d \in Callers |-> caller[d]]
      /\ caller[c] = [phase |-> caller[c].phase, kinds |-> caller[c].kinds, routes |-> caller[c].routes]
  BY DEF IInv, Shapes, Posting
<1>3. [caller[c] EXCEPT !.kinds = k] = [phase |-> caller[c].phase, kinds |-> k, routes |-> caller[c].routes]
  BY <1>2
<1>4. caller'[c] = [phase |-> caller[c].phase, kinds |-> k, routes |-> r]
  BY <1>1, <1>2, <1>3
<1>5. caller' = [caller EXCEPT ![c] = Posting(caller[c].phase, k, r)]
  BY <1>1, <1>2, <1>4 DEF Posting
<1>6. caller[c].phase # "answered" /\ UNCHANGED <<run, child, committed, tx>>
  BY DEF FreezeKind
<1> QED
  BY <1>5, <1>6, PosterKeeps

\* The row is inserted once, when there is none and nobody has been answered.
LEMMA InsertKeeps == ASSUME IInv, NEW c \in Callers, InsertRun(c) PROVE StepOK
<1> USE DEF IInv
<1>1. CASE InsertOutcome(c) = "insert"
  <2>1. run.status = "none"
    BY <1>1 DEF InsertOutcome, Answer
  <2>2. /\ caller' = [caller EXCEPT ![c] = Posting("answered", 0, {})]
        /\ run' = [NoRun EXCEPT !.status = "queued", !.request = RequestOf[c]]
        /\ UNCHANGED <<child, committed, tx>>
    BY <1>1 DEF InsertRun
  <2>3. run' = [status |-> "queued", request |-> RequestOf[c], timeline |-> FALSE, final |-> FALSE]
    BY <2>2 DEF NoRun
  <2>4. RequestOf[c] \in Requests
    BY RequestAssumption
  <2>5. Shapes'
    <3>1. run' \in RunRows
      BY <2>3, <2>4 DEF RunRows, Statuses, Active
    <3>2. caller' = [d \in Callers |-> Posting(caller'[d].phase, caller'[d].kinds, caller'[d].routes)]
      BY <2>2 DEF Shapes, Posting
    <3> QED
      BY <2>2, <3>1, <3>2 DEF Shapes
  <2>6. LocksOK'
    BY <2>1, <2>2 DEF LocksOK
  <2>7. NoneYet' /\ EndsHold'
    BY <2>3 DEF NoneYet, EndsHold
  <2>8. KeyOK'
    <3>1. \A d \in Callers : caller[d].phase # "answered"
      BY <2>1 DEF RunOK, KeyOK
    <3>2. \A d \in Callers : caller'[d].phase = "answered" => d = c
      BY <2>2, <3>1 DEF Shapes, Posting
    <3> QED
      BY <2>3, <3>2 DEF KeyOK
  <2>9. StagesInOrder'
    BY <2>1, <2>2, <2>3, KnownSlots DEF RunOK, NoneYet, StagesInOrder
  <2>10. EndStays
    BY <2>1 DEF EndStays, Ended
  <2> QED
    BY <2>5, <2>6, <2>7, <2>8, <2>9, <2>10 DEF StepOK, RunOK
<1>2. CASE InsertOutcome(c) # "insert"
  <2>1. /\ caller' = [caller EXCEPT ![c] = Posting(InsertOutcome(c), 0, {})]
        /\ UNCHANGED <<run, child, committed, tx>>
    BY <1>2 DEF InsertRun
  <2>2. InsertOutcome(c) = "answered" => run.status # "none" /\ run.request = RequestOf[c]
    BY DEF InsertOutcome, Answer
  <2> QED
    BY <2>1, <2>2, PosterKeeps
<1> QED
  BY <1>1, <1>2

\* A child moves, unless it has ended; what was read of it still tells of it.
LEMMA MoveKeeps ==
  ASSUME IInv, NEW s \in Slots, NEW to \in JobStatuses, MoveChild(s, to)
  PROVE  StepOK
<1> USE DEF IInv
<1>1. /\ child[s] \in {"queued", "running", "waiting_review", "cancel_requested"}
      /\ to # "none"
      /\ child[s] = "cancel_requested" => to \in Ended
      /\ child' = [child EXCEPT ![s] = to]
      /\ UNCHANGED <<caller, run, committed, tx>>
  BY DEF MoveChild, Moves, Ended
<1>2. child' \in [Slots -> JobStatuses]
  BY <1>1 DEF Shapes
<1>3. ChildrenMove
  BY <1>1 DEF ChildrenMove, Shapes, Ended
<1>4. LocksOK'
  <2>1. \A a \in Actors, x \in Slots : Since(tx[a].seen[x], child[x]) => Since(tx[a].seen[x], child'[x])
    BY <1>1 DEF Since, Shapes, Ended
  <2> QED
    BY <1>1, <2>1 DEF LocksOK
<1>5. Shapes'
  BY <1>1, <1>2 DEF Shapes
<1>6. StagesInOrder'
  BY <1>1, <1>3, StagesStand DEF RunOK
<1>7. NoneYet' /\ KeyOK'
  BY <1>1, <1>3 DEF RunOK, NoneYet, KeyOK, ChildrenMove
<1>8. EndsHold'
  BY <1>1 DEF RunOK, EndsHold, Stopped, Shapes, Ended
<1>9. EndStays
  BY <1>1, <1>3 DEF EndStays, NoneStarted, ChildrenMove
<1> QED
  BY <1>4, <1>5, <1>6, <1>7, <1>8, <1>9 DEF StepOK, RunOK

LEMMA CommitKeeps == ASSUME IInv, NEW s \in Slots, CommitVersion(s) PROVE StepOK
<1> USE DEF IInv, CommitVersion
<1>1. Shapes' /\ LocksOK'
  BY DEF Shapes, LocksOK
<1>2. StagesInOrder'
  BY DEF RunOK, StagesInOrder
<1>3. NoneYet' /\ KeyOK' /\ EndsHold'
  BY DEF RunOK, NoneYet, KeyOK, EndsHold, Stopped
<1>4. EndStays
  BY DEF EndStays, NoneStarted
<1> QED
  BY <1>1, <1>2, <1>3, <1>4 DEF StepOK, RunOK

LEMMA NextKeeps == ASSUME IInv, Next PROVE StepOK
<1>1. CASE \E c \in Callers : Post(c) \/ FreezeKind(c) \/ InsertRun(c)
  BY <1>1, PostKeeps, FreezeKeeps, InsertKeeps
<1>2. CASE PublishRoute
  <2>1. UNCHANGED <<caller, run, child, committed, tx>>
    BY <1>2 DEF PublishRoute
  <2>2. IInv'
    BY <2>1 DEF IInv, Shapes, LocksOK, RunOK, NoneYet, EndsHold, Stopped, KeyOK, StagesInOrder
  <2> QED
    BY <2>1, <2>2 DEF StepOK, EndStays, NoneStarted
<1>3. ASSUME NEW a \in Actors,
             Pick(a) \/ BeginAdvance(a) \/ BeginFailover(a) \/ BeginCancel(a) \/ BeginResume(a)
      PROVE  StepOK
  <2>1. CASE Pick(a)
    BY <2>1, PickKeeps
  <2>2. CASE BeginAdvance(a) \/ BeginFailover(a) \/ BeginCancel(a)
    BY <2>2, BeginKeeps DEF BeginAdvance, BeginFailover, BeginCancel, Locking
  <2>3. CASE BeginResume(a)
    <3>1. PICK T \in SUBSET Slots : Begin(a, "resume", T)
      BY <2>3 DEF BeginResume
    <3> QED
      BY <3>1, BeginKeeps DEF Locking
  <2> QED
    BY <1>3, <2>1, <2>2, <2>3
<1>4. CASE \E a \in Actors : Act(a)
  BY <1>4, ActKeeps
<1>5. ASSUME NEW a \in Actors, Abort(a) PROVE StepOK
  <2>1. CASE tx[a].op \in Locking
    BY <1>5, <2>1, RollBackKeeps DEF Abort
  <2>2. CASE tx[a].op = "rejected"
    <3>1. [Idle EXCEPT !.op = "none"] \in Views
      BY DEF Idle, NoChild, JobStatuses, Views, Ops
    <3>2. tx' \in [Actors -> Views]
      BY <1>5, <3>1 DEF Abort, RollBack, Leave, IInv, Shapes
    <3>3. \A b \in Actors : tx'[b].op \in Locking => tx[b].op \in Locking /\ tx'[b] = tx[b]
      BY <1>5 DEF Abort, RollBack, Leave, Idle, IInv, Shapes, Locking
    <3>4. Held
      BY <1>5 DEF Abort, RollBack, Held
    <3>5. LocksOK'
      BY <3>3, <3>4 DEF IInv, LocksOK, Held
    <3> QED
      BY <3>2, <3>4, <3>5, HeldKeeps
  <2> QED
    BY <1>5, <2>1, <2>2 DEF Abort
<1>6. CASE \E s \in Slots : CommitVersion(s) \/ \E to \in JobStatuses : MoveChild(s, to)
  BY <1>6, CommitKeeps, MoveKeeps
<1> QED
  BY <1>1, <1>2, <1>3, <1>4, <1>5, <1>6 DEF Next

-----------------------------------------------------------------------------
\* Productions: their rows, what a transaction on the parent has read of the
\* children, and what each stage rests on (modules/production).
THEOREM RunsHold == Spec => []IInv
<1>1. Init => IInv
  <2> SUFFICES ASSUME Init PROVE IInv
    OBVIOUS
  <2> USE DEF Init
  <2>1. Shapes
    BY DEF Shapes, Posting, NoRun, RunRows, Statuses, NoChild, JobStatuses, Idle, Views, Ops
  <2>2. LocksOK
    BY DEF LocksOK, Idle, Locking
  <2>3. RunOK
    BY KnownSlots DEF RunOK, NoneYet, EndsHold, KeyOK, StagesInOrder, NoRun, NoChild, Posting
  <2> QED
    BY <2>1, <2>2, <2>3 DEF IInv
<1>2. IInv /\ [Next]_vars => IInv'
  <2>1. IInv /\ UNCHANGED vars => IInv'
    BY DEF vars, IInv, Shapes, LocksOK, RunOK, NoneYet, EndsHold, Stopped, KeyOK, StagesInOrder
  <2> QED
    BY <2>1, NextKeeps DEF StepOK
<1> QED
  BY <1>1, <1>2, PTL DEF Spec

\* Everybody who was answered under one key asked for the run that exists.
THEOREM OneRunOfProduction == Spec => []OneRunPerKey
<1>1. IInv => OneRunPerKey
  BY DEF IInv, RunOK, KeyOK, OneRunPerKey
<1> QED
  BY <1>1, RunsHold, PTL

\* A stage starts from versions that are in the database.
THEOREM StagesOfProduction == Spec => []StagesInOrder
<1>1. IInv => StagesInOrder
  BY DEF IInv, RunOK
<1> QED
  BY <1>1, RunsHold, PTL

\* A run that has ended leaves nothing running and starts nothing more.
THEOREM EndOfProduction == Spec => EndIsFinal
<1>1. IInv /\ [Next]_vars =>
        [/\ run'.status \in {"failed", "cancelled"} => Stopped'
         /\ run.status \in Ended =>
              /\ run'.status \in {run.status} \cup IF run.status = "failed" THEN {"cancelled"} ELSE {}
              /\ \A s \in Slots : child[s] = "none" => child'[s] = "none"]_vars
  BY NextKeeps DEF StepOK, IInv, RunOK, EndsHold, EndStays, NoneStarted
<1> QED
  BY <1>1, RunsHold, PTL DEF Spec, EndIsFinal

-----------------------------------------------------------------------------
(* The members.                                                            *)

-----------------------------------------------------------------------------
\* What the proof needs of the types: the functions are total, and what a
\* request names exists.
MemberShapes ==
  /\ member \in [Users -> [role : {"none"} \cup Members!Roles, disabled : BOOLEAN]]
  /\ session \in [Tokens -> Users \cup {NoUser}]
  /\ request \in [Calls ->
       {Members!Idle} \cup [op : {"login"}, by : Users]
              \cup [op : {"create"}, by : Users, member : Users, role : Members!Roles]
              \cup [op : {"change"}, by : Users, member : Users, role : Members!Roles \cup {"remove"}]]

\* The rows and the requests in flight keep their shapes (identity.go, Principal
\* and the requests of its service).
THEOREM MembersShaped == ASSUME Founder \in Users PROVE Members!Spec => []MemberShapes
<1>1. Members!Init => MemberShapes
  BY DEF Members!Init, MemberShapes
<1>2. MemberShapes /\ [Members!Next]_(Members!vars) => MemberShapes'
  <2> SUFFICES ASSUME MemberShapes, [Members!Next]_(Members!vars) PROVE MemberShapes'
    OBVIOUS
  <2> USE DEF MemberShapes, Members!Roles
  <2>1. CASE Members!Register
    BY <2>1 DEF Members!Register, Members!Opens
  <2>2. CASE \E r \in Calls, u \in Users : Members!FindLogin(r, u)
    BY <2>2 DEF Members!FindLogin, Members!Sends
  <2>3. CASE \E r \in Calls : Members!CreateSession(r)
    <3> PICK r \in Calls : Members!CreateSession(r)
      BY <2>3
    <3>1. request[r].by \in Users
      BY DEF Members!CreateSession, Members!Idle
    <3> QED
      BY <3>1 DEF Members!CreateSession, Members!Opens, Members!Leaves
  <2>4. CASE \E r \in Calls, t \in Tokens : Members!AskMember(r, t)
    <3> PICK r \in Calls, t \in Tokens : Members!AskMember(r, t)
      BY <2>4
    <3>1. PICK u \in Members!Owners :
            \/ \E m \in Users \ {Founder}, role \in Members!Roles :
                 Members!Sends(r, [op |-> "create", by |-> u, member |-> m, role |-> role])
            \/ \E m \in Users, role \in Members!Roles \cup {"remove"} :
                 Members!Sends(r, [op |-> "change", by |-> u, member |-> m, role |-> role])
      BY DEF Members!AskMember
    <3>2. u \in Users
      BY DEF Members!Owners
    <3>3. UNCHANGED <<member, session>>
      BY DEF Members!AskMember
    <3> QED
      BY <3>1, <3>2, <3>3 DEF Members!Sends
  <2>5. CASE \E r \in Calls : Members!CreateMember(r)
    <3> PICK r \in Calls : Members!CreateMember(r)
      BY <2>5
    <3>1. request[r].member \in Users /\ request[r].role \in Members!Roles
      BY DEF Members!CreateMember, Members!Idle
    <3> QED
      BY <3>1 DEF Members!CreateMember, Members!Leaves
  <2>6. CASE \E r \in Calls : Members!ChangeMember(r)
    <3> PICK r \in Calls : Members!ChangeMember(r)
      BY <2>6
    <3>1. request[r].member \in Users /\ request[r].role \in Members!Roles \cup {"remove"}
      BY DEF Members!ChangeMember, Members!Idle
    <3>2. member' \in [Users -> [role : {"none"} \cup Members!Roles, disabled : BOOLEAN]]
      <4>1. CASE member' = [member EXCEPT ![request[r].member].disabled = TRUE]
        BY <3>1, <4>1
      <4>2. CASE request[r].role # "remove"
                 /\ member' = [member EXCEPT ![request[r].member].role = request[r].role]
        BY <3>1, <4>2
      <4> QED
        BY <4>1, <4>2 DEF Members!ChangeMember, Members!Changed
    <3>3. session' \in [Tokens -> Users \cup {NoUser}]
      BY DEF Members!ChangeMember
    <3> QED
      BY <3>2, <3>3 DEF Members!ChangeMember, Members!Leaves
  <2>7. CASE \E t \in Tokens : Members!Expires(t) \/ Members!Logout(t)
    BY <2>7 DEF Members!Expires, Members!Logout
  <2>8. CASE UNCHANGED Members!vars
    BY <2>8 DEF Members!vars
  <2> QED
    BY <2>1, <2>2, <2>3, <2>4, <2>5, <2>6, <2>7, <2>8 DEF Members!Next
<1> QED
  BY <1>1, <1>2, PTL DEF Members!Spec

\* Nobody is there before the founder, who is never unregistered again.
Founded == member[Founder].role = "none" => \A u \in Users : member[u].role = "none"

\* The workspace and its first owner come into being together
\* (IdentityRepository.Register).
LEMMA FounderFirst == ASSUME Founder \in Users PROVE Members!Spec => []Founded
<1>1. Members!Init => Founded
  BY DEF Members!Init, Founded
<1>2. MemberShapes /\ Founded /\ [Members!Next]_(Members!vars) => Founded'
  <2> SUFFICES ASSUME MemberShapes, Founded, [Members!Next]_(Members!vars),
  member' # member PROVE Founded'
    BY DEF Founded
  <2> USE DEF MemberShapes, Founded
  <2>1. CASE Members!Register
    BY <2>1 DEF Members!Register
  <2>2. CASE \E r \in Calls : Members!CreateMember(r)
    <3> PICK r \in Calls : Members!CreateMember(r)
      BY <2>2
    <3>1. request[r].by \in Members!Owners /\ request[r].role \in Members!Roles
          /\ member' = [member EXCEPT ![request[r].member].role = request[r].role]
      BY DEF Members!CreateMember, Members!OwnerNow, Members!Idle
    <3>2. member[Founder].role # "none"
      BY <3>1 DEF Members!Owners
    <3> QED
      BY <3>1, <3>2 DEF Members!Roles
  <2>3. CASE \E r \in Calls : Members!ChangeMember(r)
    <3> PICK r \in Calls : Members!ChangeMember(r)
      BY <2>3
    <3>1. /\ request[r].by \in Members!Owners /\ request[r].role \in Members!Roles \cup {"remove"}
          /\ member' = Members!Changed(request[r].member, request[r].role)
      BY DEF Members!ChangeMember, Members!OwnerNow, Members!Idle
    <3>2. member[Founder].role # "none"
      BY <3>1 DEF Members!Owners
    <3>3. member'[Founder].role # "none"
      BY <3>1, <3>2 DEF Members!Changed, Members!Roles
    <3> QED
      BY <3>3
  <2>4. CASE \/ \E r \in Calls :
                  \/ \E u \in Users : Members!FindLogin(r, u)
                  \/ \E t \in Tokens : Members!AskMember(r, t)
                  \/ Members!CreateSession(r)
             \/ \E t \in Tokens : Members!Expires(t) \/ Members!Logout(t)
    BY <2>4 DEF Members!FindLogin, Members!AskMember, Members!CreateSession,
         Members!Expires, Members!Logout
  <2> QED
    BY <2>1, <2>2, <2>3, <2>4 DEF Members!Next, Members!vars
<1> QED
  BY <1>1, <1>2, MembersShaped, PTL DEF Members!Spec

\* The members' notion of a cardinality is this module's.
LEMMA SameCardinality == \A S : Members!Cardinality(S) = Cardinality(S)
BY DEF Members!Cardinality, Cardinality

\* An owner who is not the only one leaves another.
LEMMA AnotherOwner ==
  ASSUME NEW m \in Users, Cardinality(Members!Owners) > 1
  PROVE  \E o \in Members!Owners : o # m
<1> SUFFICES ASSUME Members!Owners \subseteq {m} PROVE FALSE
  OBVIOUS
<1>1. IsFiniteSet({m}) /\ Cardinality({m}) = 1
  BY FS_Singleton
<1>2. Cardinality(Members!Owners) =< 1
  BY <1>1, FS_Subset
<1>3. Cardinality(Members!Owners) \in Nat
  BY <1>1, FS_Subset, FS_CardinalityType
<1> QED
  BY <1>2, <1>3

-----------------------------------------------------------------------------
\* Whoever changes the members is an owner at that moment, and the workspace
\* keeps an owner, however many requests were authenticated before.
THEOREM OwnersRuleOfMembers == ASSUME Founder \in Users PROVE Members!Spec => Members!OwnersRule
<1>1. MemberShapes /\ Founded /\ [Members!Next]_(Members!vars) =>
        [member' # member /\ Members!Owners # {} =>
           /\ Members!Owners' # {}
           /\ \E r \in Calls : request'[r] # request[r] /\ request[r].by \in Members!Owners]_(Members!vars)
  <2> SUFFICES ASSUME MemberShapes, Founded, Members!Next, member' # member,
  Members!Owners # {}
               PROVE  /\ Members!Owners' # {}
                      /\ \E r \in Calls :
                           request'[r] # request[r] /\ request[r].by \in Members!Owners
    BY DEF Members!vars
  <2>1. CASE Members!Register
    BY <2>1 DEF Members!Register, Founded, Members!Owners
  <2>2. CASE \E r \in Calls : Members!CreateMember(r)
    <3> PICK r \in Calls : Members!CreateMember(r)
      BY <2>2
    <3> DEFINE q == request[r]
    <3>1. q.by \in Members!Owners /\ member[q.member].role = "none"
          /\ member' = [member EXCEPT ![q.member].role = q.role]
      BY DEF Members!CreateMember, Members!OwnerNow
    <3>2. q.by # q.member /\ q.by \in Users
      BY <3>1 DEF Members!Owners
    <3>3. q.by \in Members!Owners'
      BY <3>1, <3>2 DEF Members!Owners, MemberShapes
    <3>4. request'[r] # request[r]
      <4>1. request'[r] = Members!Idle
        BY DEF Members!CreateMember, Members!Leaves, MemberShapes
      <4> QED
        BY <4>1 DEF Members!CreateMember, Members!Idle
    <3> QED
      BY <3>1, <3>3, <3>4
  <2>3. CASE \E r \in Calls : Members!ChangeMember(r)
    <3> PICK r \in Calls : Members!ChangeMember(r)
      BY <2>3
    <3> DEFINE q == request[r]
    <3>1. /\ q.by \in Members!Owners /\ Members!Enabled(q.member) /\ Members!RetainsOwner(q.member, q.role)
          /\ member' = Members!Changed(q.member, q.role)
      BY DEF Members!ChangeMember, Members!OwnerNow
    <3>2. q.member \in Users
      BY DEF Members!ChangeMember, MemberShapes, Members!Idle
    <3>3. \A o \in Members!Owners : o # q.member => o \in Members!Owners'
      BY <3>1, <3>2 DEF Members!Owners, Members!Changed, MemberShapes
    <3>4. CASE q.member \in Members!Owners /\ q.role # "owner"
      <4>1. member[q.member].role = "owner"
        BY <3>4 DEF Members!Owners
      <4>2. Cardinality(Members!Owners) > 1
        BY <3>1, <3>4, <4>1, SameCardinality DEF Members!RetainsOwner
      <4> QED
        BY <3>1, <3>2, <3>3, <4>2, AnotherOwner DEF Members!ChangeMember, Members!Leaves,
             MemberShapes, Members!Idle
    <3>5. CASE q.member \in Members!Owners /\ q.role = "owner"
      <4>1. q.member \in Members!Owners'
        BY <3>1, <3>2, <3>5 DEF Members!Owners, Members!Changed, MemberShapes
      <4> QED
        BY <3>1, <4>1 DEF Members!ChangeMember, Members!Leaves, MemberShapes, Members!Idle
    <3>6. CASE q.member \notin Members!Owners
      BY <3>1, <3>3, <3>6 DEF Members!ChangeMember, Members!Leaves, MemberShapes,
           Members!Idle
    <3> QED
      BY <3>4, <3>5, <3>6
  <2>4. CASE \/ \E r \in Calls :
                  \/ \E u \in Users : Members!FindLogin(r, u)
                  \/ \E t \in Tokens : Members!AskMember(r, t)
                  \/ Members!CreateSession(r)
             \/ \E t \in Tokens : Members!Expires(t) \/ Members!Logout(t)
    BY <2>4 DEF Members!FindLogin, Members!AskMember, Members!CreateSession,
         Members!Expires, Members!Logout
  <2> QED
    BY <2>1, <2>2, <2>3, <2>4 DEF Members!Next
<1> QED
  BY <1>1, MembersShaped, FounderFirst, PTL DEF Members!Spec, Members!OwnersRule

-----------------------------------------------------------------------------
(* The exports.                                                            *)

ResultOf(status) ==
  CASE status \in Exporting!Open -> "snapshot" [] status = "completed" -> "file" [] OTHER -> "none"

\* What a row holds goes with its status, and a goroutine that renders is a
\* record of its export and its claim.
ResultMatches ==
  /\ export \in [Exports -> [status : {"none"} \cup Exporting!Open \cup Exporting!Ends, claim : Nat,
                             result : {"none", "snapshot", "file"}]]
  /\ task \in [Tasks -> {Exporting!Idle} \cup [at : {"waiting", "slot"}, x : Exports]
                              \cup [at : {"render"}, x : Exports, claim : Nat]]
  /\ \A x \in Exports : export[x].result = ResultOf(export[x].status)

\* The snapshot stays until the export has ended, the file is there exactly
\* when it is completed (FinishTransfer, CancelTransfer and PendingTransfers).
THEOREM ResultsMatch == Exporting!Spec => []ResultMatches
<1>1. Exporting!Init => ResultMatches
  BY DEF Exporting!Init, ResultMatches, ResultOf, Exporting!Open, Exporting!Ends
<1>2. ResultMatches /\ [Exporting!Next]_(Exporting!vars) => ResultMatches'
  <2> SUFFICES ASSUME ResultMatches, [Exporting!Next]_(Exporting!vars) PROVE ResultMatches'
    OBVIOUS
  <2> USE DEF ResultMatches, ResultOf, Exporting!Open, Exporting!Ends
  <2>1. CASE \E x \in Exports : Exporting!Queue(x)
    BY <2>1 DEF Exporting!Queue, Exporting!Becomes, Exporting!Starts
  <2>2. CASE \E x \in Exports : Exporting!Cancel(x)
    BY <2>2 DEF Exporting!Cancel, Exporting!Becomes
  <2>3. CASE \E x \in Exports : Exporting!Recover(x)
    <3> PICK x \in Exports : Exporting!Recover(x)
      BY <2>3
    <3>1. export[x].result = "snapshot"
      BY DEF Exporting!Recover, Exporting!Pending
    <3>2. export' = [export EXCEPT ![x] =
                       [status |-> "queued", claim |-> export[x].claim, result |-> "snapshot"]]
      BY <3>1 DEF Exporting!Recover, Exporting!Becomes
    <3>3. PICK t \in Tasks : task' = [task EXCEPT ![t] = [at |-> "waiting", x |-> x]]
      BY DEF Exporting!Recover, Exporting!Starts
    <3>4. export' \in [Exports -> [status : {"none"} \cup Exporting!Open \cup Exporting!Ends, claim : Nat,
                                  result : {"none", "snapshot", "file"}]]
      BY <3>2
    <3>5. \A y \in Exports : export'[y].result = ResultOf(export'[y].status)
      BY <3>2
    <3>6. task' \in [Tasks -> {Exporting!Idle} \cup [at : {"waiting", "slot"}, x : Exports]
                              \cup [at : {"render"}, x : Exports, claim : Nat]]
      BY <3>3
    <3> QED
      BY <3>4, <3>5, <3>6
  <2>4. CASE \E t \in Tasks : Exporting!Take(t)
    <3> PICK t \in Tasks : Exporting!Take(t)
      BY <2>4
    <3>1. task[t] \in [at : {"waiting", "slot"}, x : Exports]
      BY DEF Exporting!Take, Exporting!Idle
    <3>2. [task[t] EXCEPT !.at = "slot"] \in [at : {"waiting", "slot"}, x : Exports]
      BY <3>1
    <3>3. task' = [task EXCEPT ![t] = [task[t] EXCEPT !.at = "slot"]]
      BY DEF Exporting!Take
    <3> QED
      BY <3>2, <3>3 DEF Exporting!Take
  <2>5. CASE \E t \in Tasks : Exporting!GiveUp(t) \/ Exporting!FinishLost(t)
    BY <2>5 DEF Exporting!GiveUp, Exporting!FinishLost, Exporting!Leaves
  <2>6. CASE \E t \in Tasks : Exporting!Claim(t)
    <3> PICK t \in Tasks : Exporting!Claim(t)
      BY <2>6
    <3>1. task[t].x \in Exports
      BY DEF Exporting!Claim, Exporting!Idle
    <3> QED
      BY <3>1 DEF Exporting!Claim, Exporting!Claimed, Exporting!Leaves
  <2>7. CASE \E t \in Tasks : Exporting!ClaimLost(t)
    <3> PICK t \in Tasks : Exporting!ClaimLost(t)
      BY <2>7
    <3>1. task[t].x \in Exports
      BY DEF Exporting!ClaimLost, Exporting!Idle
    <3> QED
      BY <3>1 DEF Exporting!ClaimLost, Exporting!Claimed, Exporting!Leaves
  <2>8. CASE \E t \in Tasks : Exporting!Finish(t)
    <3> PICK t \in Tasks : Exporting!Finish(t)
      BY <2>8
    <3>1. task[t].x \in Exports
      BY DEF Exporting!Finish, Exporting!Idle
    <3> QED
      BY <3>1 DEF Exporting!Finish, Exporting!Becomes, Exporting!Leaves
  <2>9. CASE Exporting!Crash
    BY <2>9 DEF Exporting!Crash
  <2>10. CASE UNCHANGED Exporting!vars
    BY <2>10 DEF Exporting!vars
  <2> QED
    BY <2>1, <2>2, <2>3, <2>4, <2>5, <2>6, <2>7, <2>8, <2>9, <2>10 DEF Exporting!Next
<1> QED
  BY <1>1, <1>2, PTL DEF Exporting!Spec

-----------------------------------------------------------------------------
\* An ended export stays as it ended.
EndsStay == \A x \in Exports : export[x].status \in Exporting!Ends => export'[x].status = export[x].status
\* Whoever ends a running one by completing or failing it holds its last claim.
ClaimantEnds ==
  \A x \in Exports :
    export[x].status = "running" /\ export'[x].status \in {"completed", "failed"} =>
      \E t \in Tasks : Exporting!Renders(t, x) /\ task'[t] = Exporting!Idle

LEMMA StepEnds ==
  ASSUME ResultMatches, [Exporting!Next]_(Exporting!vars) PROVE EndsStay /\ ClaimantEnds
<1> USE DEF ResultMatches, EndsStay, ClaimantEnds, Exporting!Open, Exporting!Ends
<1>1. CASE \E x \in Exports : Exporting!Queue(x) \/ Exporting!Cancel(x) \/ Exporting!Recover(x)
  BY <1>1 DEF Exporting!Queue, Exporting!Cancel, Exporting!Recover, Exporting!Pending,
       Exporting!Becomes
<1>2. CASE \E t \in Tasks : Exporting!Claim(t) \/ Exporting!ClaimLost(t)
  <2> PICK t \in Tasks : Exporting!Claim(t) \/ Exporting!ClaimLost(t)
    BY <1>2
  <2>1. task[t].x \in Exports
    BY DEF Exporting!Claim, Exporting!ClaimLost, Exporting!Idle
  <2> QED
    BY <2>1 DEF Exporting!Claim, Exporting!ClaimLost, Exporting!Claimed
<1>3. CASE \E t \in Tasks : Exporting!Finish(t)
  <2> PICK t \in Tasks : Exporting!Finish(t)
    BY <1>3
  <2> DEFINE x == task[t].x
  <2>1. task[t] \in [at : {"render"}, x : Exports, claim : Nat]
    BY DEF Exporting!Finish, Exporting!Idle
  <2>2. task'[t] = Exporting!Idle
    BY DEF Exporting!Finish, Exporting!Leaves
  <2>3. CASE export' = export
    BY <2>3
  <2>4. CASE Exporting!Fenced(x, task[t].claim) /\ (Exporting!Becomes(x, "completed",
  "file") \/ Exporting!Becomes(x, "failed", "none"))
    <3>1. export[x].status = "running" /\ export[x].claim = task[t].claim
      BY <2>4 DEF Exporting!Fenced
    <3>2. Exporting!Renders(t, x)
      BY <2>1, <3>1 DEF Exporting!Renders
    <3>3. \A y \in Exports : y # x => export'[y] = export[y]
      BY <2>4 DEF Exporting!Becomes
    <3> QED
      BY <2>2, <3>1, <3>2, <3>3
  <2> QED
    BY <2>3, <2>4 DEF Exporting!Finish
<1>4. CASE \/ \E t \in Tasks : Exporting!Take(t) \/ Exporting!GiveUp(t) \/ Exporting!FinishLost(t)
           \/ Exporting!Crash \/ UNCHANGED Exporting!vars
  BY <1>4 DEF Exporting!Take, Exporting!GiveUp, Exporting!FinishLost, Exporting!Crash,
       Exporting!vars
<1> QED
  BY <1>1, <1>2, <1>3, <1>4 DEF Exporting!Next

\* An old worker never overwrites a retry, a cancelled export stays cancelled,
\* and what is downloaded is a whole file (service.go, Recover).
THEOREM LastClaimOfExports == Exporting!Spec => Exporting!LastClaimEnds
<1>1. ResultMatches /\ ResultMatches' /\ [Exporting!Next]_(Exporting!vars) =>
        [\A x \in Exports :
           /\ export[x].status \in Exporting!Ends => export'[x].status = export[x].status
           /\ export[x].status = "running" /\ export'[x].status \in {"completed", "failed"} =>
                \E t \in Tasks : Exporting!Renders(t, x) /\ task'[t] = Exporting!Idle
           /\ export'[x].result =
                CASE export'[x].status \in Exporting!Open -> "snapshot"
                  [] export'[x].status = "completed" -> "file" [] OTHER -> "none"]_(Exporting!vars)
  BY StepEnds DEF EndsStay, ClaimantEnds, ResultMatches, ResultOf
<1> QED
  BY <1>1, ResultsMatch, PTL DEF Exporting!Spec, Exporting!LastClaimEnds

-----------------------------------------------------------------------------
(* The catalogue.                                                           *)

ItemRows == [status : Catalogue!Statuses, expected : Nat, entries : SUBSET Catalogue!Version]
Targets == Profiles \X Nat
Edits ==
  {Catalogue!NoEdit} \cup [op : {"edit"}, item : Catalogue!Items, seen : Nat, expected : Nat]
           \cup [op : {"routes"}, left : SUBSET Profiles, frozen : SUBSET Targets]
           \cup [op : {"bind"}, version : Catalogue!Version]

CatalogueTyped ==
  /\ versions \in [Catalogue!Items -> Seq(ItemRows)]
  /\ profile \in [Profiles -> [version : Nat \ {0}, deleted : BOOLEAN]]
  /\ routes \in Seq(SUBSET Targets)
  /\ bound \in [Catalogue!Kinds -> Catalogue!Version \cup {NoVersion}]
  /\ edit \in [Editors -> Edits]
  /\ snapshot \in [Jobs -> [phase : {"routes", "pack", "policy", "frozen"},
                            targets : SUBSET Targets, refs : SUBSET Catalogue!Version]]

\* A profile version that exists; of one whose row somebody holds, or that the
\* routes in force name, the profile is there too.
Known(t) == t[2] \in 1 .. profile[t[1]].version
Alive(t) == ~profile[t[1]].deleted

EditOK(e) ==
  /\ edit[e].op = "routes" => \A t \in edit[e].frozen : Known(t) /\ Alive(t)
  /\ edit[e].op = "bind" => Catalogue!Bindable(edit[e].version)
EditsOK == \A e \in Editors : EditOK(e)
RoutesOK ==
  /\ \A n \in DOMAIN routes : \A t \in routes[n] : Known(t)
  /\ routes # <<>> => \A t \in routes[Len(routes)] : Alive(t)
Usable(k) == bound[k] # NoVersion =>
  /\ Catalogue!Bindable(bound[k])
  /\ k = "pack" => bound[k][1] \in Packs
BoundOK == \A k \in Catalogue!Kinds : Usable(k)

CatalogueOK ==
  /\ CatalogueTyped /\ EditsOK /\ RoutesOK /\ BoundOK
  /\ Catalogue!NoLostUpdate /\ Catalogue!FrozenResolves

-----------------------------------------------------------------------------
(* What every step keeps.                                                  *)

\* Rows are only added.
Grown == \A i \in Catalogue!Items :
  /\ Len(versions[i]) =< Len(versions'[i])
  /\ \A n \in 1 .. Len(versions[i]) : versions'[i][n] = versions[i][n]

\* An append, as the insert of a version makes it, keeps the rows before it.
LEMMA AppendGrows ==
  ASSUME CatalogueTyped, NEW i \in Catalogue!Items, NEW v \in ItemRows,
         versions' = [versions EXCEPT ![i] = Append(versions[i], v)]
  PROVE  versions' \in [Catalogue!Items -> Seq(ItemRows)] /\ Grown
<1>1. versions[i] \in Seq(ItemRows)
  BY DEF CatalogueTyped
<1>2. /\ Append(versions[i], v) \in Seq(ItemRows)
      /\ Len(Append(versions[i], v)) = Len(versions[i]) + 1
      /\ \A n \in 1 .. Len(versions[i]) : Append(versions[i], v)[n] = versions[i][n]
  BY <1>1
<1>3. \A k \in Catalogue!Items : versions[k] \in Seq(ItemRows) /\ Len(versions[k]) \in Nat
  BY DEF CatalogueTyped
<1> QED
  BY <1>1, <1>2, <1>3 DEF CatalogueTyped, Grown

\* What may be written into a row (validatePromptPack).
LEMMA EntriesTyped ==
  ASSUME NEW i, NEW status, NEW E \in Catalogue!EntriesOf(i,
         status) PROVE E \in SUBSET Catalogue!Version
BY DEF Catalogue!EntriesOf, Catalogue!Version, Catalogue!Items

\* A new item has one row where there was none.
LEMMA CreateGrows ==
  ASSUME CatalogueTyped, NEW i \in Catalogue!Items, Catalogue!CreateItem(i)
  PROVE  versions' \in [Catalogue!Items -> Seq(ItemRows)] /\ Grown
<1>1. PICK E \in Catalogue!EntriesOf(i, "draft") :
        versions' = [versions EXCEPT ![i] = <<[status |-> "draft", expected |-> 0, entries |-> E]>>]
  BY DEF Catalogue!CreateItem
<1>2. [status |-> "draft", expected |-> 0, entries |-> E] \in ItemRows
  BY EntriesTyped DEF ItemRows, Catalogue!Statuses
<1>3. versions[i] = <<>>
  BY DEF Catalogue!CreateItem
<1>4. \A k \in Catalogue!Items : versions[k] \in Seq(ItemRows) /\ Len(versions[k]) \in Nat
  BY DEF CatalogueTyped
<1>5. <<[status |-> "draft", expected |-> 0, entries |-> E]>> \in Seq(ItemRows)
  BY <1>2
<1> QED
  BY <1>1, <1>3, <1>4, <1>5 DEF CatalogueTyped, Grown

\* An edit that is committed adds a row, whose expectation the version it adds
\* to bears out, or none.
LEMMA CommitAppends ==
  ASSUME CatalogueTyped, NEW e \in Editors, Catalogue!CommitEdit(e), versions' # versions
  PROVE  \E i \in Catalogue!Items, v \in ItemRows :
           /\ versions' = [versions EXCEPT ![i] = Append(versions[i], v)]
           /\ v.expected \in {0, Len(versions[i])}
<1> DEFINE i == edit[e].item
<1>1. edit[e] \in [op : {"edit"}, item : Catalogue!Items, seen : Nat, expected : Nat]
  BY DEF Catalogue!CommitEdit, CatalogueTyped, Edits, Catalogue!NoEdit
<1>2. /\ Catalogue!AsExpected(e)
      /\ \E status \in Catalogue!Statuses : \E E \in Catalogue!EntriesOf(i, status) :
           versions' = [versions EXCEPT ![i] =
             Append(versions[i], [status |-> status, expected |-> edit[e].expected, entries |-> E])]
  BY DEF Catalogue!CommitEdit, Catalogue!Inserted
<1>3. PICK status \in Catalogue!Statuses : \E E \in Catalogue!EntriesOf(i, status) :
        versions' = [versions EXCEPT ![i] =
          Append(versions[i], [status |-> status, expected |-> edit[e].expected, entries |-> E])]
  BY <1>2
<1>6. PICK E \in Catalogue!EntriesOf(i, status) :
        versions' = [versions EXCEPT ![i] =
          Append(versions[i], [status |-> status, expected |-> edit[e].expected, entries |-> E])]
  BY <1>3
<1>4. [status |-> status, expected |-> edit[e].expected, entries |-> E] \in ItemRows
  BY <1>1, EntriesTyped DEF ItemRows
<1>5. edit[e].expected \in {0, Len(versions[i])}
  BY <1>2 DEF Catalogue!AsExpected, Catalogue!Current
<1> QED
  BY <1>1, <1>4, <1>5, <1>6

\* Rows are written once, whatever is done (every statement on the tables of
\* versions is an INSERT).
LEMMA VersionsGrow ==
  ASSUME CatalogueTyped,
         [Catalogue!Next]_(Catalogue!vars)
  PROVE  versions' \in [Catalogue!Items -> Seq(ItemRows)] /\ Grown
<1>1. CASE \E i \in Catalogue!Items : Catalogue!CreateItem(i)
  BY <1>1, CreateGrows
<1>2. CASE \E e \in Editors : Catalogue!CommitEdit(e) /\ versions' # versions
  BY <1>2, CommitAppends, AppendGrows
<1>3. CASE versions' = versions
  <2>1. \A i \in Catalogue!Items : Len(versions[i]) \in Nat
    BY DEF CatalogueTyped
  <2> QED
    BY <1>3, <2>1 DEF CatalogueTyped, Grown
<1>4. CASE \/ \E i \in Catalogue!Items, e \in Editors : Catalogue!BeginEdit(e, i)
           \/ \E p \in Profiles : Catalogue!WriteProfile(p) \/ Catalogue!DeleteProfile(p)
           \/ \E e \in Editors : \/ Catalogue!BeginRoutes(e) \/ Catalogue!FreezeTarget(e) \/ Catalogue!CommitRoutes(e)
                                 \/ Catalogue!BeginBind(e) \/ Catalogue!CommitBind(e)
           \/ \E k \in Catalogue!Kinds : Catalogue!Unbind(k)
           \/ \E j \in Jobs : Catalogue!FreezeRoutes(j) \/ Catalogue!FreezePack(j) \/ Catalogue!FreezePolicy(j)
           \/ UNCHANGED Catalogue!vars
  BY <1>3, <1>4 DEF Catalogue!BeginEdit, Catalogue!WriteProfile, Catalogue!DeleteProfile,
     Catalogue!BeginRoutes, Catalogue!FreezeTarget,
       Catalogue!CommitRoutes, Catalogue!BeginBind, Catalogue!CommitBind, Catalogue!Unbind,
       Catalogue!FreezeRoutes, Catalogue!FreezePack, Catalogue!FreezePolicy,
       Catalogue!Froze, Catalogue!vars
<1> QED
  BY <1>1, <1>2, <1>3, <1>4 DEF Catalogue!Next

\* What is published stays so, with the prompts it holds; what may be bound may
\* be bound for ever.
LEMMA PublishedStays ==
  ASSUME CatalogueTyped, Grown, versions' \in [Catalogue!Items -> Seq(ItemRows)],
         NEW v \in Catalogue!Version, Catalogue!Published(v)
  PROVE  /\ Catalogue!Published(v)' /\ Catalogue!Entries(v)' = Catalogue!Entries(v)
         /\ Catalogue!Entries(v) \subseteq Catalogue!Version
<1>1. v[1] \in Catalogue!Items /\ versions[v[1]] \in Seq(ItemRows)
  BY DEF Catalogue!Version, CatalogueTyped
<1>2. v[2] \in 1 .. Len(versions[v[1]])
  BY <1>1 DEF Catalogue!Published
<1>3. versions'[v[1]][v[2]] = versions[v[1]][v[2]] /\ Len(versions[v[1]]) =< Len(versions'[v[1]])
  BY <1>1, <1>2 DEF Grown
<1>4. v[2] \in 1 .. Len(versions'[v[1]])
  BY <1>1, <1>2, <1>3
<1>5. versions'[v[1]] \in Seq(ItemRows)
  BY <1>1
<1>6. versions[v[1]][v[2]] \in ItemRows
  BY <1>1, <1>2
<1>7. Catalogue!Published(v)'
  BY <1>3, <1>4 DEF Catalogue!Published
<1>8. Catalogue!Entries(v)' = Catalogue!Entries(v)
  BY <1>3 DEF Catalogue!Entries
<1>9. Catalogue!Entries(v) \subseteq Catalogue!Version
  BY <1>6 DEF Catalogue!Entries, ItemRows
<1> QED
  BY <1>7, <1>8, <1>9

LEMMA BindableStays ==
  ASSUME CatalogueTyped, Grown, versions' \in [Catalogue!Items -> Seq(ItemRows)],
         NEW v \in Catalogue!Version, Catalogue!Bindable(v)
  PROVE  Catalogue!Bindable(v)'
<1>1. /\ Catalogue!Published(v)' /\ Catalogue!Entries(v)' = Catalogue!Entries(v)
      /\ Catalogue!Entries(v) \subseteq Catalogue!Version
  BY PublishedStays DEF Catalogue!Bindable
<1>2. CASE v[1] \notin Packs
  BY <1>1, <1>2 DEF Catalogue!Bindable
<1>3. CASE v[1] \in Packs
  <2>1. \A u \in Catalogue!Entries(v) : Catalogue!Published(u)'
    <3> SUFFICES ASSUME NEW u \in Catalogue!Entries(v) PROVE Catalogue!Published(u)'
      OBVIOUS
    <3> QED
      BY <1>1, <1>3, PublishedStays DEF Catalogue!Bindable
  <2>2. Catalogue!Complete(Catalogue!Entries(v))
    BY <1>3 DEF Catalogue!Bindable
  <2> QED
    BY <1>1, <2>1, <2>2 DEF Catalogue!Bindable, Catalogue!Complete, Catalogue!Published
<1> QED
  BY <1>2, <1>3

-----------------------------------------------------------------------------
(* The types of the rest.                                                  *)

LEMMA EditTyped ==
  ASSUME CatalogueTyped, [Catalogue!Next]_(Catalogue!vars) PROVE edit' \in [Editors -> Edits]
<1> USE DEF CatalogueTyped
<1>1. CASE \E i \in Catalogue!Items, e \in Editors : Catalogue!BeginEdit(e, i)
  <2> PICK i \in Catalogue!Items, e \in Editors : Catalogue!BeginEdit(e, i)
    BY <1>1
  <2>1. Len(versions[i]) \in Nat
    OBVIOUS
  <2>2. PICK x \in 0 .. Catalogue!Current(i) :
          edit' = [edit EXCEPT ![e] =
                     [op |-> "edit", item |-> i, seen |-> Catalogue!Current(i), expected |-> x]]
    BY DEF Catalogue!BeginEdit
  <2>3. [op |-> "edit", item |-> i, seen |-> Catalogue!Current(i), expected |-> x] \in Edits
    BY <2>1 DEF Catalogue!Current, Edits
  <2> QED
    BY <2>2, <2>3
<1>2. CASE \E e \in Editors : Catalogue!BeginRoutes(e)
  <2> PICK e \in Editors : Catalogue!BeginRoutes(e)
    BY <1>2
  <2>1. PICK T \in SUBSET Profiles \ {{}} :
          edit' = [edit EXCEPT ![e] = [op |-> "routes", left |-> T, frozen |-> {}]]
    BY DEF Catalogue!BeginRoutes
  <2>2. [op |-> "routes", left |-> T, frozen |-> {}] \in Edits
    BY DEF Edits
  <2> QED
    BY <2>1, <2>2
<1>3. CASE \E e \in Editors : Catalogue!FreezeTarget(e)
  <2> PICK e \in Editors : Catalogue!FreezeTarget(e)
    BY <1>3
  <2>1. edit[e] \in [op : {"routes"}, left : SUBSET Profiles, frozen : SUBSET Targets]
    BY DEF Catalogue!FreezeTarget, Edits, Catalogue!NoEdit
  <2>2. PICK p \in edit[e].left :
          IF profile[p].deleted THEN Catalogue!Leave(e)
          ELSE edit' = [edit EXCEPT ![e].left = @ \ {p},
                                    ![e].frozen = @ \cup {<<p, profile[p].version>>}]
    BY DEF Catalogue!FreezeTarget
  <2>3. p \in Profiles /\ profile[p].version \in Nat
    BY <2>1
  <2>4. [op |-> "routes", left |-> edit[e].left \ {p},
         frozen |-> edit[e].frozen \cup {<<p, profile[p].version>>}] \in Edits
    BY <2>1, <2>3 DEF Edits, Targets
  <2>5. Catalogue!NoEdit \in Edits
    BY DEF Edits
  <2>6. CASE Catalogue!Leave(e)
    BY <2>5, <2>6 DEF Catalogue!Leave
  <2>7. CASE edit' = [edit EXCEPT ![e].left = @ \ {p},
                                  ![e].frozen = @ \cup {<<p, profile[p].version>>}]
    <3>1. edit'[e] = [[edit[e] EXCEPT !.left = @ \ {p}] EXCEPT
                       !.frozen = @ \cup {<<p, profile[p].version>>}]
      BY <2>7
    <3>2. edit'[e] = [op |-> "routes", left |-> edit[e].left \ {p},
                      frozen |-> edit[e].frozen \cup {<<p, profile[p].version>>}]
      BY <2>1, <3>1
    <3>3. \A x \in Editors : x # e => edit'[x] = edit[x]
      BY <2>7
    <3>4. edit' = [x \in Editors |-> edit'[x]]
      BY <2>7
    <3> QED
      BY <2>4, <3>2, <3>3, <3>4
  <2> QED
    BY <2>2, <2>6, <2>7
<1>4. CASE \E e \in Editors : Catalogue!BeginBind(e)
  <2> PICK e \in Editors : Catalogue!BeginBind(e)
    BY <1>4
  <2>1. PICK v \in (Packs \cup Policies) \X (1 .. MaxVersions) :
          edit' = [edit EXCEPT ![e] = [op |-> "bind", version |-> v]]
    BY DEF Catalogue!BeginBind
  <2>2. [op |-> "bind", version |-> v] \in Edits
    BY DEF Edits, Catalogue!Version, Catalogue!Items
  <2> QED
    BY <2>1, <2>2
<1>5. CASE edit' = edit
  BY <1>5
<1>6. CASE \E e \in Editors : Catalogue!Leave(e)
  <2>1. Catalogue!NoEdit \in Edits
    BY DEF Edits
  <2> QED
    BY <1>6, <2>1 DEF Catalogue!Leave
<1> QED
  BY <1>1, <1>2, <1>3, <1>4, <1>5, <1>6
  DEF Catalogue!Next, Catalogue!CreateItem, Catalogue!CommitEdit, Catalogue!WriteProfile,
      Catalogue!DeleteProfile, Catalogue!CommitRoutes, Catalogue!CommitBind,
      Catalogue!Unbind, Catalogue!FreezeRoutes, Catalogue!FreezePack, Catalogue!FreezePolicy,
      Catalogue!Froze, Catalogue!vars

LEMMA RowsTyped ==
  ASSUME CatalogueTyped, [Catalogue!Next]_(Catalogue!vars)
  PROVE  /\ profile' \in [Profiles -> [version : Nat \ {0}, deleted : BOOLEAN]]
         /\ routes' \in Seq(SUBSET Targets)
         /\ bound' \in [Catalogue!Kinds -> Catalogue!Version \cup {NoVersion}]
<1> USE DEF CatalogueTyped
<1>1. CASE \E p \in Profiles : Catalogue!WriteProfile(p)
  <2> PICK p \in Profiles : Catalogue!WriteProfile(p)
    BY <1>1
  <2>1. profile[p].version + 1 \in Nat \ {0}
    OBVIOUS
  <2>2. profile' \in [Profiles -> [version : Nat \ {0}, deleted : BOOLEAN]]
    BY <2>1 DEF Catalogue!WriteProfile
  <2> QED
    BY <2>2 DEF Catalogue!WriteProfile
<1>2. CASE \E p \in Profiles : Catalogue!DeleteProfile(p)
  BY <1>2 DEF Catalogue!DeleteProfile
<1>3. CASE \E e \in Editors : Catalogue!CommitRoutes(e)
  <2> PICK e \in Editors : Catalogue!CommitRoutes(e)
    BY <1>3
  <2>1. edit[e].frozen \in SUBSET Targets
    BY DEF Catalogue!CommitRoutes, Edits, Catalogue!NoEdit
  <2>2. Append(routes, edit[e].frozen) \in Seq(SUBSET Targets)
    BY <2>1
  <2> QED
    BY <2>2 DEF Catalogue!CommitRoutes
<1>4. CASE \E e \in Editors : Catalogue!CommitBind(e)
  <2> PICK e \in Editors : Catalogue!CommitBind(e)
    BY <1>4
  <2>1. edit[e].version \in Catalogue!Version
    BY DEF Catalogue!CommitBind, Edits, Catalogue!NoEdit
  <2> QED
    BY <2>1 DEF Catalogue!CommitBind, Catalogue!Kinds, Catalogue!KindOf
<1>5. CASE \E k \in Catalogue!Kinds : Catalogue!Unbind(k)
  BY <1>5 DEF Catalogue!Unbind
<1>6. CASE UNCHANGED <<profile, routes, bound>>
  BY <1>6
<1>7. ASSUME \/ \E i \in Catalogue!Items : Catalogue!CreateItem(i)
             \/ \E e \in Editors : \/ \E i \in Catalogue!Items : Catalogue!BeginEdit(e, i)
                                   \/ Catalogue!CommitEdit(e) \/ Catalogue!BeginRoutes(e)
                                   \/ Catalogue!FreezeTarget(e) \/ Catalogue!BeginBind(e)
             \/ \E j \in Jobs : \/ Catalogue!FreezeRoutes(j) \/ Catalogue!FreezePack(j)
                                \/ Catalogue!FreezePolicy(j)
             \/ UNCHANGED Catalogue!vars
      PROVE  UNCHANGED <<profile, routes, bound>>
  BY <1>7 DEF Catalogue!CreateItem, Catalogue!BeginEdit, Catalogue!CommitEdit,
              Catalogue!BeginRoutes, Catalogue!FreezeTarget, Catalogue!BeginBind,
              Catalogue!FreezeRoutes, Catalogue!FreezePack, Catalogue!FreezePolicy,
              Catalogue!Froze, Catalogue!vars
<1> QED
  BY <1>1, <1>2, <1>3, <1>4, <1>5, <1>6, <1>7 DEF Catalogue!Next

-----------------------------------------------------------------------------
(* Freezing for a job.                                                     *)

\* What a submission adds to its snapshot: targets of the routes in force and
\* versions that are published.
Adds(j, phase, T, R) ==
  /\ snapshot'[j] = [phase |-> phase, targets |-> snapshot[j].targets \cup T,
                     refs |-> snapshot[j].refs \cup R]
  /\ phase \in {"routes", "pack", "policy", "frozen"}
  /\ T \in SUBSET Targets /\ \A t \in T : Known(t)
  /\ R \in SUBSET Catalogue!Version /\ \A v \in R : Catalogue!Published(v)
  /\ UNCHANGED <<versions, profile>>

LEMMA RoutesAdd ==
  ASSUME CatalogueOK, NEW j \in Jobs, Catalogue!FreezeRoutes(j)
  PROVE  \E phase, T, R : Adds(j, phase, T, R)
<1> DEFINE T == routes[Len(routes)]
           R == {v \in Skills \X (1 .. MaxVersions) : v[2] = Catalogue!Current(v[1]) /\ Catalogue!Published(v)}
<1>1. routes \in Seq(SUBSET Targets) /\ routes # <<>>
  BY DEF Catalogue!FreezeRoutes, CatalogueOK, CatalogueTyped
<1>2. Len(routes) \in DOMAIN routes /\ T \in SUBSET Targets
  BY <1>1, EmptySeq
<1>3. \A t \in T : Known(t)
  BY <1>2 DEF CatalogueOK, RoutesOK
<1>4. R \in SUBSET Catalogue!Version /\ \A v \in R : Catalogue!Published(v)
  BY DEF Catalogue!Version, Catalogue!Items
<1>5. Catalogue!Froze(j, "pack", T, R)
  BY DEF Catalogue!FreezeRoutes
<1> HIDE DEF T, R
<1>6. Adds(j, "pack", T, R)
  BY <1>2, <1>3, <1>4, <1>5 DEF Adds, Catalogue!Froze, CatalogueOK, CatalogueTyped
<1> QED
  BY <1>6

LEMMA BindingAdds ==
  ASSUME CatalogueOK, NEW j \in Jobs, Catalogue!FreezePack(j) \/ Catalogue!FreezePolicy(j)
  PROVE  \E phase, T, R : Adds(j, phase, T, R)
<1>1. snapshot[j] \in [phase : {"routes", "pack", "policy", "frozen"},
                       targets : SUBSET Targets, refs : SUBSET Catalogue!Version]
  BY DEF CatalogueOK, CatalogueTyped
<1>2. CASE Catalogue!Froze(j, "policy", {}, {})
  <2>1. Adds(j, "policy", {}, {})
    BY <1>1, <1>2 DEF Adds, Catalogue!Froze, CatalogueOK, CatalogueTyped
  <2> QED
    BY <2>1
<1>3. CASE Catalogue!Froze(j, "frozen", {}, {})
  <2>1. Adds(j, "frozen", {}, {})
    BY <1>1, <1>3 DEF Adds, Catalogue!Froze, CatalogueOK, CatalogueTyped
  <2> QED
    BY <2>1
<1>4. CASE /\ bound["pack"] # NoVersion /\ Catalogue!Bindable(bound["pack"])
           /\ Catalogue!Froze(j, "policy", {}, {bound["pack"]} \cup Catalogue!Entries(bound["pack"]))
  <2> SUFFICES ASSUME NEW v, v = bound["pack"] PROVE \E phase, T, R : Adds(j, phase, T, R)
    OBVIOUS
  <2>1. v \in Catalogue!Version /\ v[1] \in Packs
    BY <1>4 DEF Catalogue!Kinds, CatalogueOK, CatalogueTyped, BoundOK, Usable
  <2>2. versions[v[1]] \in Seq(ItemRows) /\ v[2] \in DOMAIN versions[v[1]]
    BY <1>4, <2>1 DEF Catalogue!Bindable, Catalogue!Published, Catalogue!Version, CatalogueOK,
       CatalogueTyped
  <2>3. versions[v[1]][v[2]] \in ItemRows
    BY <2>2
  <2>4. {v} \cup Catalogue!Entries(v) \in SUBSET Catalogue!Version
    BY <2>1, <2>3 DEF Catalogue!Entries, ItemRows
  <2>5. \A u \in {v} \cup Catalogue!Entries(v) : Catalogue!Published(u)
    BY <1>4, <2>1 DEF Catalogue!Bindable
  <2>6. Adds(j, "policy", {}, {v} \cup Catalogue!Entries(v))
    BY <1>1, <1>4, <2>4, <2>5 DEF Adds, Catalogue!Froze, CatalogueOK, CatalogueTyped
  <2> QED
    BY <2>6
<1>5. CASE /\ bound["policy"] # NoVersion /\ Catalogue!Bindable(bound["policy"])
           /\ Catalogue!Froze(j, "frozen", {}, {bound["policy"]})
  <2>1. bound["policy"] \in Catalogue!Version /\ Catalogue!Published(bound["policy"])
    BY <1>5 DEF Catalogue!Bindable, Catalogue!Kinds, CatalogueOK, CatalogueTyped
  <2>2. Adds(j, "frozen", {}, {bound["policy"]})
    BY <1>1, <1>5, <2>1 DEF Adds, Catalogue!Froze, CatalogueOK, CatalogueTyped
  <2> QED
    BY <2>2
<1> QED
  BY <1>2, <1>3, <1>4, <1>5 DEF Catalogue!FreezePack, Catalogue!FreezePolicy

LEMMA Freezes ==
  ASSUME CatalogueOK, [Catalogue!Next]_(Catalogue!vars), NEW j \in Jobs, snapshot'[j] # snapshot[j]
  PROVE  \E phase, T, R : Adds(j, phase, T, R)
<1>1. PICK i \in Jobs : Catalogue!FreezeRoutes(i) \/ Catalogue!FreezePack(i) \/ Catalogue!FreezePolicy(i)
  BY DEF Catalogue!Next, Catalogue!CreateItem, Catalogue!BeginEdit, Catalogue!WriteProfile,
     Catalogue!DeleteProfile, Catalogue!CommitEdit, Catalogue!BeginRoutes,
         Catalogue!FreezeTarget, Catalogue!CommitRoutes, Catalogue!BeginBind,
         Catalogue!CommitBind, Catalogue!Unbind, Catalogue!vars
<1>2. i = j
  BY <1>1 DEF Catalogue!FreezeRoutes, Catalogue!FreezePack, Catalogue!FreezePolicy,
     Catalogue!Froze, CatalogueOK, CatalogueTyped
<1> QED
  BY <1>1, <1>2, RoutesAdd, BindingAdds

-----------------------------------------------------------------------------
(* The invariant.                                                          *)

LEMMA TypesKept ==
  ASSUME CatalogueOK, [Catalogue!Next]_(Catalogue!vars) PROVE CatalogueTyped'
<1>1. versions' \in [Catalogue!Items -> Seq(ItemRows)]
  BY VersionsGrow DEF CatalogueOK
<1>2. \A j \in Jobs : snapshot'[j] \in
        [phase : {"routes", "pack", "policy", "frozen"}, targets : SUBSET Targets, refs : SUBSET Catalogue!Version]
  <2> SUFFICES ASSUME NEW j \in Jobs, snapshot'[j] # snapshot[j]
               PROVE  snapshot'[j] \in [phase : {"routes", "pack", "policy", "frozen"},
                                        targets : SUBSET Targets, refs : SUBSET Catalogue!Version]
    BY DEF CatalogueOK, CatalogueTyped
  <2>1. PICK phase, T, R : Adds(j, phase, T, R)
    BY Freezes
  <2>2. snapshot[j].targets \in SUBSET Targets /\ snapshot[j].refs \in SUBSET Catalogue!Version
    BY DEF CatalogueOK, CatalogueTyped
  <2> QED
    BY <2>1, <2>2 DEF Adds
<1>3. snapshot' = [j \in Jobs |-> snapshot'[j]]
  BY DEF CatalogueOK, CatalogueTyped, Catalogue!Next, Catalogue!CreateItem, Catalogue!BeginEdit,
     Catalogue!WriteProfile, Catalogue!DeleteProfile, Catalogue!CommitEdit,
         Catalogue!BeginRoutes, Catalogue!FreezeTarget, Catalogue!CommitRoutes,
         Catalogue!BeginBind, Catalogue!CommitBind, Catalogue!Unbind, Catalogue!FreezeRoutes,
         Catalogue!FreezePack, Catalogue!FreezePolicy, Catalogue!Froze, Catalogue!vars
<1>4. CatalogueTyped
  BY DEF CatalogueOK
<1> QED
  BY <1>1, <1>2, <1>3, <1>4, EditTyped, RowsTyped DEF CatalogueTyped

\* The number a row states goes with its place, and rows keep their places.
LEMMA UpdatesOfCatalogue ==
  ASSUME CatalogueOK, [Catalogue!Next]_(Catalogue!vars) PROVE Catalogue!NoLostUpdate'
<1> SUFFICES ASSUME NEW i \in Catalogue!Items, NEW n \in DOMAIN versions'[i]
             PROVE  versions'[i][n].expected \in {0, n - 1}
  BY DEF Catalogue!NoLostUpdate
<1>1. versions[i] \in Seq(ItemRows) /\ versions'[i] \in Seq(ItemRows) /\ Grown
  BY VersionsGrow DEF CatalogueOK, CatalogueTyped
<1>2. CASE n \in 1 .. Len(versions[i])
  BY <1>1, <1>2 DEF Grown, CatalogueOK, Catalogue!NoLostUpdate
<1>3. CASE n \notin 1 .. Len(versions[i])
  <2>1. n \in 1 .. Len(versions'[i]) /\ versions' # versions /\ versions'[i] # versions[i]
    BY <1>1, <1>3
  <2>2. CASE \E k \in Catalogue!Items : Catalogue!CreateItem(k)
    <3> PICK k \in Catalogue!Items : Catalogue!CreateItem(k)
      BY <2>2
    <3>1. PICK E : versions' = [versions EXCEPT ![k] =
                                  <<[status |-> "draft", expected |-> 0, entries |-> E]>>]
      BY DEF Catalogue!CreateItem
    <3>2. versions'[i] = <<[status |-> "draft", expected |-> 0, entries |-> E]>>
      BY <2>1, <3>1 DEF CatalogueOK, CatalogueTyped
    <3> QED
      BY <2>1, <3>2
  <2>3. CASE \E e \in Editors : Catalogue!CommitEdit(e)
    <3>1. PICK k \in Catalogue!Items, v \in ItemRows :
            /\ versions' = [versions EXCEPT ![k] = Append(versions[k], v)]
            /\ v.expected \in {0, Len(versions[k])}
      BY <2>1, <2>3, CommitAppends DEF CatalogueOK
    <3>2. k = i /\ versions'[i] = Append(versions[i], v)
      BY <2>1, <3>1 DEF CatalogueOK, CatalogueTyped
    <3>3. n = Len(versions[i]) + 1 /\ versions'[i][n] = v
      BY <1>1, <1>3, <2>1, <3>2
    <3>4. Len(versions[i]) \in Nat
      BY <1>1
    <3> QED
      BY <3>1, <3>2, <3>3, <3>4
  <2> QED
    BY <2>1, <2>2, <2>3 DEF Catalogue!Next, Catalogue!BeginEdit, Catalogue!WriteProfile,
       Catalogue!DeleteProfile, Catalogue!BeginRoutes,
         Catalogue!FreezeTarget, Catalogue!CommitRoutes, Catalogue!BeginBind,
         Catalogue!CommitBind, Catalogue!Unbind, Catalogue!FreezeRoutes, Catalogue!FreezePack,
         Catalogue!FreezePolicy, Catalogue!Froze, Catalogue!vars
<1> QED
  BY <1>2, <1>3

\* A profile's version only rises.
LEMMA KnownStays ==
  ASSUME CatalogueTyped, [Catalogue!Next]_(Catalogue!vars), NEW t \in Targets,
         Known(t) PROVE Known(t)'
<1>1. profile[t[1]].version \in Nat \ {0} /\ t[1] \in Profiles /\ t[2] \in Nat
  BY DEF CatalogueTyped, Targets
<1>2. CASE \E p \in Profiles : Catalogue!WriteProfile(p)
  <2> PICK p \in Profiles : Catalogue!WriteProfile(p)
    BY <1>2
  <2>1. profile' = [profile EXCEPT ![p].version = profile[p].version + 1]
    BY DEF Catalogue!WriteProfile
  <2>2. profile'[t[1]].version \in {profile[t[1]].version, profile[t[1]].version + 1}
    BY <1>1, <2>1 DEF CatalogueTyped
  <2> QED
    BY <1>1, <2>2 DEF Known
<1>3. CASE \E p \in Profiles : Catalogue!DeleteProfile(p)
  <2> PICK p \in Profiles : Catalogue!DeleteProfile(p)
    BY <1>3
  <2>1. profile'[t[1]].version = profile[t[1]].version
    BY <1>1 DEF Catalogue!DeleteProfile, CatalogueTyped
  <2> QED
    BY <2>1 DEF Known
<1>4. CASE profile' = profile
  BY <1>4 DEF Known
<1> QED
  BY <1>2, <1>3, <1>4 DEF Catalogue!Next, Catalogue!CreateItem, Catalogue!BeginEdit,
     Catalogue!CommitEdit, Catalogue!BeginRoutes, Catalogue!FreezeTarget,
       Catalogue!CommitRoutes, Catalogue!BeginBind, Catalogue!CommitBind, Catalogue!Unbind,
       Catalogue!FreezeRoutes, Catalogue!FreezePack, Catalogue!FreezePolicy,
       Catalogue!Froze, Catalogue!vars

\* Whoever deletes a profile holds its row: nobody is about to name it, and the
\* routes in force do not.
LEMMA AliveStays ==
  ASSUME CatalogueTyped, [Catalogue!Next]_(Catalogue!vars), NEW t \in Targets, Alive(t),
         \/ \E e \in Editors : edit[e].op = "routes" /\ t \in edit[e].frozen
         \/ routes # <<>> /\ t \in routes[Len(routes)]
  PROVE  Alive(t)'
<1>1. t[1] \in Profiles
  BY DEF Targets
<1>2. CASE \E p \in Profiles : Catalogue!WriteProfile(p)
  BY <1>1, <1>2 DEF Catalogue!WriteProfile, Alive, CatalogueTyped
<1>3. CASE \E p \in Profiles : Catalogue!DeleteProfile(p)
  <2> PICK p \in Profiles : Catalogue!DeleteProfile(p)
    BY <1>3
  <2>1. t[1] # p
    BY DEF Catalogue!DeleteProfile, Catalogue!Free, Catalogue!Uses
  <2> QED
    BY <1>1, <2>1 DEF Catalogue!DeleteProfile, Alive, CatalogueTyped
<1>4. CASE profile' = profile
  BY <1>4 DEF Alive
<1> QED
  BY <1>2, <1>3, <1>4 DEF Catalogue!Next, Catalogue!CreateItem, Catalogue!BeginEdit,
     Catalogue!CommitEdit, Catalogue!BeginRoutes, Catalogue!FreezeTarget,
       Catalogue!CommitRoutes, Catalogue!BeginBind, Catalogue!CommitBind, Catalogue!Unbind,
       Catalogue!FreezeRoutes, Catalogue!FreezePack, Catalogue!FreezePolicy,
       Catalogue!Froze, Catalogue!vars

\* A routing that is being put together names what exists and stays; a binding
\* that is being written is still what was validated.
LEMMA EditsKept ==
  ASSUME CatalogueOK, CatalogueTyped', [Catalogue!Next]_(Catalogue!vars) PROVE EditsOK'
<1> SUFFICES ASSUME NEW e \in Editors PROVE EditOK(e)'
  BY DEF EditsOK
<1>3. CatalogueTyped /\ EditOK(e) /\ edit[e] \in Edits
  BY DEF CatalogueOK, EditsOK, CatalogueTyped
<1>4. ASSUME NEW v \in Catalogue!Version, Catalogue!Bindable(v), edit'[e].op = "bind", v = edit'[e].version
      PROVE  EditOK(e)'
  <2>1. Catalogue!Bindable(v)'
    BY <1>3, <1>4, VersionsGrow, BindableStays
  <2>2. Catalogue!Bindable(edit[e].version)'
    BY <1>4, <2>1 DEF Catalogue!Bindable, Catalogue!Published, Catalogue!Complete, Catalogue!Entries
  <2> QED
    BY <1>4, <2>2 DEF EditOK
<1>5. ASSUME edit'[e].op = "routes", \A t \in edit'[e].frozen : Known(t)' /\ Alive(t)'
      PROVE  EditOK(e)'
  BY <1>5 DEF EditOK
<1>1. CASE edit'[e] = edit[e]
  <2>1. CASE edit[e].op = "routes"
    <3>1. edit[e].frozen \in SUBSET Targets
      BY <1>3, <2>1 DEF Edits, Catalogue!NoEdit
    <3>2. \A t \in edit[e].frozen : Known(t) /\ Alive(t)
      BY <1>3, <2>1 DEF EditOK
    <3>3. \A t \in edit[e].frozen : Known(t)' /\ Alive(t)'
      BY <1>3, <2>1, <3>1, <3>2, KnownStays, AliveStays
    <3> QED
      BY <1>1, <1>5, <2>1, <3>3
  <2>2. CASE edit[e].op = "bind"
    <3>1. edit[e].version \in Catalogue!Version /\ Catalogue!Bindable(edit[e].version)
      BY <1>3, <2>2 DEF Edits, Catalogue!NoEdit, EditOK
    <3> QED
      BY <1>1, <1>4, <2>2, <3>1
  <2> QED
    BY <1>1, <2>1, <2>2 DEF EditOK
<1>2. CASE edit'[e] # edit[e]
  <2>1. CASE Catalogue!Leave(e)
    <3>1. edit'[e].op = "none"
      BY <1>3, <2>1 DEF Catalogue!Leave, Catalogue!NoEdit, CatalogueTyped
    <3> QED
      BY <3>1 DEF EditOK
  <2>2. CASE \E i \in Catalogue!Items : Catalogue!BeginEdit(e, i)
    <3>1. edit'[e].op = "edit"
      BY <1>3, <2>2 DEF Catalogue!BeginEdit, CatalogueTyped
    <3> QED
      BY <3>1 DEF EditOK
  <2>3. CASE Catalogue!BeginRoutes(e)
    <3>1. edit'[e].op = "routes" /\ edit'[e].frozen = {}
      BY <1>3, <2>3 DEF Catalogue!BeginRoutes, CatalogueTyped
    <3> QED
      BY <1>5, <3>1
  <2>4. CASE Catalogue!FreezeTarget(e)
    <3>1. edit[e] \in [op : {"routes"}, left : SUBSET Profiles, frozen : SUBSET Targets]
      BY <2>4 DEF Catalogue!FreezeTarget, CatalogueOK, CatalogueTyped, Edits, Catalogue!NoEdit
    <3>2. PICK p \in edit[e].left :
            IF profile[p].deleted THEN Catalogue!Leave(e)
            ELSE edit' = [edit EXCEPT ![e].left = @ \ {p},
                                      ![e].frozen = @ \cup {<<p, profile[p].version>>}]
      BY <2>4 DEF Catalogue!FreezeTarget
    <3>3. CASE ~profile[p].deleted
      <4>1. edit'[e] = [[edit[e] EXCEPT !.left = @ \ {p}] EXCEPT
                         !.frozen = @ \cup {<<p, profile[p].version>>}]
        BY <3>2, <3>3 DEF CatalogueOK, CatalogueTyped
      <4>2. edit'[e] = [op |-> "routes", left |-> edit[e].left \ {p},
                        frozen |-> edit[e].frozen \cup {<<p, profile[p].version>>}]
        BY <3>1, <4>1
      <4>3. profile' = profile /\ profile[p].version \in Nat \ {0}
        BY <2>4, <3>1 DEF Catalogue!FreezeTarget, CatalogueOK, CatalogueTyped
      <4>4. Known(<<p, profile[p].version>>) /\ Alive(<<p, profile[p].version>>)
        BY <3>3, <4>3 DEF Known, Alive
      <4>5. \A t \in edit[e].frozen : Known(t) /\ Alive(t)
        BY <1>3, <3>1 DEF EditOK
      <4>6. \A t \in edit'[e].frozen : Known(t)' /\ Alive(t)'
        BY <4>2, <4>3, <4>4, <4>5 DEF Known, Alive
      <4> QED
        BY <1>5, <4>2, <4>6
    <3> QED
      BY <2>1, <3>2, <3>3
  <2>5. CASE Catalogue!BeginBind(e)
    <3>1. PICK v \in (Packs \cup Policies) \X (1 .. MaxVersions) :
            Catalogue!Bindable(v) /\ edit' = [edit EXCEPT ![e] = [op |-> "bind", version |-> v]]
      BY <2>5 DEF Catalogue!BeginBind, Catalogue!Validated
    <3>2. v \in Catalogue!Version
      BY DEF Catalogue!Version, Catalogue!Items
    <3>3. edit'[e] = [op |-> "bind", version |-> v]
      BY <3>1 DEF CatalogueOK, CatalogueTyped
    <3> QED
      BY <1>4, <3>1, <3>2, <3>3
  <2>6. \/ Catalogue!Leave(e) \/ Catalogue!BeginRoutes(e) \/ Catalogue!FreezeTarget(e) \/ Catalogue!BeginBind(e)
        \/ \E i \in Catalogue!Items : Catalogue!BeginEdit(e, i)
    BY <1>2 DEF CatalogueOK, CatalogueTyped, Catalogue!Next, Catalogue!CreateItem,
       Catalogue!BeginEdit, Catalogue!WriteProfile, Catalogue!DeleteProfile, Catalogue!CommitEdit,
         Catalogue!BeginRoutes, Catalogue!FreezeTarget, Catalogue!CommitRoutes,
         Catalogue!BeginBind, Catalogue!CommitBind, Catalogue!Unbind, Catalogue!FreezeRoutes,
         Catalogue!FreezePack, Catalogue!FreezePolicy, Catalogue!Froze, Catalogue!Leave,
         Catalogue!vars
  <2> QED
    BY <2>1, <2>2, <2>3, <2>4, <2>5, <2>6
<1> QED
  BY <1>1, <1>2

\* The routes in force name profiles that are there (CommitRoutes holds them).
LEMMA RoutesKept ==
  ASSUME CatalogueOK, CatalogueTyped', [Catalogue!Next]_(Catalogue!vars) PROVE RoutesOK'
<1>1. routes \in Seq(SUBSET Targets) /\ routes' \in Seq(SUBSET Targets)
  BY DEF CatalogueOK, CatalogueTyped
<1>2. \A n \in DOMAIN routes : \A t \in routes[n] : Known(t)'
  <2> SUFFICES ASSUME NEW n \in DOMAIN routes, NEW t \in routes[n] PROVE Known(t)'
    OBVIOUS
  <2>1. t \in Targets /\ Known(t)
    BY <1>1 DEF CatalogueOK, RoutesOK
  <2> QED
    BY <2>1, KnownStays DEF CatalogueOK
<1>3. CASE routes' = routes
  <2>1. routes # <<>> => \A t \in routes[Len(routes)] : Alive(t)'
    <3> SUFFICES ASSUME routes # <<>>, NEW t \in routes[Len(routes)] PROVE Alive(t)'
      OBVIOUS
    <3>1. Len(routes) \in DOMAIN routes
      BY <1>1, EmptySeq
    <3>2. t \in Targets /\ Alive(t)
      BY <1>1, <3>1 DEF CatalogueOK, RoutesOK
    <3> QED
      BY <3>2, AliveStays DEF CatalogueOK
  <2> QED
    BY <1>2, <1>3, <2>1 DEF RoutesOK
<1>4. CASE routes' # routes
  <2>1. PICK e \in Editors : Catalogue!CommitRoutes(e)
    BY <1>4 DEF Catalogue!Next, Catalogue!CreateItem, Catalogue!BeginEdit,
       Catalogue!WriteProfile, Catalogue!DeleteProfile, Catalogue!CommitEdit,
         Catalogue!BeginRoutes, Catalogue!FreezeTarget, Catalogue!BeginBind,
         Catalogue!CommitBind, Catalogue!Unbind, Catalogue!FreezeRoutes,
         Catalogue!FreezePack, Catalogue!FreezePolicy, Catalogue!Froze, Catalogue!vars
  <2>2. routes' = Append(routes, edit[e].frozen) /\ profile' = profile
    BY <1>4, <2>1 DEF Catalogue!CommitRoutes
  <2>3. \A t \in edit[e].frozen : Known(t)' /\ Alive(t)'
    BY <2>1, <2>2 DEF CatalogueOK, EditsOK, EditOK, Catalogue!CommitRoutes, Known, Alive
  <2>4. edit[e].frozen \in SUBSET Targets
    BY <2>1 DEF Catalogue!CommitRoutes, CatalogueOK, CatalogueTyped, Edits, Catalogue!NoEdit
  <2>5. /\ Len(routes') = Len(routes) + 1 /\ Len(routes) \in Nat
        /\ DOMAIN routes' = 1 .. Len(routes')
        /\ routes'[Len(routes')] = edit[e].frozen
        /\ \A n \in 1 .. Len(routes) : routes'[n] = routes[n]
    BY <1>1, <2>2, <2>4
  <2>6. \A n \in DOMAIN routes' : n = Len(routes') \/ n \in DOMAIN routes
    BY <1>1, <2>5
  <2> QED
    BY <1>1, <1>2, <2>3, <2>5, <2>6 DEF RoutesOK
<1> QED
  BY <1>3, <1>4

\* What is bound was validated, and nothing it rests on changes.
LEMMA BoundKept ==
  ASSUME CatalogueOK, [Catalogue!Next]_(Catalogue!vars) PROVE BoundOK'
<1> SUFFICES ASSUME NEW k \in Catalogue!Kinds PROVE Usable(k)'
  BY DEF BoundOK
<1>1. CatalogueTyped /\ bound[k] \in Catalogue!Version \cup {NoVersion} /\ Usable(k)
  BY DEF CatalogueOK, CatalogueTyped, BoundOK
<1>4. ASSUME NEW v \in Catalogue!Version, Catalogue!Bindable(v), v = bound'[k], k = "pack" => v[1] \in Packs
      PROVE  Usable(k)'
  <2>1. Catalogue!Bindable(v)'
    BY <1>1, <1>4, VersionsGrow, BindableStays
  <2>2. Catalogue!Bindable(bound[k])'
    BY <1>4, <2>1 DEF Catalogue!Bindable, Catalogue!Published, Catalogue!Complete, Catalogue!Entries
  <2> QED
    BY <1>4, <2>2 DEF Usable
<1>2. CASE bound'[k] = bound[k]
  <2>1. CASE bound[k] = NoVersion
    BY <1>2, <2>1 DEF Usable
  <2>2. CASE bound[k] # NoVersion
    BY <1>1, <1>2, <1>4, <2>2 DEF Usable
  <2> QED
    BY <2>1, <2>2
<1>3. CASE bound'[k] # bound[k]
  <2>1. CASE \E e \in Editors : Catalogue!CommitBind(e)
    <3> PICK e \in Editors : Catalogue!CommitBind(e)
      BY <2>1
    <3>1. edit[e] \in [op : {"bind"}, version : Catalogue!Version]
      BY <1>1 DEF Catalogue!CommitBind, CatalogueTyped, Edits, Catalogue!NoEdit
    <3>2. Catalogue!Bindable(edit[e].version)
      BY <3>1 DEF CatalogueOK, EditsOK, EditOK
    <3>3. bound'[k] = edit[e].version /\ k = Catalogue!KindOf(edit[e].version)
      BY <1>1, <1>3 DEF Catalogue!CommitBind, CatalogueTyped
    <3> QED
      BY <1>4, <3>1, <3>2, <3>3 DEF Catalogue!KindOf
  <2>2. CASE \E l \in Catalogue!Kinds : Catalogue!Unbind(l)
    <3>1. bound'[k] = NoVersion
      BY <1>1, <1>3, <2>2 DEF Catalogue!Unbind, CatalogueTyped
    <3> QED
      BY <3>1 DEF Usable
  <2> QED
    BY <1>3, <2>1, <2>2 DEF Catalogue!Next, Catalogue!CreateItem, Catalogue!BeginEdit,
       Catalogue!WriteProfile, Catalogue!DeleteProfile, Catalogue!CommitEdit,
         Catalogue!BeginRoutes, Catalogue!FreezeTarget, Catalogue!CommitRoutes,
         Catalogue!BeginBind, Catalogue!FreezeRoutes,
         Catalogue!FreezePack, Catalogue!FreezePolicy, Catalogue!Froze, Catalogue!vars
<1> QED
  BY <1>2, <1>3

\* What is frozen stays resolvable.
LEMMA FrozenKept ==
  ASSUME CatalogueOK, [Catalogue!Next]_(Catalogue!vars) PROVE Catalogue!FrozenResolves'
<1> SUFFICES ASSUME NEW j \in Jobs PROVE Catalogue!Resolvable(j)'
  BY DEF Catalogue!FrozenResolves
<1>1. CatalogueTyped /\ Grown /\ versions' \in [Catalogue!Items -> Seq(ItemRows)]
  BY VersionsGrow DEF CatalogueOK
<1>2. snapshot[j].targets \in SUBSET Targets /\ snapshot[j].refs \in SUBSET Catalogue!Version
  BY <1>1 DEF CatalogueTyped
<1>3. \A t \in snapshot[j].targets : Known(t)'
  BY <1>1, <1>2, KnownStays DEF CatalogueOK, Catalogue!FrozenResolves, Catalogue!Resolvable, Known
<1>4. \A u \in snapshot[j].refs : Catalogue!Published(u)'
  <2> SUFFICES ASSUME NEW u \in snapshot[j].refs PROVE Catalogue!Published(u)'
    OBVIOUS
  <2>1. u \in Catalogue!Version /\ Catalogue!Published(u)
    BY <1>2 DEF CatalogueOK, Catalogue!FrozenResolves, Catalogue!Resolvable
  <2> QED
    BY <1>1, <2>1, PublishedStays
<1>5. CASE snapshot'[j] = snapshot[j]
  BY <1>3, <1>4, <1>5 DEF Catalogue!Resolvable, Known
<1>6. CASE snapshot'[j] # snapshot[j]
  <2>1. PICK phase, T, R : Adds(j, phase, T, R)
    BY <1>6, Freezes
  <2>2. \A t \in snapshot'[j].targets : t \in snapshot[j].targets \/ t \in T
    BY <2>1 DEF Adds
  <2>3. \A u \in snapshot'[j].refs : u \in snapshot[j].refs \/ u \in R
    BY <2>1 DEF Adds
  <2>4. \A t \in T : Known(t)'
    BY <2>1 DEF Adds, Known
  <2>5. \A u \in R : Catalogue!Published(u)'
    BY <2>1 DEF Adds, Catalogue!Published
  <2> QED
    BY <1>3, <1>4, <2>2, <2>3, <2>4, <2>5 DEF Catalogue!Resolvable, Known
<1> QED
  BY <1>5, <1>6

\* Everything the catalogue is made of keeps its rules (modules/governance).
THEOREM CatalogueHolds == Catalogue!Spec => []CatalogueOK
<1>1. Catalogue!Init => CatalogueOK
  <2> SUFFICES ASSUME Catalogue!Init PROVE CatalogueOK
    OBVIOUS
  <2>1. CatalogueTyped
    BY EmptySeq DEF Catalogue!Init, CatalogueTyped, Catalogue!NoSnapshot, Edits, Catalogue!Kinds
  <2>2. Catalogue!NoLostUpdate
    BY DEF Catalogue!Init, Catalogue!NoLostUpdate
  <2>3. EditsOK
    BY DEF Catalogue!Init, EditsOK, EditOK, Catalogue!NoEdit
  <2>4. RoutesOK /\ BoundOK /\ Catalogue!FrozenResolves
    BY DEF Catalogue!Init, RoutesOK, BoundOK, Usable, Catalogue!FrozenResolves,
       Catalogue!Resolvable, Catalogue!NoSnapshot
  <2> QED
    BY <2>1, <2>2, <2>3, <2>4 DEF CatalogueOK
<1>2. CatalogueOK /\ [Catalogue!Next]_(Catalogue!vars) => CatalogueOK'
  <2> SUFFICES ASSUME CatalogueOK, [Catalogue!Next]_(Catalogue!vars) PROVE CatalogueOK'
    OBVIOUS
  <2>1. CatalogueTyped'
    BY TypesKept
  <2> QED
    BY <2>1, UpdatesOfCatalogue, EditsKept, RoutesKept, BoundKept, FrozenKept DEF CatalogueOK
<1> QED
  BY <1>1, <1>2, PTL DEF Catalogue!Spec

\* Nobody's edit is written over unseen, whatever comes between the reading of
\* a version and its lock (the expected version of every PUT).
THEOREM NothingLost == Catalogue!Spec => []Catalogue!NoLostUpdate
<1>1. CatalogueOK => Catalogue!NoLostUpdate
  BY DEF CatalogueOK
<1> QED
  BY <1>1, CatalogueHolds, PTL

\* What a submission froze is there when its job asks (ExecutionService.Resolve).
THEOREM FrozenOfCatalogue == Catalogue!Spec => []Catalogue!FrozenResolves
<1>1. CatalogueOK => Catalogue!FrozenResolves
  BY DEF CatalogueOK
<1> QED
  BY <1>1, CatalogueHolds, PTL

\* The bindings and the routes in force can be frozen at any moment.
THEOREM BindingsOfCatalogue == Catalogue!Spec => []Catalogue!BindingsUsable
<1>1. CatalogueOK => Catalogue!BindingsUsable
  <2> SUFFICES ASSUME CatalogueOK PROVE Catalogue!BindingsUsable
    OBVIOUS
  <2>1. \A k \in Catalogue!Kinds : bound[k] # NoVersion => Catalogue!Bindable(bound[k])
    BY DEF CatalogueOK, BoundOK, Usable
  <2>2. routes # <<>> => \A p \in Profiles : profile[p].deleted => ~Catalogue!Uses(Len(routes), p)
    BY DEF CatalogueOK, RoutesOK, Alive, Catalogue!Uses
  <2> QED
    BY <2>1, <2>2 DEF Catalogue!BindingsUsable
<1> QED
  BY <1>1, CatalogueHolds, PTL

-----------------------------------------------------------------------------
(* The whole plane.                                                        *)

\* A step of the plane is a step or a stutter of each part.
THEOREM PartsWithin ==
  ControlSpec => Spec /\ Catalogue!Spec /\ Members!Spec /\ Exporting!Spec
<1>1. ControlInit => Init /\ Catalogue!Init /\ Members!Init /\ Exporting!Init
  BY DEF ControlInit
<1>2. [ControlNext]_controlVars => [Next]_vars
  BY DEF ControlNext, controlVars
<1>3. [ControlNext]_controlVars => [Catalogue!Next]_(Catalogue!vars)
  BY DEF ControlNext, controlVars, catalogueVars, Catalogue!vars
<1>4. [ControlNext]_controlVars => [Members!Next]_(Members!vars)
  BY DEF ControlNext, controlVars, memberVars, Members!vars
<1>5. [ControlNext]_controlVars => [Exporting!Next]_(Exporting!vars)
  BY DEF ControlNext, controlVars, exportVars, Exporting!vars
<1> QED
  BY <1>1, <1>2, <1>3, <1>4, <1>5, PTL
  DEF ControlSpec, Spec, Catalogue!Spec, Members!Spec, Exporting!Spec

\* One production per key, whoever posts it again (production/service.go).
THEOREM OneRunOfKey == ControlSpec => []OneRunPerKey
BY OneRunOfProduction, PartsWithin, PTL

\* No stage begins before what it is made of is there.
THEOREM StagesRest == ControlSpec => []StagesInOrder
BY StagesOfProduction, PartsWithin, PTL

\* A production that has ended starts nothing again.
THEOREM EndsAreFinal == ControlSpec => EndIsFinal
BY EndOfProduction, PartsWithin, PTL

\* Nobody's edit is written over unseen.
THEOREM UpdatesKept == ControlSpec => []NoLostUpdate
<1>1. Catalogue!Spec => []Catalogue!NoLostUpdate
  BY NothingLost
<1> QED
  BY <1>1, PartsWithin, PTL DEF NoLostUpdate

\* What a submission froze is there when its job asks.
THEOREM FrozenStays == ControlSpec => []FrozenResolves
<1>1. Catalogue!Spec => []Catalogue!FrozenResolves
  BY FrozenOfCatalogue
<1> QED
  BY <1>1, PartsWithin, PTL DEF FrozenResolves

\* The bindings and the routes in force can be frozen at any moment.
THEOREM BindingsHold == ControlSpec => []BindingsUsable
<1>1. Catalogue!Spec => []Catalogue!BindingsUsable
  BY BindingsOfCatalogue
<1> QED
  BY <1>1, PartsWithin, PTL DEF BindingsUsable

\* What jobs froze resolves ever after, and so does what they would freeze now.
THEOREM ResolvedAlways == ControlSpec => []Resolved
BY FrozenStays, BindingsHold, PTL DEF Resolved

\* Whoever changes the members is an owner at that moment, and the workspace
\* keeps an owner, however many requests were authenticated before.
THEOREM OwnersRuleHolds == ControlSpec => OwnersRule
BY FounderAssumption, OwnersRuleOfMembers, PartsWithin, PTL DEF OwnersRule

\* An old worker never overwrites a retry, a cancelled export stays cancelled,
\* and what is downloaded is a whole file (service.go, Recover).
THEOREM LastClaimEnding == ControlSpec => LastClaimEnds
BY LastClaimOfExports, PartsWithin, PTL DEF LastClaimEnds
=============================================================================
