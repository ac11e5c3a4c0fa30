----------------------------- MODULE Production -----------------------------
(***************************************************************************)
(* One automatic production, from a storyboard to the finished film:       *)
(* modules/production of the Control plane.                                *)
(*                                                                         *)
(* A production is a parent row and one child job per slot: the assets of  *)
(* each shot, then the assembled timeline, then the composed video.  The   *)
(* Runtime runs the children; Control only sees their projected status and *)
(* the versions that reach the database.  Advance, cancel and resume each  *)
(* lock the parent row, read the children, decide, and write; the children *)
(* are not locked and move between the read and the write.  Creation reads,*)
(* freezes the resources outside any transaction, and then inserts.        *)
(***************************************************************************)
EXTENDS Naturals, FiniteSets

CONSTANTS
  Callers,      \* who posts a request; all of them use one idempotency key
  RequestOf,    \* [Callers -> Requests]: what each posts
  Requests,     \* records [mode, music, speech, effects, visualOf, audioOf];
                \* the last two are the shots bound to existing media
  Shots, NoShot,
  Spoken,       \* the shots with a dialogue
  Lasting,      \* the shots of at least half a second
  Actors,       \* who works on the parent row: the recovery loop and users
  Recovery,     \* the recovery loop
  Fragile,      \* slots whose request the closed child contract may refuse
  Fits,         \* pairs <<request, route>> whose parameters the frozen
                \* profiles allow
  Lost,         \* slots whose version the projection refuses for ever
  MaxRoutes     \* bound: publications of the model routing

ASSUME RequestAssumption ==
  /\ RequestOf \in [Callers -> Requests]
  /\ \A r \in Requests :
       /\ r.mode \in {"image", "video"}
       /\ {r.music, r.speech, r.effects} \subseteq BOOLEAN
       /\ r.visualOf \subseteq Shots /\ r.audioOf \subseteq Shots
  /\ Spoken \subseteq Shots /\ Lasting \subseteq Shots /\ NoShot \notin Shots
ASSUME ActorAssumption == Recovery \in Actors /\ MaxRoutes \in Nat

Slots == {"music", "assemble", "compose"} \X {NoShot}
           \cup {"visual", "audio", "effect"} \X Shots
Music == <<"music", NoShot>>
Assemble == <<"assemble", NoShot>>
Compose == <<"compose", NoShot>>

VARIABLES
  caller,     \* what each poster is doing
  route,      \* the model routing governance has published
  run,        \* the production_runs row
  child,      \* per slot the status of its job, "none" without a child
  committed,  \* the slots whose job has its document version
  tx          \* what each actor does to the parent row, and what it has read

vars == <<caller, route, run, child, committed, tx>>

Ended == {"completed", "failed", "cancelled"}
ActiveOrFailed == {"queued", "assets", "assembling", "composing", "failed"}   \* mutant
Active == {"queued", "assets", "assembling", "composing"}
JobStatuses == {"none", "queued", "running", "waiting_review", "cancel_requested"} \cup Ended
Locking == {"advance", "cancel", "resume", "failover"}

NoRequest == [mode |-> "none"]
NoRun == [status |-> "none", request |-> NoRequest, timeline |-> FALSE, final |-> FALSE]
NoChild == [s \in Slots |-> "none"]
Idle == [op |-> "none", seen |-> NoChild, target |-> {}]
Posting(phase, kinds, routes) == [phase |-> phase, kinds |-> kinds, routes |-> routes]
                             \* kinds: how many snapshots are still to freeze

TypeOK ==
  /\ caller \in [Callers -> [phase : {"idle", "freezing", "answered", "refused"},
                             kinds : Nat, routes : SUBSET (0 .. MaxRoutes)]]
  /\ route \in 0 .. MaxRoutes
  /\ run.status \in {"none", "waiting_review"} \cup Active \cup Ended
  /\ run.request \in Requests \cup {NoRequest}
  /\ child \in [Slots -> JobStatuses]
  /\ committed \subseteq Slots
  /\ \A a \in Actors : tx[a].seen \in [Slots -> JobStatuses]

Init ==
  /\ caller = [c \in Callers |-> Posting("idle", 0, {})]
  /\ route = 0
  /\ run = NoRun
  /\ child = NoChild
  /\ committed = {}
  /\ tx = [a \in Actors |-> Idle]

-----------------------------------------------------------------------------
(* Creation.                                                               *)

\* The asset slots a request needs: what is not bound and is asked for.
Assets(r) ==
  (IF r.music THEN {Music} ELSE {})
    \cup {"visual"} \X (Shots \ r.visualOf)
    \cup {"audio"} \X (IF r.speech THEN Spoken \ r.audioOf ELSE {})
    \cup {"effect"} \X (IF r.effects THEN Lasting ELSE {})

\* The kinds of snapshot to freeze; a visual is an image or a video.
Kinds(r) ==
  {IF s[1] = "visual" THEN r.mode ELSE s[1] : s \in Assets(r) \cup {Assemble, Compose}}

\* A replay is answered from the row; another body under the key is refused.
Answer(c) == IF run.request = RequestOf[c] THEN "answered" ELSE "refused"
Post(c) ==
  /\ caller[c].phase = "idle"
  /\ caller' = [caller EXCEPT ![c] =
       IF run.status # "none" THEN Posting(Answer(c), 0, {})
                              ELSE Posting("freezing", Cardinality(Kinds(RequestOf[c])), {})]
  /\ UNCHANGED <<route, run, child, committed, tx>>

\* The kinds are frozen one at a time, each from what is published then.
FreezeKind(c) ==
  /\ caller[c].phase = "freezing" /\ caller[c].kinds > 0
  /\ caller' = [caller EXCEPT ![c].kinds = @ - 1, ![c].routes = @ \cup {route}]
  /\ UNCHANGED <<route, run, child, committed, tx>>

PublishRoute ==
  /\ route < MaxRoutes
  /\ route' = route + 1
  /\ UNCHANGED <<caller, run, child, committed, tx>>

InsertBlind(c) == "insert"             \* mutant: the row is not looked up again
\* The second transaction, under the advisory lock of the key.
InsertOutcome(c) ==
  IF Cardinality(caller[c].routes) # 1 THEN "refused"
  ELSE IF run.status # "none" THEN Answer(c)
  ELSE IF \A v \in caller[c].routes : <<RequestOf[c], v>> \in Fits THEN "insert"
  ELSE "refused"
InsertRun(c) ==
  /\ caller[c].phase = "freezing" /\ caller[c].kinds = 0
  /\ LET outcome == InsertOutcome(c)
     IN /\ caller' = [caller EXCEPT ![c] =
             Posting(IF outcome = "insert" THEN "answered" ELSE outcome, 0, {})]
        /\ run' = IF outcome = "insert"
                  THEN [NoRun EXCEPT !.status = "queued", !.request = RequestOf[c]]
                  ELSE run
  /\ UNCHANGED <<route, child, committed, tx>>

-----------------------------------------------------------------------------
(* The transactions on the parent row.                                     *)

LockFree(a) == \A b \in Actors \ {a} : tx[b].op \notin Locking

\* readProduction ... FOR UPDATE, then the children, in a statement of its own.
Begin(a, op, target) ==
  /\ run.status # "none"
  /\ LockFree(a)
  /\ tx' = [tx EXCEPT ![a] = [op |-> op, seen |-> child, target |-> target]]
  /\ UNCHANGED <<caller, route, run, child, committed>>

RecoveredButOne == Active \ {"assets"}     \* mutant: a stage missing in the query
\* The stages the query of RecoverProductions names.
Recovered == Active
\* Somebody is about to advance: a user at any time, the recovery loop when
\* its query finds the run.
Pick(a) ==
  /\ tx[a].op = "none"
  /\ run.status # "none"
  /\ a = Recovery => run.status \in Recovered
  /\ tx' = [tx EXCEPT ![a].op = "picked"]
  /\ UNCHANGED <<caller, route, run, child, committed>>
BeginAdvance(a) == tx[a].op = "picked" /\ Begin(a, "advance", {})
BeginFailover(a) == tx[a].op = "rejected" /\ Begin(a, "failover", {})
BeginCancel(a) == a # Recovery /\ tx[a].op = "none" /\ Begin(a, "cancel", {})
\* Resume names one child, or none and means all that wait.
BeginResume(a) ==
  /\ a # Recovery /\ tx[a].op = "none"
  /\ \E T \in {{s} : s \in {t \in Slots : child[t] # "none"}} \cup {Slots} : Begin(a, "resume", T)

Leave(a, op) == tx' = [tx EXCEPT ![a] = [Idle EXCEPT !.op = op]]
\* Nothing written; an error of the closed contract sends Advance to failover.
RollBack(a, op) == Leave(a, op) /\ UNCHANGED <<caller, route, run, child, committed>>

RunningOnly(seen) == {s \in Slots : seen[s] = "running"}     \* mutant: the rest forgotten
ToCancel(seen) ==
  {s \in Slots : seen[s] \notin Ended \cup {"none", "cancel_requested"}}
\* cancelProductionChildren: SubmitWithin reads each job again and refuses one
\* that has ended, which refuses all.
CancelChildren(seen) ==
  /\ \A s \in ToCancel(seen) : child[s] \notin Ended
  /\ child' = [s \in Slots |-> IF s \in ToCancel(seen) THEN "cancel_requested" ELSE child[s]]
CancelRefused(seen) == \E s \in ToCancel(seen) : child[s] \in Ended

\* AdvanceProduction, in the order of its tests.
ChildEndedBadly(seen) == \E s \in Slots : seen[s] \in {"failed", "cancelled"}
ChildWaits(seen) == \E s \in Slots : seen[s] = "waiting_review"

AdvanceNothing(a) ==
  /\ tx[a].op = "advance"
  /\ \/ run.status \in Ended
     \/ /\ run.status = "waiting_review"
        /\ ~ChildEndedBadly(tx[a].seen) /\ ~ChildWaits(tx[a].seen)
  /\ RollBack(a, "none")

AdvanceFails(a) ==
  /\ tx[a].op = "advance" /\ run.status \notin Ended
  /\ ChildEndedBadly(tx[a].seen)
  /\ \/ /\ CancelChildren(tx[a].seen)
        /\ run' = [run EXCEPT !.status = "failed"]
        /\ Leave(a, "none")
        /\ UNCHANGED <<caller, route, committed>>
     \/ CancelRefused(tx[a].seen) /\ RollBack(a, "rejected")

AdvancePauses(a) ==
  /\ tx[a].op = "advance" /\ run.status \notin Ended
  /\ ~ChildEndedBadly(tx[a].seen) /\ ChildWaits(tx[a].seen)
  /\ run' = [run EXCEPT !.status = "waiting_review"]
  /\ Leave(a, "none")
  /\ UNCHANGED <<caller, route, child, committed>>

Finished(seen, s) == seen[s] = "completed"          \* mutant: the version is not awaited
Done(seen, s) == seen[s] = "completed" /\ s \in committed
Ready(seen) == \A s \in Assets(run.request) : Done(seen, s)
\* The children to enqueue: missing assets, then the timeline, then the film.
Missing(seen) ==
  {s \in Slots :
     /\ seen[s] = "none"
     /\ \/ s \in Assets(run.request)
        \/ s = Assemble /\ Ready(seen)
        \/ s = Compose /\ Ready(seen) /\ Done(seen, Assemble)}
Stage(seen) ==
  IF ~Ready(seen) THEN "assets"
  ELSE IF ~Done(seen, Assemble) THEN "assembling"
  ELSE IF ~Done(seen, Compose) THEN "composing" ELSE "completed"
AdvanceSchedules(a) ==
  LET seen == tx[a].seen
  IN /\ tx[a].op = "advance" /\ run.status \in Active
     /\ ~ChildEndedBadly(seen) /\ ~ChildWaits(seen)
     /\ \/ /\ child' = [s \in Slots |-> IF s \in Missing(seen) THEN "queued" ELSE child[s]]
           /\ run' = [run EXCEPT !.status = Stage(seen),
                        !.timeline = @ \/ (Ready(seen) /\ Done(seen, Assemble)),
                        !.final = @ \/ Stage(seen) = "completed"]
           /\ Leave(a, "none")
           /\ UNCHANGED <<caller, route, committed>>
        \/ Missing(seen) \cap Fragile # {} /\ RollBack(a, "rejected")

\* The second transaction of a refused Advance.
Failover(a) ==
  /\ tx[a].op = "failover"
  /\ \/ run.status \in Ended \cup {"waiting_review"} /\ RollBack(a, "none")
     \/ /\ run.status \in Active
        /\ CancelChildren(tx[a].seen)
        /\ run' = [run EXCEPT !.status = "failed"]
        /\ Leave(a, "none")
        /\ UNCHANGED <<caller, route, committed>>
     \/ run.status \in Active /\ CancelRefused(tx[a].seen) /\ RollBack(a, "none")

CancelProduction(a) ==
  /\ tx[a].op = "cancel"
  /\ \/ run.status \in {"cancelled", "completed"} /\ RollBack(a, "none")
     \/ CancelRefused(tx[a].seen) /\ RollBack(a, "none")
     \/ /\ run.status \notin {"cancelled", "completed"}
        /\ CancelChildren(tx[a].seen)
        /\ run' = [run EXCEPT !.status = "cancelled"]
        /\ Leave(a, "none")
        /\ UNCHANGED <<caller, route, committed>>

\* The named children that wait are approved and the run goes on; naming one
\* that does not wait is refused.  The caller then advances.
Waiting(a) == {s \in tx[a].target : tx[a].seen[s] = "waiting_review"}
ResumeProduction(a) ==
  /\ tx[a].op = "resume"
  /\ LET refused == \/ run.status # "waiting_review"
                    \/ tx[a].target # Slots /\ Waiting(a) = {}
                    \/ \E s \in Waiting(a) : child[s] # "waiting_review"
     IN \/ refused /\ RollBack(a, "none")
        \/ /\ ~refused
           /\ child' = [s \in Slots |-> IF s \in Waiting(a) THEN "queued" ELSE child[s]]
           /\ run' = [run EXCEPT !.status = "assets"]
           /\ Leave(a, "picked")
           /\ UNCHANGED <<caller, route, committed>>

\* The process stops or the database or the object store fails, in a transaction
\* or after a refused one.
Abort(a) == tx[a].op \in Locking \cup {"rejected"} /\ RollBack(a, "none")

-----------------------------------------------------------------------------
(* The children, as the projection of Runtime events and their own          *)
(* endpoints move them.                                                     *)

Moves ==
  [queued |-> {"running", "cancel_requested"},
   running |-> {"queued", "waiting_review", "completed", "failed", "cancel_requested"},
   waiting_review |-> {"queued", "cancel_requested"},
   cancel_requested |-> {"cancelled", "completed", "failed"}]
MoveChild(s, to) ==
  /\ child[s] \in DOMAIN Moves /\ to \in Moves[child[s]]
  /\ child' = [child EXCEPT ![s] = to]
  /\ UNCHANGED <<caller, route, run, committed, tx>>
CommitVersion(s) ==
  /\ child[s] = "completed"
  /\ s \notin committed \cup Lost
  /\ committed' = committed \cup {s}
  /\ UNCHANGED <<caller, route, run, child, tx>>

-----------------------------------------------------------------------------
Act(a) ==
  \/ AdvanceNothing(a) \/ AdvanceFails(a) \/ AdvancePauses(a) \/ AdvanceSchedules(a)
  \/ Failover(a) \/ CancelProduction(a) \/ ResumeProduction(a)

Next ==
  \/ \E c \in Callers : Post(c) \/ FreezeKind(c) \/ InsertRun(c)
  \/ PublishRoute
  \/ \E a \in Actors :
       \/ Pick(a) \/ BeginAdvance(a) \/ BeginFailover(a) \/ BeginCancel(a) \/ BeginResume(a)
       \/ Act(a) \/ Abort(a)
  \/ \E s \in Slots : CommitVersion(s) \/ \E to \in JobStatuses : MoveChild(s, to)

Spec == Init /\ [][Next]_vars

\* The recovery loop comes round every two seconds and its waits for the row
\* lock are served; an actor's transactions are not all aborted, nor are the
\* loop's failovers; a child that is run again and again, after retries or
\* reviews, ends at last.
EndChild(s) == \E to \in Ended : MoveChild(s, to)
Fairness ==
  /\ WF_vars(Pick(Recovery))
  /\ SF_vars(BeginAdvance(Recovery)) /\ SF_vars(BeginFailover(Recovery))
  /\ SF_vars(Failover(Recovery))
  /\ \A a \in Actors : SF_vars(Act(a))
  /\ \A s \in Slots : /\ WF_vars(MoveChild(s, "running")) /\ SF_vars(EndChild(s))
                      /\ WF_vars(CommitVersion(s))
FairSpec == Spec /\ Fairness

-----------------------------------------------------------------------------
(* What must hold.                                                         *)

\* Everybody who was answered asked for the run that exists, however the
\* posts under one key race (CreateProduction's two transactions).
OneRunPerKey ==
  \A c \in Callers : caller[c].phase = "answered" => run.request = RequestOf[c]

\* A stage starts from versions in the database, never from a status alone,
\* and the run is completed only with the film (AdvanceProduction).
StagesInOrder ==
  /\ child[Assemble] # "none" =>
       \A s \in Assets(run.request) : child[s] = "completed" /\ s \in committed
  /\ child[Compose] # "none" => Assemble \in committed /\ child[Assemble] = "completed"
  /\ run.status = "completed" => Compose \in committed /\ run.timeline /\ run.final

\* A run that has failed or was cancelled leaves nothing running: each child has
\* ended or has been told to, although the children moved while they were read,
\* none is started any more, and the run does not come back; a failed one may
\* still be cancelled.
Stopped == \A s \in Slots : child[s] \in Ended \cup {"none", "cancel_requested"}
EndIsFinal ==
  [][/\ run'.status \in {"failed", "cancelled"} => Stopped'
     /\ run.status \in Ended =>
          /\ run'.status \in {run.status} \cup IF run.status = "failed" THEN {"cancelled"} ELSE {}
          /\ \A s \in Slots : child[s] = "none" => child'[s] = "none"]_vars

\* A run that nobody has to review ends, unless the version of a completed
\* child never reaches the database.
HeldUp == \E s \in Lost : child[s] = "completed"
RunSettles == run.status \in Active ~> run.status \in Ended \cup {"waiting_review"} \/ HeldUp

\* docs/architecture/automatic-production.md: a child that fails stops the
\* scheduling and cancels its active siblings.
FailureStopsRun ==
  (\E s \in Slots : child[s] = "failed") ~> run.status \in Ended
=============================================================================
