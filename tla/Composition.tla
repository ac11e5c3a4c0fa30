---------------------------- MODULE Composition ----------------------------
(***************************************************************************)
(* A film rendered on the spot from a frozen timeline:                      *)
(* workflows/media/compose.py, the composition_runs row and the renderer's  *)
(* process of infrastructure/media/composition.py.                          *)
(*                                                                         *)
(* Rendering may be repeated, so a later claim starts again unless it finds *)
(* the receipt of an archived film.  Two renders need not yield the same    *)
(* bytes, but the objects they are uploaded to are written once.            *)
(***************************************************************************)
EXTENDS Naturals

CONSTANTS Workers, MaxClaims,
  Films,      \* the bytes a render may yield
  NoFilm

VARIABLES
  job, hand,   \* of LeasedJob
  run,         \* composition_runs: [state, artifact, fence]; artifact NoFilm for none
  object,      \* the object store: [video, receipt, document], or NoFilm
  step,        \* where each process is, and the film it has in hand
  late         \* calls in threads whose handler is gone: [at, film, fence]

J == INSTANCE LeasedJob
renderVars == <<run, object, step, late>>
vars == <<job, hand, renderVars>>

Film == Films \cup {NoFilm}
RunStates == {"none", "prepared", "rendering", "cancel_requested", "cancelled", "outputs_ready"}
StoreCalls == {"reserve", "get", "begin", "archived", "stop_render", "stop_at_once"}
Uploads == {"video", "receipt"}
Steps == StoreCalls \cup Uploads
           \cup {"idle", "load", "look", "render", "publish", "wait", "fail", "cancel", "leave"}
Idle == [at |-> "idle", film |-> NoFilm]

TypeOK ==
  /\ J!TypeOK
  /\ run \in [state : RunStates, artifact : Film, fence : 0 .. job.fence]
  /\ object \in [Uploads \cup {"document"} -> Film]
  /\ step \in [Workers -> [at : Steps, film : Film]]

Init ==
  /\ J!Init
  /\ run = [state |-> "none", artifact |-> NoFilm, fence |-> 0]
  /\ object = [o \in Uploads \cup {"document"} |-> NoFilm]
  /\ step = [w \in Workers |-> Idle]
  /\ late = {}

-----------------------------------------------------------------------------
(* The row.                                                                *)

Write(f, to) == [run EXCEPT !.state = to, !.fence = f]
BeginAny(f) == {Write(f, "rendering")}   \* mutant: whatever the row says
Begin(f) == {Write(f, "rendering") : s \in {run.state} \cap {"prepared", "rendering"}}

\* The first film confirmed stays; another one is refused.
Archived(f, film) ==
  IF run.artifact # NoFilm THEN {run : x \in {film} \cap {run.artifact}}
  ELSE {[Write(f, "outputs_ready") EXCEPT !.artifact = film] :
          s \in {run.state} \cap {"prepared", "rendering", "outputs_ready"}}

Stored(at, film, f) ==
  CASE at = "reserve" -> {IF run.state = "none" THEN Write(f, "prepared") ELSE run}
    [] at = "get" ->
         {IF run.state = "rendering" /\ run.fence # f THEN Write(f, "prepared") ELSE run}
    [] at = "begin" -> Begin(f)
    [] at = "archived" -> Archived(f, film)
    [] at \in {"stop_render", "stop_at_once"} ->
         {IF run.state = "outputs_ready" THEN run ELSE Write(f, "cancelled")}

MayPutOver(o, film) == TRUE              \* mutant: a second render replaces the first
\* The objects are put with If-None-Match: the same bytes again, or a conflict.
MayPut(o, film) == object[o] \in {NoFilm, film}

LateTakesEffect ==
  \E c \in late :
    /\ late' = late \ {c}
    /\ IF c.at \in Uploads
       THEN /\ object' = IF MayPut(c.at, c.film) THEN [object EXCEPT ![c.at] = c.film] ELSE object
            /\ UNCHANGED run
       ELSE /\ UNCHANGED object
            /\ IF J!Good(c.fence) /\ Stored(c.at, c.film, c.fence) # {}
               THEN run' \in Stored(c.at, c.film, c.fence) ELSE UNCHANGED run
    /\ UNCHANGED <<job, hand, step>>

-----------------------------------------------------------------------------
(* The job.                                                                *)

\* _composition_cancellation_payload: a render under way is only asked to stop.
Settled ==
  CASE run.state = "prepared" -> "cancelled"
    [] run.state = "rendering" -> "cancel_requested"
    [] OTHER -> run.state
Settles == run' = IF job'.status # job.status /\ job'.status \in {"cancel_requested", "cancelled"}
                  THEN [run EXCEPT !.state = Settled] ELSE run

Outside ==
  /\ J!Accept("accepted") \/ J!Sweep \/ J!AskCancel \/ J!Expire \/ J!AskResume("approve")
  /\ Settles
  /\ UNCHANGED <<object, step, late>>

Goto(w, at, film) ==
  /\ step' = [step EXCEPT ![w] = [at |-> at, film |-> film]]
  /\ UNCHANGED <<job, hand, run, object, late>>
Ends(w, s) ==
  /\ IF J!Good(hand[w]) THEN J!Finish(w, s) /\ Settles ELSE J!Leave(w) /\ UNCHANGED run
  /\ step' = [step EXCEPT ![w] = Idle]
  /\ UNCHANGED <<object, late>>
Gone(w) ==
  /\ J!Leave(w)
  /\ step' = [step EXCEPT ![w] = Idle]
At(w, at) == hand[w] # 0 /\ step[w].at = at

Claim(w) ==
  /\ job.fence < MaxClaims
  /\ J!Claim(w)
  /\ step' = [step EXCEPT ![w] = [Idle EXCEPT !.at = "load"]]
  /\ UNCHANGED <<run, object, late>>

InThread(w) ==
  {[at |-> step[w].at, film |-> step[w].film, fence |-> hand[w]] :
     x \in {step[w].at} \cap (StoreCalls \cup Uploads)}
Crash(w) == Gone(w) /\ late' = late \cup InThread(w) /\ UNCHANGED <<run, object>>

\* The handler is cancelled and its renderer killed.  If it was the heartbeat
\* that met a cancel, the row is told, out of the rendering block only.
Rendering == {"render", "archived"} \cup Uploads
Interrupt(w) ==
  /\ hand[w] # 0 /\ step[w].at \notin {"cancel", "leave", "stop_render"}
  /\ LET told == J!Good(hand[w]) /\ job.status = "cancel_requested"
     IN step' = [step EXCEPT ![w] = [film |-> NoFilm, at |->
          IF ~told THEN "leave" ELSE IF @.at \in Rendering THEN "stop_render" ELSE "cancel"]]
  /\ late' = late \cup InThread(w)
  /\ UNCHANGED <<job, hand, run, object>>

-----------------------------------------------------------------------------
(* The handler.                                                              *)

Load(w) == At(w, "load") /\ (Goto(w, "reserve", NoFilm) \/ Ends(w, "failed"))

After(at, row) ==
  CASE at = "reserve" -> "get"
    [] at = "get" -> IF row.state \in {"cancel_requested", "cancelled"} THEN "stop_at_once"
                     ELSE IF row.state = "outputs_ready" THEN "publish" ELSE "look"
    [] at = "begin" -> "render"
    [] at = "archived" -> "publish"
    [] at \in {"stop_render", "stop_at_once"} -> "cancel"

Call(w) ==
  LET at == step[w].at  film == step[w].film IN
  /\ hand[w] # 0 /\ at \in StoreCalls
  /\ \/ /\ J!Good(hand[w])
        /\ \E row \in Stored(at, film, hand[w]) :
             /\ run' = row
             /\ step' = [step EXCEPT ![w].at = After(at, row)]
        /\ UNCHANGED <<job, hand, object, late>>
     \/ J!Good(hand[w]) /\ Stored(at, film, hand[w]) = {} /\ Goto(w, "fail", NoFilm)
     \/ ~J!Good(hand[w]) /\ Goto(w, "leave", NoFilm)
     \/ /\ step' = [step EXCEPT ![w].at = IF at = "stop_render" THEN "cancel" ELSE "wait"]
        /\ late' = late \cup InThread(w)
        /\ UNCHANGED <<job, hand, run, object>>

\* The receipt names the film it was written for; the film must be there.
Look(w) ==
  /\ At(w, "look")
  /\ \/ object["receipt"] = NoFilm /\ Goto(w, "begin", NoFilm)
     \/ /\ object["receipt"] # NoFilm
        /\ IF object["video"] = object["receipt"] THEN Goto(w, "archived", object["receipt"])
           ELSE Goto(w, "fail", NoFilm)
     \/ Goto(w, "wait", NoFilm)

\* A render, a timeline that cannot be rendered (CompositionError), or inputs
\* and an output that are out of bounds (ValueError).
Render(w) ==
  /\ At(w, "render")
  /\ \/ \E film \in Films : Goto(w, "video", film)
     \/ \E at \in {"wait", "fail"} : Goto(w, at, NoFilm)

MayRecord(w) == J!Good(hand[w]) /\ job.status = "running"
Upload(w) ==
  LET o == step[w].at  film == step[w].film IN
  /\ hand[w] # 0 /\ o \in Uploads
  /\ \/ /\ MayPut(o, film)
        /\ object' = [object EXCEPT ![o] = film]
        /\ step' = [step EXCEPT ![w].at =
             IF o = "receipt" THEN "archived" ELSE IF MayRecord(w) THEN "receipt" ELSE "leave"]
        /\ UNCHANGED <<job, hand, run, late>>
     \/ ~MayPut(o, film) /\ Goto(w, "fail", NoFilm)
     \/ Goto(w, "wait", NoFilm)

\* The document of the film the row confirms.
Publish(w) ==
  /\ At(w, "publish")
  /\ \/ /\ object' = [object EXCEPT !["document"] = run.artifact]
        /\ IF MayRecord(w) THEN J!Finish(w, "completed") /\ step' = [step EXCEPT ![w] = Idle]
           ELSE step' = [step EXCEPT ![w].at = "leave"] /\ UNCHANGED <<job, hand>>
        /\ UNCHANGED <<run, late>>
     \/ Goto(w, "wait", NoFilm)

Return(w) ==
  \/ At(w, "wait") /\ Ends(w, "waiting_review")
  \/ At(w, "fail") /\ Ends(w, "failed")
  \/ At(w, "cancel") /\ Ends(w, "cancelled")
  \/ At(w, "leave") /\ Gone(w) /\ UNCHANGED <<run, object, late>>

Handler(w) == \/ Load(w) \/ Call(w) \/ Look(w) \/ Render(w)
              \/ Upload(w) \/ Publish(w) \/ Return(w)
Next ==
  \/ Outside \/ LateTakesEffect
  \/ \E w \in Workers : Claim(w) \/ Handler(w) \/ Interrupt(w) \/ Crash(w)

Spec == Init /\ [][Next]_vars

-----------------------------------------------------------------------------
(* What must hold.                                                         *)

\* One film: the row, the receipt and the object agree, whichever of two
\* renderers (one of them may have outlived its lease) got there first, and a
\* completed job publishes the film its row names.
OneFilm ==
  /\ run.artifact # NoFilm => object["receipt"] = run.artifact /\ object["video"] = run.artifact
  /\ job.status = "completed" => run.artifact # NoFilm /\ object["document"] = run.artifact

\* What a cancellation was told has stopped stays stopped: the row never leaves
\* "cancelled", and no process begins to render after it, a late begin or a
\* confirmation that crosses the cancel included (storyboard-timeline-
\* composition.md on local_render_terminal; one that has lost its lease and
\* not noticed may still be rendering).
StoppedIsStopped ==
  [][run.state = "cancelled" =>
       /\ run'.state = "cancelled"
       /\ \A w \in Workers : step'[w].at = "render" => step[w].at = "render"]_vars
=============================================================================
