------------------------- MODULE CompositionProofs -------------------------
(***************************************************************************)
(* OneFilm and StoppedIsStopped of Composition, for any processes, claims    *)
(* and films a render may yield.  "No film" is not one of them (NoFilm is a  *)
(* null artifact_id): OneFilm assumes it where it is stated.  At the end,    *)
(* RendersInStep of Timeline, for any storyboard and any lengths of media.   *)
(***************************************************************************)
EXTENDS Composition, Timeline, SequenceTheorems, TLAPS

Rows == [state : RunStates, artifact : Film, fence : Nat]
Places == [at : Steps, film : Film]
Calls == [at : StoreCalls \cup Uploads, film : Film, fence : Nat]
JobRows == [status : {"none", "accepted", "waiting_review"} \cup J!Leased \cup J!Ends,
            fence : Nat, live : BOOLEAN, resume : J!Actions \cup {"none"}]

Typed ==
  /\ job \in JobRows /\ hand \in [Workers -> Nat]
  /\ run \in Rows /\ object \in [Uploads \cup {"document"} -> Film]
  /\ step \in [Workers -> Places] /\ late \subseteq Calls

-----------------------------------------------------------------------------
(* What a transaction may do to the row.                                   *)

\* Only a confirmation names a film, and only where none is named; what is
\* cancelled stays so.
Confirms(at, film, row) == at = "archived" /\ row.artifact = film
MovedBy(at, film, row) ==
  /\ row \in Rows
  /\ run.artifact # NoFilm => row.artifact = run.artifact
  /\ row.artifact # NoFilm => run.artifact # NoFilm \/ Confirms(at, film, row)
  /\ row.state = "outputs_ready" =>
       run.state = "outputs_ready" \/ Confirms(at, film, row)
  /\ run.state = "cancelled" => row.state = "cancelled"
  /\ at = "begin" => run.state # "cancelled"
  /\ at = "archived" => row.artifact = film

LEMMA StoredRows ==
  ASSUME Typed, NEW at \in StoreCalls, NEW film \in Film, NEW f \in Nat,
         NEW row \in Stored(at, film, f)
  PROVE  MovedBy(at, film, row)
<1> USE DEF Typed, MovedBy, Confirms, Rows, RunStates
<1>1. CASE at = "reserve"
  BY <1>1 DEF Stored, Write
<1>5. CASE at = "get"
  BY <1>5 DEF Stored, Write
<1>2. CASE at = "begin"
  BY <1>2 DEF Stored, Begin, Write
<1>3. CASE at = "archived"
  <2>1. CASE run.artifact # NoFilm
    BY <1>3, <2>1 DEF Stored, Archived
  <2>2. CASE run.artifact = NoFilm
    BY <1>3, <2>2 DEF Stored, Archived, Write
  <2> QED
    BY <2>1, <2>2
<1>4. CASE at \in {"stop_render", "stop_at_once"}
  BY <1>4 DEF Stored, Write
<1> QED
  BY <1>1, <1>2, <1>3, <1>4, <1>5 DEF StoreCalls

\* A cancellation touches the state alone, and never a confirmed film's.
SettledOK ==
  /\ run' \in Rows /\ run'.artifact = run.artifact
  /\ run'.state = "outputs_ready" => run.state = "outputs_ready"
  /\ run.state = "cancelled" => run'.state = "cancelled"

LEMMA SettledRow == ASSUME Typed, Settles PROVE SettledOK
BY DEF Typed, Settles, SettledOK, Settled, Rows, RunStates

-----------------------------------------------------------------------------
(* What the job does.                                                      *)

\* Nobody but a handler completes the job.
NotCompleted == job'.status = "completed" => job.status = "completed"
JobTyped == job' \in JobRows /\ hand' \in [Workers -> Nat]

LEMMA OutsideJob ==
  ASSUME Typed, J!Accept("accepted") \/ J!Sweep \/ J!AskCancel \/ J!Expire \/ J!AskResume("approve")
  PROVE  JobTyped /\ NotCompleted
BY DEF Typed, JobTyped, NotCompleted, JobRows, J!Accept, J!Sweep, J!AskCancel, J!Expire, J!AskResume,
       J!Leased, J!Ends, J!Actions

LEMMA FinishedJob ==
  ASSUME Typed, NEW w \in Workers, NEW s \in {"accepted", "waiting_review"} \cup J!Ends, J!Finish(w, s)
  PROVE  JobTyped /\ (s # "completed" => NotCompleted)
BY DEF Typed, JobTyped, NotCompleted, JobRows, J!Finish, J!Leased, J!Ends, J!Actions

LEMMA LeftJob == ASSUME Typed, NEW w \in Workers, J!Leave(w) PROVE JobTyped /\ NotCompleted
BY DEF Typed, JobTyped, NotCompleted, J!Leave

LEMMA ClaimedJob == ASSUME Typed, NEW w \in Workers, J!Claim(w) PROVE JobTyped /\ NotCompleted
<1> USE DEF Typed, JobTyped, NotCompleted, JobRows
<1>1. job.fence + 1 \in Nat
  OBVIOUS
<1>2. job' = [job EXCEPT !.status = "running", !.fence = job.fence + 1, !.live = TRUE]
  BY DEF J!Claim
<1>3. job' \in JobRows
  BY <1>1, <1>2 DEF J!Leased
<1>4. hand' \in [Workers -> Nat]
  BY <1>1 DEF J!Claim
<1> QED
  BY <1>2, <1>3, <1>4

LEMMA EndedJob ==
  ASSUME Typed, NEW w \in Workers, NEW s \in {"waiting_review", "failed", "cancelled"}, Ends(w, s)
  PROVE  JobTyped /\ NotCompleted /\ SettledOK
<1>1. CASE J!Good(hand[w])
  BY <1>1, FinishedJob, SettledRow DEF Ends, J!Ends
<1>2. CASE ~J!Good(hand[w])
  BY <1>2, LeftJob DEF Ends, SettledOK, Typed
<1> QED
  BY <1>1, <1>2

-----------------------------------------------------------------------------
(* What each place has behind it.                                          *)

\* A film in hand is uploaded, then its receipt, then the row confirms it: each
\* finds the object before it in the store, now or late.
Backed(p, objects) ==
  /\ p.at \in Uploads \cup {"archived"} => p.film # NoFilm
  /\ p.at \in {"receipt", "archived"} => objects["video"] = p.film
  /\ p.at = "archived" => objects["receipt"] = p.film

Stands(p, objects, row) ==
  Backed(p, objects) /\ (p.at = "publish" => row.artifact # NoFilm)

\* The row names a film that is in the store with its receipt, and a completed
\* job has published it.
Shown(row, objects) ==
  /\ row.artifact # NoFilm => objects["receipt"] = row.artifact /\ objects["video"] = row.artifact
  /\ row.state = "outputs_ready" => row.artifact # NoFilm

FilmsOK ==
  /\ \A w \in Workers : Stands(step[w], object, run)
  /\ \A c \in late : Backed(c, object)
  /\ Shown(run, object)
  /\ job.status = "completed" => run.artifact # NoFilm /\ object["document"] = run.artifact

IInv == Typed /\ FilmsOK

\* What every step does: objects are written once and so is the film of the row;
\* who moves has his place's reasons, and what goes on in a thread had them.
StepOK ==
  /\ Typed'
  /\ \A o \in Uploads : object[o] # NoFilm => object'[o] = object[o]
  /\ run.artifact # NoFilm => run'.artifact = run.artifact
  /\ Shown(run', object')
  /\ \A w \in Workers : step'[w] = step[w] \/ Stands(step'[w], object', run')
  /\ \A c \in late' : c \in late \/ \E w \in Workers : c.at = step[w].at /\ c.film = step[w].film
  /\ \/ NotCompleted /\ object'["document"] = object["document"]
     \/ run'.artifact # NoFilm /\ object'["document"] = run'.artifact

LEMMA StepKeeps == ASSUME IInv, StepOK PROVE IInv'
<1> USE DEF IInv, StepOK
<1>1. \A p : Backed(p, object) => Backed(p, object')
  BY DEF Backed, Uploads
<1>2. \A w \in Workers : Stands(step'[w], object', run')
  BY <1>1 DEF FilmsOK, Stands
<1>3. \A c \in late' : Backed(c, object')
  <2> SUFFICES ASSUME NEW c \in late', c \notin late PROVE Backed(c, object')
    BY <1>1 DEF FilmsOK
  <2>1. PICK w \in Workers : c.at = step[w].at /\ c.film = step[w].film
    OBVIOUS
  <2>2. Backed(step[w], object')
    BY <1>1 DEF FilmsOK, Stands
  <2> QED
    BY <2>1, <2>2 DEF Backed
<1>4. job'.status = "completed" => run'.artifact # NoFilm /\ object'["document"] = run'.artifact
  BY DEF FilmsOK, NotCompleted
<1> QED
  BY <1>2, <1>3, <1>4 DEF FilmsOK

-----------------------------------------------------------------------------
(* The steps, by what they touch.                                          *)

LEMMA ThreadTyped ==
  ASSUME Typed, NEW w \in Workers
  PROVE  /\ InThread(w) \subseteq Calls
         /\ \A c \in InThread(w) : c.at = step[w].at /\ c.film = step[w].film
BY DEF Typed, InThread, Calls, Places

LEMMA SettledShown ==
  ASSUME IInv, SettledOK, UNCHANGED object
  PROVE  Shown(run', object') /\ (run.artifact # NoFilm => run'.artifact = run.artifact)
BY DEF IInv, FilmsOK, Shown, SettledOK

\* A process moves to where nothing is claimed, its call in a thread may go on,
\* and the row is settled.
Claims == Uploads \cup {"archived", "publish"}
LEMMA StepAway ==
  ASSUME IInv, NEW w \in Workers, NEW p \in Places, p.at \notin Claims,
         step' = [step EXCEPT ![w] = p], late' \subseteq late \cup InThread(w),
         SettledOK, JobTyped, NotCompleted, UNCHANGED object
  PROVE  IInv'
<1>1. Typed'
  BY ThreadTyped DEF IInv, Typed, SettledOK, JobTyped
<1>2. \A v \in Workers : step'[v] = step[v] \/ Stands(step'[v], object', run')
  BY DEF IInv, Typed, Stands, Backed, Claims, Uploads
<1>3. \A c \in late' : c \in late \/ \E v \in Workers : c.at = step[v].at /\ c.film = step[v].film
  BY ThreadTyped DEF IInv
<1> QED
  BY <1>1, <1>2, <1>3, SettledShown, StepKeeps DEF StepOK

\* A process moves on, and nothing else happens.
LEMMA StepOn ==
  ASSUME IInv, NEW w \in Workers, NEW at \in Steps, NEW film \in Film, Goto(w, at, film),
         Stands([at |-> at, film |-> film], object, run)
  PROVE  IInv'
<1>1. [at |-> at, film |-> film] \in Places
  BY DEF Places
<1>2. Typed'
  BY <1>1 DEF IInv, Typed, Goto
<1>3. \A v \in Workers : step'[v] = step[v] \/ Stands(step'[v], object', run')
  BY DEF IInv, Typed, Goto
<1>4. Shown(run', object') /\ NotCompleted
  BY DEF IInv, FilmsOK, Goto, NotCompleted
<1> QED
  BY <1>2, <1>3, <1>4, StepKeeps DEF StepOK, Goto

\* Where a process goes that gives up what it had in hand.
LEMMA LeavesHands ==
  ASSUME IInv, NEW w \in Workers,
         NEW at \in {"reserve", "begin", "fail", "wait", "leave"}, Goto(w, at, NoFilm)
  PROVE  IInv'
BY StepOn DEF Stands, Backed, Steps, StoreCalls, Uploads, Film

LEMMA EndsKeeps ==
  ASSUME IInv, NEW w \in Workers, NEW s \in {"waiting_review", "failed", "cancelled"}, Ends(w, s)
  PROVE  IInv'
<1>1. Idle \in Places /\ Idle.at \notin Claims
  BY DEF Idle, Places, Steps, Film, Claims, Uploads
<1>2. step' = [step EXCEPT ![w] = Idle] /\ late' \subseteq late \cup InThread(w) /\ UNCHANGED object
  BY DEF Ends
<1> QED
  BY <1>1, <1>2, EndedJob, StepAway DEF IInv

-----------------------------------------------------------------------------
(* One lemma for each action that does more than move on.                   *)

LEMMA OutsideKeeps == ASSUME IInv, Outside PROVE IInv'
<1>1. SettledOK /\ JobTyped /\ NotCompleted
  BY SettledRow, OutsideJob DEF Outside, IInv
<1>2. Typed'
  BY <1>1 DEF Outside, IInv, Typed, SettledOK, JobTyped
<1>3. UNCHANGED <<object, step, late>>
  BY DEF Outside
<1> QED
  BY <1>1, <1>2, <1>3, SettledShown, StepKeeps DEF StepOK

LEMMA ClaimKeeps == ASSUME IInv, NEW w \in Workers, Claim(w) PROVE IInv'
<1>1. JobTyped /\ NotCompleted
  BY ClaimedJob DEF Claim, IInv
<1>2. [Idle EXCEPT !.at = "load"] \in Places /\ [Idle EXCEPT !.at = "load"].at \notin Claims
  BY DEF Idle, Places, Steps, Film, Claims, Uploads
<1>3. /\ step' = [step EXCEPT ![w] = [Idle EXCEPT !.at = "load"]]
      /\ late' \subseteq late \cup InThread(w) /\ UNCHANGED <<run, object>>
  BY DEF Claim
<1>4. SettledOK
  BY <1>3 DEF SettledOK, IInv, Typed
<1> QED
  BY <1>1, <1>2, <1>3, <1>4, StepAway

\* A crash, and the handler that leaves its job to others.
LEMMA GoneKeeps ==
  ASSUME IInv, NEW w \in Workers, Gone(w), late' \subseteq late \cup InThread(w),
         UNCHANGED <<run, object>>
  PROVE  IInv'
<1>1. JobTyped /\ NotCompleted
  BY LeftJob DEF Gone, IInv
<1>2. Idle \in Places /\ Idle.at \notin Claims
  BY DEF Idle, Places, Steps, Film, Claims, Uploads
<1>3. SettledOK
  BY DEF SettledOK, IInv, Typed
<1> QED
  BY <1>1, <1>2, <1>3, StepAway DEF Gone

LEMMA InterruptKeeps == ASSUME IInv, NEW w \in Workers, Interrupt(w) PROVE IInv'
<1>1. PICK at \in {"leave", "stop_render", "cancel"} :
        step' = [step EXCEPT ![w] = [film |-> NoFilm, at |-> at]]
  BY DEF Interrupt, IInv, Typed
<1>2. [film |-> NoFilm, at |-> at] \in Places /\ [film |-> NoFilm, at |-> at].at \notin Claims
  BY DEF Places, Steps, StoreCalls, Film, Claims, Uploads
<1>3. late' \subseteq late \cup InThread(w) /\ UNCHANGED <<job, hand, run, object>>
  BY DEF Interrupt
<1>4. SettledOK /\ JobTyped /\ NotCompleted
  BY <1>3 DEF SettledOK, JobTyped, NotCompleted, IInv, Typed
<1> QED
  BY <1>1, <1>2, <1>3, <1>4, StepAway

\* A call commits: only a confirmation, which has its film in the store, names one.
LEMMA CommitShown ==
  ASSUME IInv, NEW at \in StoreCalls, NEW film \in Film, NEW f \in Nat,
         NEW row \in Stored(at, film, f), Backed([at |-> at, film |-> film], object)
  PROVE  MovedBy(at, film, row) /\ Shown(row, object)
<1>1. MovedBy(at, film, row)
  BY StoredRows DEF IInv
<1> QED
  BY <1>1 DEF IInv, FilmsOK, Shown, Backed, MovedBy, Confirms

LEMMA SameFilm ==
  ASSUME Typed, NEW w \in Workers, NEW x
  PROVE  [step EXCEPT ![w].at = x] = [step EXCEPT ![w] = [at |-> x, film |-> step[w].film]]
<1>1. step[w] \in Places
  BY DEF Typed
<1>2. [step[w] EXCEPT !.at = x] = [at |-> x, film |-> step[w].film]
  BY <1>1 DEF Places
<1> QED
  BY <1>2

LEMMA CallKeeps == ASSUME IInv, NEW w \in Workers, Call(w) PROVE IInv'
<1> DEFINE at == step[w].at
           film == step[w].film
<1>1. /\ at \in StoreCalls /\ film \in Film /\ hand[w] \in Nat
      /\ step[w] = [at |-> at, film |-> film] /\ Backed([at |-> at, film |-> film], object)
  BY DEF Call, IInv, FilmsOK, Stands, Typed, Places
<1>2. CASE /\ \E row \in Stored(at, film, hand[w]) :
                run' = row /\ step' = [step EXCEPT ![w].at = After(at, row)]
           /\ UNCHANGED <<job, hand, object, late>>
  <2>1. PICK row \in Stored(at, film, hand[w]) :
               run' = row /\ step' = [step EXCEPT ![w].at = After(at, row)]
    BY <1>2
  <2>2. MovedBy(at, film, row) /\ Shown(row, object)
    BY <1>1, CommitShown
  <2> DEFINE to == [at |-> After(at, row), film |-> film]
  <2>3. step' = [step EXCEPT ![w] = to]
    BY <2>1, SameFilm DEF IInv
  <2>4. After(at, row) \in Steps \ (Uploads \cup {"archived"})
    BY <1>1 DEF After, StoreCalls, Steps, Uploads
  <2>5. After(at, row) = "publish" => row.artifact # NoFilm
    <3>1. CASE at = "archived"
      BY <1>1, <2>2, <3>1 DEF Backed, MovedBy
    <3>2. CASE at = "get"
      BY <2>2, <3>2 DEF After, Shown
    <3> QED
      BY <1>1, <3>1, <3>2 DEF After, StoreCalls
  <2>6. to \in Places /\ Stands(to, object', run')
    BY <1>1, <1>2, <2>1, <2>4, <2>5 DEF Places, Stands, Backed, Uploads
  <2>7. Typed'
    BY <1>2, <2>1, <2>2, <2>3, <2>6 DEF IInv, Typed, MovedBy
  <2>8. \A v \in Workers : step'[v] = step[v] \/ Stands(step'[v], object', run')
    BY <2>3, <2>6 DEF IInv, Typed
  <2>9. NotCompleted /\ Shown(run', object') /\ (run.artifact # NoFilm => run'.artifact = run.artifact)
    BY <1>2, <2>1, <2>2 DEF NotCompleted, MovedBy
  <2> QED
    BY <1>2, <2>7, <2>8, <2>9, StepKeeps DEF StepOK
<1>3. CASE Goto(w, "fail", NoFilm) \/ Goto(w, "leave", NoFilm)
  BY <1>3, LeavesHands
<1>4. CASE /\ step' = [step EXCEPT ![w].at = IF at = "stop_render" THEN "cancel" ELSE "wait"]
           /\ late' = late \cup InThread(w)
           /\ UNCHANGED <<job, hand, run, object>>
  <2>1. PICK to \in {"cancel", "wait"} : step' = [step EXCEPT ![w] = [at |-> to, film |-> film]]
    BY <1>4, SameFilm DEF IInv
  <2>2. [at |-> to, film |-> film] \in Places /\ [at |-> to, film |-> film].at \notin Claims
    BY <1>1 DEF Places, Steps, Claims, Uploads
  <2>3. SettledOK /\ JobTyped /\ NotCompleted
    BY <1>4 DEF SettledOK, JobTyped, NotCompleted, IInv, Typed
  <2> QED
    BY <1>4, <2>1, <2>2, <2>3, StepAway
<1> QED
  BY <1>2, <1>3, <1>4 DEF Call

LEMMA LateKeeps == ASSUME IInv, LateTakesEffect PROVE IInv'
<1>1. PICK c \in late :
        /\ late' = late \ {c}
        /\ IF c.at \in Uploads
           THEN /\ object' = IF MayPut(c.at, c.film) THEN [object EXCEPT ![c.at] = c.film] ELSE object
                /\ UNCHANGED run
           ELSE /\ UNCHANGED object
                /\ IF J!Good(c.fence) /\ Stored(c.at, c.film, c.fence) # {}
                   THEN run' \in Stored(c.at, c.film, c.fence) ELSE UNCHANGED run
        /\ UNCHANGED <<job, hand, step>>
  BY DEF LateTakesEffect
<1>2. c.at \in StoreCalls \cup Uploads /\ c.film \in Film /\ c.fence \in Nat /\ Backed(c, object)
  BY DEF IInv, Typed, FilmsOK, Calls
<1>3. NotCompleted /\ late' \subseteq late
  BY <1>1 DEF NotCompleted
<1>4. CASE c.at \in Uploads
  <2>1. object' \in [Uploads \cup {"document"} -> Film]
    BY <1>1, <1>2, <1>4 DEF IInv, Typed
  <2>2. \A o \in Uploads : object[o] # NoFilm => object'[o] = object[o]
    BY <1>1, <1>4, <2>1 DEF MayPut, IInv, Typed
  <2>3. object'["document"] = object["document"]
    BY <1>1, <1>4 DEF Uploads, IInv, Typed
  <2>4. Typed' /\ Shown(run', object')
    BY <1>1, <1>4, <2>1, <2>2 DEF IInv, Typed, FilmsOK, Shown, Uploads
  <2> QED
    BY <1>1, <1>3, <1>4, <2>2, <2>3, <2>4, StepKeeps DEF StepOK
<1>5. CASE c.at \notin Uploads /\ run' \in Stored(c.at, c.film, c.fence)
  <2>1. Backed([at |-> c.at, film |-> c.film], object)
    BY <1>2 DEF Backed
  <2>2. MovedBy(c.at, c.film, run') /\ Shown(run', object)
    BY <1>2, <1>5, <2>1, CommitShown
  <2>3. Typed'
    BY <1>1, <1>5, <2>2 DEF IInv, Typed, MovedBy
  <2> QED
    BY <1>1, <1>3, <1>5, <2>2, <2>3, StepKeeps DEF StepOK, MovedBy
<1>6. CASE c.at \notin Uploads /\ UNCHANGED run
  <2>1. Typed' /\ Shown(run', object')
    BY <1>1, <1>6 DEF IInv, Typed, FilmsOK
  <2> QED
    BY <1>1, <1>3, <1>6, <2>1, StepKeeps DEF StepOK
<1> QED
  BY <1>1, <1>4, <1>5, <1>6

LEMMA UploadKeeps == ASSUME IInv, NEW w \in Workers, Upload(w) PROVE IInv'
<1> DEFINE o == step[w].at
           film == step[w].film
<1>1. /\ o \in Uploads /\ film \in Film /\ film # NoFilm
      /\ step[w] = [at |-> o, film |-> film] /\ Backed(step[w], object)
  BY DEF Upload, IInv, FilmsOK, Stands, Backed, Typed, Places
<1>2. CASE /\ MayPut(o, film)
           /\ object' = [object EXCEPT ![o] = film]
           /\ step' = [step EXCEPT ![w].at =
                IF o = "receipt" THEN "archived" ELSE IF MayRecord(w) THEN "receipt" ELSE "leave"]
           /\ UNCHANGED <<job, hand, run, late>>
  <2>1. PICK to \in {"archived", "receipt", "leave"} :
               /\ step' = [step EXCEPT ![w] = [at |-> to, film |-> film]]
               /\ to = "archived" => o = "receipt"
               /\ to = "receipt" => o = "video"
    BY <1>1, <1>2, SameFilm DEF IInv, Uploads
  <2>2. object' \in [Uploads \cup {"document"} -> Film]
    BY <1>1, <1>2 DEF IInv, Typed
  <2>3. \A x \in Uploads : object[x] # NoFilm => object'[x] = object[x]
    BY <1>1, <1>2 DEF MayPut, IInv, Typed
  <2>4. object'["document"] = object["document"] /\ object'[o] = film
    BY <1>1, <1>2 DEF Uploads, IInv, Typed
  <2>5. o = "receipt" => object'["video"] = film
    BY <1>1, <2>3 DEF Backed, Uploads
  <2>6. [at |-> to, film |-> film] \in Places /\ Stands([at |-> to, film |-> film], object', run')
    BY <1>1, <2>1, <2>4, <2>5 DEF Places, Steps, StoreCalls, Uploads, Stands, Backed
  <2>7. Typed' /\ Shown(run', object')
    BY <1>2, <2>1, <2>2, <2>3, <2>6 DEF IInv, Typed, FilmsOK, Shown, Uploads
  <2>8. \A v \in Workers : step'[v] = step[v] \/ Stands(step'[v], object', run')
    BY <2>1, <2>6 DEF IInv, Typed
  <2>9. NotCompleted
    BY <1>2 DEF NotCompleted
  <2> QED
    BY <1>2, <2>3, <2>4, <2>7, <2>8, <2>9, StepKeeps DEF StepOK
<1>3. CASE Goto(w, "fail", NoFilm) \/ Goto(w, "wait", NoFilm)
  BY <1>3, LeavesHands
<1> QED
  BY <1>2, <1>3 DEF Upload

\* The receipt names a film that is there, or nothing is confirmed from it.
LEMMA LookKeeps == ASSUME IInv, NEW w \in Workers, Look(w) PROVE IInv'
<1>1. CASE \E at \in {"begin", "fail", "wait"} : Goto(w, at, NoFilm)
  BY <1>1, LeavesHands
<1>2. CASE /\ object["receipt"] # NoFilm /\ object["video"] = object["receipt"]
           /\ Goto(w, "archived", object["receipt"])
  <2>1. "archived" \in Steps /\ object["receipt"] \in Film
    BY DEF Steps, StoreCalls, Uploads, IInv, Typed
  <2>2. Stands([at |-> "archived", film |-> object["receipt"]], object, run)
    BY <1>2 DEF Stands, Backed
  <2> QED
    BY <1>2, <2>1, <2>2, StepOn
<1> QED
  BY <1>1, <1>2 DEF Look

LEMMA RenderKeeps == ASSUME NoFilm \notin Films, IInv, NEW w \in Workers, Render(w) PROVE IInv'
<1>1. ASSUME NEW film \in Films, Goto(w, "video", film) PROVE IInv'
  <2>1. "video" \in Steps /\ film \in Film
    BY DEF Steps, Uploads, Film
  <2>2. Stands([at |-> "video", film |-> film], object, run)
    BY DEF Stands, Backed
  <2> QED
    BY <1>1, <2>1, <2>2, StepOn
<1>2. CASE \E at \in {"wait", "fail"} : Goto(w, at, NoFilm)
  BY <1>2, LeavesHands
<1> QED
  BY <1>1, <1>2 DEF Render

LEMMA PublishKeeps == ASSUME IInv, NEW w \in Workers, Publish(w) PROVE IInv'
<1>1. run.artifact # NoFilm /\ run.artifact \in Film
  BY DEF Publish, At, IInv, FilmsOK, Stands, Typed, Rows
<1>2. CASE /\ object' = [object EXCEPT !["document"] = run.artifact]
           /\ IF MayRecord(w) THEN J!Finish(w, "completed") /\ step' = [step EXCEPT ![w] = Idle]
              ELSE step' = [step EXCEPT ![w].at = "leave"] /\ UNCHANGED <<job, hand>>
           /\ UNCHANGED <<run, late>>
  <2>1. JobTyped
    BY <1>2, FinishedJob DEF JobTyped, IInv, Typed, J!Ends
  <2>2. PICK p \in {Idle, [step[w] EXCEPT !.at = "leave"]} : step' = [step EXCEPT ![w] = p]
    BY <1>2
  <2>3. p \in Places /\ p.at \notin Claims
    BY DEF Idle, IInv, Typed, Places, Steps, Film, Claims, Uploads
  <2>4. Stands(p, object', run')
    BY <2>3 DEF Stands, Backed, Claims, Uploads
  <2>5. object' \in [Uploads \cup {"document"} -> Film] /\ object'["document"] = run.artifact
        /\ \A o \in Uploads : object'[o] = object[o]
    BY <1>1, <1>2 DEF IInv, Typed, Uploads
  <2>6. Typed' /\ Shown(run', object')
    BY <1>2, <2>1, <2>2, <2>3, <2>5 DEF IInv, Typed, JobTyped, FilmsOK, Shown, Uploads
  <2>7. \A v \in Workers : step'[v] = step[v] \/ Stands(step'[v], object', run')
    BY <2>2, <2>4 DEF IInv, Typed
  <2> QED
    BY <1>1, <1>2, <2>5, <2>6, <2>7, StepKeeps DEF StepOK
<1>3. CASE Goto(w, "wait", NoFilm)
  BY <1>3, LeavesHands
<1> QED
  BY <1>2, <1>3 DEF Publish

LEMMA HandlerKeeps == ASSUME NoFilm \notin Films, IInv, NEW w \in Workers, Handler(w) PROVE IInv'
<1>1. CASE Load(w)
  BY <1>1, LeavesHands, EndsKeeps DEF Load
<1>2. CASE Call(w) \/ Look(w) \/ Render(w) \/ Upload(w) \/ Publish(w)
  BY <1>2, CallKeeps, LookKeeps, RenderKeeps, UploadKeeps, PublishKeeps
<1>3. CASE Return(w)
  <2>1. CASE \E s \in {"waiting_review", "failed", "cancelled"} : Ends(w, s)
    BY <2>1, EndsKeeps
  <2>2. CASE Gone(w) /\ UNCHANGED <<run, object, late>>
    BY <2>2, GoneKeeps
  <2> QED
    BY <1>3, <2>1, <2>2 DEF Return
<1> QED
  BY <1>1, <1>2, <1>3 DEF Handler

-----------------------------------------------------------------------------
\* Compositions: the shapes of their rows, and the film each step has behind it
\* (workflows/media/compose.py).
THEOREM FilmsBacked == ASSUME NoFilm \notin Films PROVE Spec => []IInv
<1>1. Init => IInv
  <2> SUFFICES ASSUME Init PROVE IInv
    OBVIOUS
  <2> USE DEF Init, J!Init, J!NoRow, Idle
  <2>1. Typed
    BY DEF Typed, JobRows, Rows, RunStates, Film, Places, Steps
  <2>2. FilmsOK
    BY DEF FilmsOK, Stands, Backed, Shown, Uploads
  <2> QED
    BY <2>1, <2>2 DEF IInv
<1>2. IInv /\ [Next]_vars => IInv'
  <2> SUFFICES ASSUME IInv, [Next]_vars PROVE IInv'
    OBVIOUS
  <2>1. CASE Outside \/ LateTakesEffect
    BY <2>1, OutsideKeeps, LateKeeps
  <2>2. CASE \E w \in Workers : Claim(w) \/ Handler(w) \/ Interrupt(w)
    BY <2>2, ClaimKeeps, HandlerKeeps, InterruptKeeps
  <2>3. CASE \E w \in Workers : Crash(w)
    BY <2>3, GoneKeeps DEF Crash
  <2>4. CASE UNCHANGED vars
    BY <2>4 DEF vars, renderVars, IInv, Typed, FilmsOK
  <2> QED
    BY <2>1, <2>2, <2>3, <2>4 DEF Next
<1> QED
  BY <1>1, <1>2, PTL DEF Spec

\* Whichever of two renderers got there first, the row, the receipt and the
\* objects agree on one film, and a completed job publishes it.
THEOREM OneFilmOnly == ASSUME NoFilm \notin Films PROVE Spec => []OneFilm
<1>1. IInv => OneFilm
  BY DEF IInv, FilmsOK, Shown, OneFilm
<1> QED
  BY <1>1, FilmsBacked, PTL

-----------------------------------------------------------------------------
(* What is cancelled stays so.                                             *)

NobodyBegins == \A w \in Workers : step'[w].at = "render" => step[w].at = "render"
StaysCancelled == run'.state = "cancelled"

LEMMA MovesElsewhere ==
  ASSUME Typed, NEW w \in Workers, NEW at \in Steps \ {"render"}, NEW film \in Film,
         step' = [step EXCEPT ![w] = [at |-> at, film |-> film]]
  PROVE  NobodyBegins
BY DEF NobodyBegins, Typed

LEMMA MovesAt ==
  ASSUME Typed, NEW w \in Workers, NEW at \in Steps \ {"render"}, step' = [step EXCEPT ![w].at = at]
  PROVE  NobodyBegins
<1>1. step[w].film \in Film
  BY DEF Typed, Places
<1>2. step' = [step EXCEPT ![w] = [at |-> at, film |-> step[w].film]]
  BY SameFilm
<1> QED
  BY <1>1, <1>2 DEF NobodyBegins, Typed

LEMMA MovesIdle ==
  ASSUME Typed, NEW w \in Workers, step' = [step EXCEPT ![w] = Idle]
  PROVE  NobodyBegins
BY DEF NobodyBegins, Typed, Idle

LEMMA GotoElsewhere ==
  ASSUME Typed, run.state = "cancelled", NEW w \in Workers,
         NEW at \in Steps \ {"render"}, NEW film \in Film, Goto(w, at, film)
  PROVE  NobodyBegins /\ StaysCancelled
BY MovesElsewhere DEF Goto, StaysCancelled

LEMMA EndsStopped ==
  ASSUME Typed, run.state = "cancelled", NEW w \in Workers,
         NEW s \in {"waiting_review", "failed", "cancelled"}, Ends(w, s)
  PROVE  NobodyBegins /\ StaysCancelled
<1>1. NobodyBegins
  BY MovesIdle DEF Ends
<1>2. StaysCancelled
  BY EndedJob DEF StaysCancelled, SettledOK
<1> QED
  BY <1>1, <1>2

\* A begin, in its handler or late, is refused; a confirmation leaves the row.
LEMMA CallStopped ==
  ASSUME Typed, run.state = "cancelled", NEW w \in Workers, Call(w)
  PROVE  NobodyBegins /\ StaysCancelled
<1> DEFINE at == step[w].at
           film == step[w].film
<1>1. at \in StoreCalls /\ film \in Film /\ hand[w] \in Nat
  BY DEF Call, Typed, Places
<1>2. CASE \E row \in Stored(at, film, hand[w]) :
             run' = row /\ step' = [step EXCEPT ![w].at = After(at, row)]
  <2>1. PICK row \in Stored(at, film, hand[w]) :
               run' = row /\ step' = [step EXCEPT ![w].at = After(at, row)]
    BY <1>2
  <2>2. row.state = "cancelled" /\ at # "begin"
    BY <1>1, StoredRows DEF MovedBy
  <2>3. After(at, row) \in Steps \ {"render"}
    BY <1>1, <2>2 DEF After, StoreCalls, Steps
  <2>4. NobodyBegins
    BY <2>1, <2>3, MovesAt
  <2> QED
    BY <2>1, <2>2, <2>4 DEF StaysCancelled
<1>3. CASE Goto(w, "fail", NoFilm) \/ Goto(w, "leave", NoFilm)
  BY <1>3, GotoElsewhere DEF Steps, Film
<1>4. CASE /\ step' = [step EXCEPT ![w].at = IF at = "stop_render" THEN "cancel" ELSE "wait"]
           /\ UNCHANGED run
  <2>1. (IF at = "stop_render" THEN "cancel" ELSE "wait") \in Steps \ {"render"}
    BY DEF Steps
  <2> QED
    BY <1>4, <2>1, MovesAt DEF StaysCancelled
<1> QED
  BY <1>2, <1>3, <1>4 DEF Call

LEMMA HandlerStopped ==
  ASSUME Typed, run.state = "cancelled", NEW w \in Workers, Handler(w)
  PROVE  NobodyBegins /\ StaysCancelled
<1>1. CASE Load(w) \/ Look(w)
  <2>1. {"reserve", "begin", "archived", "fail", "wait"} \subseteq Steps \ {"render"}
    BY DEF Steps, StoreCalls
  <2>2. NoFilm \in Film /\ object["receipt"] \in Film
    BY DEF Film, Typed, Uploads
  <2>3. \A at \in {"reserve", "begin", "archived", "fail", "wait"}, film \in {NoFilm, object["receipt"]} :
          Goto(w, at, film) => NobodyBegins /\ StaysCancelled
    BY <2>1, <2>2, GotoElsewhere
  <2> QED
    BY <1>1, <2>3, EndsStopped DEF Load, Look
<1>2. CASE Render(w)
  BY <1>2, GotoElsewhere DEF Render, Steps, Uploads, Film
<1>3. CASE Upload(w)
  <2>1. CASE /\ step' = [step EXCEPT ![w].at = IF step[w].at = "receipt" THEN "archived"
                                               ELSE IF MayRecord(w) THEN "receipt" ELSE "leave"]
             /\ UNCHANGED run
    <3>1. {"archived", "receipt", "leave"} \subseteq Steps \ {"render"}
      BY DEF Steps, StoreCalls, Uploads
    <3>2. PICK at \in {"archived", "receipt", "leave"} : step' = [step EXCEPT ![w].at = at]
      BY <2>1
    <3> QED
      BY <2>1, <3>1, <3>2, MovesAt DEF StaysCancelled
  <2>2. CASE Goto(w, "fail", NoFilm) \/ Goto(w, "wait", NoFilm)
    BY <2>2, GotoElsewhere DEF Steps, Film
  <2> QED
    BY <1>3, <2>1, <2>2 DEF Upload
<1>4. CASE Publish(w)
  <2>1. CASE step' = [step EXCEPT ![w] = Idle] /\ UNCHANGED run
    BY <2>1, MovesIdle DEF StaysCancelled
  <2>2. CASE step' = [step EXCEPT ![w].at = "leave"] /\ UNCHANGED run
    <3>1. "leave" \in Steps \ {"render"}
      BY DEF Steps
    <3> QED
      BY <2>2, <3>1, MovesAt DEF StaysCancelled
  <2>3. CASE Goto(w, "wait", NoFilm)
    BY <2>3, GotoElsewhere DEF Steps, Film
  <2> QED
    BY <1>4, <2>1, <2>2, <2>3 DEF Publish
<1>5. CASE Return(w)
  <2>1. CASE Gone(w) /\ UNCHANGED run
    BY <2>1, MovesIdle DEF Gone, StaysCancelled
  <2> QED
    BY <1>5, <2>1, EndsStopped DEF Return
<1>6. CASE Call(w)
  BY <1>6, CallStopped
<1> QED
  BY <1>1, <1>2, <1>3, <1>4, <1>5, <1>6 DEF Handler

LEMMA OthersStopped ==
  ASSUME Typed, run.state = "cancelled",
         Outside \/ LateTakesEffect \/ \E w \in Workers : Claim(w) \/ Interrupt(w) \/ Crash(w)
  PROVE  NobodyBegins /\ StaysCancelled
<1>1. CASE Outside
  BY <1>1, SettledRow DEF Outside, NobodyBegins, StaysCancelled, SettledOK
<1>2. CASE LateTakesEffect
  <2>1. PICK c \in late : \/ UNCHANGED run
                          \/ c.at \notin Uploads /\ run' \in Stored(c.at, c.film, c.fence)
    BY <1>2 DEF LateTakesEffect
  <2>2. c.at \in StoreCalls \cup Uploads /\ c.film \in Film /\ c.fence \in Nat
    BY DEF Typed, Calls
  <2>3. StaysCancelled
    BY <2>1, <2>2, StoredRows DEF MovedBy, StaysCancelled
  <2> QED
    BY <1>2, <2>3 DEF LateTakesEffect, NobodyBegins
<1>3. ASSUME NEW w \in Workers, Claim(w) \/ Crash(w) PROVE NobodyBegins /\ StaysCancelled
  BY <1>3 DEF Claim, Crash, Gone, Idle, NobodyBegins, StaysCancelled, Typed
<1>4. ASSUME NEW w \in Workers, Interrupt(w) PROVE NobodyBegins /\ StaysCancelled
  <2>1. PICK at \in {"leave", "stop_render", "cancel"} :
          step' = [step EXCEPT ![w] = [film |-> NoFilm, at |-> at]]
    BY <1>4 DEF Interrupt, Typed
  <2> QED
    BY <1>4, <2>1 DEF Interrupt, NobodyBegins, StaysCancelled, Typed
<1> QED
  BY <1>1, <1>2, <1>3, <1>4

\* A row that says cancelled never says anything else, and no process begins to
\* render after it.
THEOREM CancelledStays == ASSUME NoFilm \notin Films PROVE Spec => StoppedIsStopped
<1>1. IInv /\ [Next]_vars => [run.state = "cancelled" => StaysCancelled /\ NobodyBegins]_vars
  BY HandlerStopped, OthersStopped DEF IInv, Next
<1> QED
  BY <1>1, FilmsBacked, PTL DEF Spec, StoppedIsStopped, StaysCancelled, NobodyBegins
-----------------------------------------------------------------------------
(* The timeline.                                                           *)

\* A rounded number is within a half.
LEMMA RoundNear ==
  ASSUME NEW n \in Nat
  PROVE  /\ Round(n, 1000) \in Nat
         /\ 1000 * Round(n, 1000) - n =< 500 /\ n - 1000 * Round(n, 1000) =< 500
<1> DEFINE q == n \div 1000  r == n % 1000
<1>1. q \in Nat /\ r \in 0 .. 999 /\ n = 1000 * q + r
  OBVIOUS
<1>2. Round(n, 1000) = IF 2 * r < 1000 \/ (2 * r = 1000 /\ q % 2 = 0) THEN q ELSE q + 1
  BY DEF Round
<1> HIDE DEF q, r
<1> QED
  BY <1>1, <1>2

LEMMA RoundMonotone ==
  ASSUME NEW m \in Nat, NEW n \in Nat, m =< n
  PROVE  Round(m, 1000) =< Round(n, 1000)
<1> DEFINE a == Round(m, 1000)  b == Round(n, 1000)
<1>1. a \in Nat /\ 1000 * a - m =< 500 /\ m - 1000 * a =< 500
  BY RoundNear
<1>2. b \in Nat /\ 1000 * b - n =< 500 /\ n - 1000 * b =< 500
  BY RoundNear
<1>3. m = n => a = b
  OBVIOUS
<1> HIDE DEF a, b
<1>4. a =< b
  BY <1>1, <1>2, <1>3
<1> QED
  BY <1>4 DEF a, b

\* Frames follow time.
LEMMA FramesNear ==
  ASSUME NEW ms \in Nat, fps \in 1 .. 60
  PROVE  /\ ms * fps \in Nat /\ FrameAt(ms) \in Nat
         /\ 1000 * FrameAt(ms) - ms * fps =< 500 /\ ms * fps - 1000 * FrameAt(ms) =< 500
<1>1. ms * fps \in Nat
  OBVIOUS
<1> QED
  BY <1>1, RoundNear DEF FrameAt

LEMMA FramesFollow ==
  ASSUME NEW a \in Nat, NEW b \in Nat, a =< b, fps \in 1 .. 60
  PROVE  FrameAt(a) =< FrameAt(b)
<1>1. a * fps \in Nat /\ b * fps \in Nat
  OBVIOUS
<1>2. a * fps =< b * fps
  OBVIOUS
<1> QED
  BY <1>1, <1>2, RoundMonotone DEF FrameAt

\* Whole milliseconds are the least that hold a length.
LEMMA MsCovers ==
  ASSUME NEW n \in Nat
  PROVE  /\ Ms(n) \in Nat /\ n =< 1000 * Ms(n) /\ 1000 * Ms(n) =< n + 999
         /\ n # 0 => Ms(n) > 0
  BY DEF Ms

\* The shots follow one another from the start to the cursor.
Continuous ==
  /\ fps \in 1 .. 60 /\ cursor \in 0 .. MaxDuration /\ shots \in Seq(Shot)
  /\ shots = <<>> => cursor = 0
  /\ \A i \in DOMAIN shots : shots[i].start + shots[i].duration =< cursor
  /\ shots # <<>> =>
       /\ shots[1].start = 0
       /\ \A i \in 2 .. Len(shots) : shots[i].start = shots[i - 1].start + shots[i - 1].duration
       /\ shots[Len(shots)].start + shots[Len(shots)].duration = cursor
\* A video lasts as long as its shot.
Covered == \A i \in DOMAIN shots :
  shots[i].source # 0 => shots[i].duration =< Ms(shots[i].source)
\* What a sound is, and that it does not outlast the shot it begins with.
Heard(t) ==
  /\ t \in Track /\ t.duration > 0 /\ t.duration =< Ms(t.source)
  /\ t.start + t.duration =< cursor /\ t.fadeIn + t.fadeOut =< t.duration
  /\ t.role # "music" =>
       \E i \in DOMAIN shots : t.start = shots[i].start /\ t.duration =< shots[i].duration
\* How far the renderer is.
Drawn == IF cut =< Len(shots) THEN FrameAt(shots[cut].start) ELSE TotalFrames
InPhase ==
  /\ phase \in Phases \ {"failed"} /\ drawn \in Nat
  /\ phase \in {"effects", "assembled", "rendered"} => shots # <<>>
  /\ phase \in {"shots", "effects"} => cut = 1 /\ drawn = 0
  /\ phase = "assembled" => cut \in 1 .. Len(shots) + 1 /\ drawn = Drawn
  /\ phase = "rendered" => drawn = TotalFrames

InStep == Continuous /\ Covered /\ (\A t \in tracks : Heard(t)) /\ InPhase

\* Every shot is inside the film.
LEMMA LimitIsNumber == MaxDuration \in Nat
  BY SMT DEF MaxDuration

LEMMA ShotInside ==
  ASSUME Continuous, NEW i \in DOMAIN shots
  PROVE  /\ shots[i] \in Shot /\ shots[i].start + shots[i].duration =< cursor
         /\ shots # <<>> /\ cursor \in 1 .. MaxDuration
<1>1. shots[i] \in Shot /\ shots # <<>>
  BY DEF Continuous
<1>2. shots[i].start \in Nat /\ shots[i].duration \in Nat \ {0}
  BY <1>1 DEF Shot
<1> QED
  BY <1>1, <1>2, LimitIsNumber DEF Continuous

LEMMA NoneLong == ASSUME NEW S, NEW s \in Seq(S), s # <<>> PROVE Len(s) \in Nat \ {0}
  BY EmptySeq

LEMMA CutInitOK == ASSUME TimelineAssumption, CutInit PROVE InStep
<1>1. fps \in 1 .. 60
  BY DEF TimelineAssumption, CutInit
<1> QED
  BY <1>1, LimitIsNumber DEF CutInit, InStep, Continuous, Covered, InPhase, Phases

\* What a new shot leaves as it was.
LEMMA AddShotKeeps ==
  ASSUME TimelineAssumption, InStep, AddShot
  PROVE  InStep'
<1>1. PICK planned \in Planned, narration \in Narrations, visual \in Visuals :
        LET d == Duration(planned, narration)
        IN \/ /\ visual = 0 \/ Ms(visual) >= d
              /\ cursor + d =< MaxDuration
              /\ shots' = Append(shots, [start |-> cursor, duration |-> d, source |-> visual])
              /\ tracks' = tracks \cup Sound("narration", cursor, Ms(narration), narration, 0, 0)
              /\ cursor' = cursor + d
              /\ UNCHANGED phase
           \/ /\ \/ visual # 0 /\ Ms(visual) < d
                 \/ cursor + d > MaxDuration
                 \/ narration # 0
              /\ phase' = "review" /\ UNCHANGED <<shots, tracks, cursor>>
  BY DEF AddShot
<1>2. phase = "shots" /\ UNCHANGED <<fps, cut, drawn>>
  BY DEF AddShot
<1>3. PICK d : d = Duration(planned, narration)
  OBVIOUS
<1>4. /\ planned \in Nat \ {0} /\ narration \in Nat /\ visual \in Nat
      /\ Ms(narration) \in Nat /\ (narration # 0 => Ms(narration) > 0)
  BY MsCovers DEF TimelineAssumption
<1>5. d \in Nat \ {0} /\ Ms(narration) =< d
  BY <1>3, <1>4 DEF Duration, Most
<1>6. CASE phase' = "review" /\ UNCHANGED <<shots, tracks, cursor>>
  BY <1>2, <1>6 DEF InStep, Continuous, Covered, Heard, InPhase, Phases
<1>7. CASE /\ visual = 0 \/ Ms(visual) >= d
           /\ cursor + d =< MaxDuration
           /\ shots' = Append(shots, [start |-> cursor, duration |-> d, source |-> visual])
           /\ tracks' = tracks \cup Sound("narration", cursor, Ms(narration), narration, 0, 0)
           /\ cursor' = cursor + d
           /\ UNCHANGED phase
  <2>1. PICK n \in Nat : n = Len(shots)
    BY DEF InStep, Continuous
  <2>2. PICK s : s = [start |-> cursor, duration |-> d, source |-> visual]
    OBVIOUS
  <2>3. cursor \in Nat /\ fps' = fps /\ s \in Shot
    BY <1>2, <1>4, <1>5, <2>2 DEF InStep, Continuous, Shot
  <2>4. /\ shots' \in Seq(Shot) /\ Len(shots') = n + 1 /\ shots' # <<>>
        /\ DOMAIN shots' = 1 .. n + 1 /\ DOMAIN shots = 1 .. n
        /\ shots'[n + 1] = s /\ \A i \in 1 .. n : shots'[i] = shots[i]
    BY <1>7, <2>1, <2>2, <2>3 DEF InStep, Continuous
  <2>5. \A i \in 1 .. n : shots[i] \in Shot
    BY <2>1 DEF InStep, Continuous
  <2>6. Continuous'
    <3>1. cursor' \in 0 .. MaxDuration
      BY <1>5, <1>7, <2>3, LimitIsNumber
    <3>2. \A i \in DOMAIN shots' : shots'[i].start + shots'[i].duration =< cursor'
      <4>1. shots'[n + 1].start + shots'[n + 1].duration =< cursor'
        BY <1>5, <1>7, <2>2, <2>3, <2>4
      <4>2. ASSUME NEW i \in 1 .. n PROVE shots[i].start + shots[i].duration =< cursor'
        <5>1. shots[i].start + shots[i].duration =< cursor
          BY <2>4 DEF InStep, Continuous
        <5>2. shots[i].start \in Nat /\ shots[i].duration \in Nat
          BY <2>5 DEF Shot
        <5> QED
          BY <1>5, <1>7, <2>3, <5>1, <5>2
      <4> QED
        BY <2>1, <2>4, <4>1, <4>2
    <3>3. shots'[1].start = 0
      <4>1. CASE n = 0
        <5>1. shots \in Seq(Shot)
          BY DEF InStep, Continuous
        <5>2. shots # <<>> => Len(shots) \in Nat \ {0}
          BY <5>1, NoneLong
        <5>3. shots = <<>>
          BY <2>1, <4>1, <5>2
        <5> QED
          BY <2>2, <2>4, <4>1, <5>3 DEF InStep, Continuous
      <4>2. CASE n # 0
        BY <2>1, <2>4, <4>2 DEF InStep, Continuous
      <4> QED
        BY <4>1, <4>2
    <3>4. ASSUME NEW i \in 2 .. n + 1
          PROVE  shots'[i].start = shots'[i - 1].start + shots'[i - 1].duration
      <4>1. CASE i = n + 1
        <5>1. shots # <<>> /\ n \in 1 .. n
          BY <2>1, <2>4, <4>1
        <5> QED
          BY <2>1, <2>2, <2>4, <4>1, <5>1 DEF InStep, Continuous
      <4>2. CASE i # n + 1
        <5>1. i \in 2 .. n /\ i - 1 \in 1 .. n /\ shots # <<>>
          BY <2>1, <2>4, <4>2
        <5>2. shots[i].start = shots[i - 1].start + shots[i - 1].duration
          BY <2>1, <5>1 DEF InStep, Continuous
        <5> QED
          BY <2>4, <5>1, <5>2
      <4> QED
        BY <4>1, <4>2
    <3>5. shots'[n + 1].start + shots'[n + 1].duration = cursor'
      BY <1>7, <2>2, <2>4
    <3> QED
      BY <2>3, <2>4, <3>1, <3>2, <3>3, <3>4, <3>5 DEF InStep, Continuous
  <2>7. Covered'
    BY <1>7, <2>2, <2>4 DEF InStep, Covered
  <2>8. ASSUME NEW t \in tracks' PROVE Heard(t)'
    <3>1. CASE t \in tracks
      <4>1. Heard(t) /\ t.start \in Nat /\ t.duration \in Nat
        BY <3>1 DEF InStep, Heard, Track
      <4>2. t.start + t.duration =< cursor'
        BY <1>5, <1>7, <2>3, <4>1 DEF Heard
      <4> QED
        BY <2>4, <4>1, <4>2 DEF Heard
    <3>2. CASE t \notin tracks
      <4>1. /\ narration # 0
            /\ t = [role |-> "narration", start |-> cursor, duration |-> Ms(narration),
                    source |-> narration, fadeIn |-> 0, fadeOut |-> 0]
        BY <1>7, <3>2 DEF Sound
      <4>2. t \in Track
        BY <1>4, <2>3, <4>1 DEF Track
      <4>3. t.start + t.duration =< cursor'
        BY <1>4, <1>5, <1>7, <2>3, <4>1
      <4>4. t.start = shots'[n + 1].start /\ t.duration =< shots'[n + 1].duration
        BY <1>5, <2>2, <2>4, <4>1
      <4> QED
        BY <1>4, <2>1, <2>4, <4>1, <4>2, <4>3, <4>4 DEF Heard
    <3> QED
      BY <3>1, <3>2
  <2>9. InPhase'
    BY <1>2, <1>7 DEF InStep, InPhase
  <2> QED
    BY <2>6, <2>7, <2>8, <2>9 DEF InStep
<1> QED
  BY <1>1, <1>3, <1>6, <1>7

\* A new sound in a film that stays as it is.
LEMMA SoundKeeps ==
  ASSUME InStep, NEW t, Heard(t), tracks' \subseteq tracks \cup {t},
         UNCHANGED <<fps, shots, cursor, cut, drawn>>,
         phase = "shots" \/ phase = "effects", phase' = "effects", shots # <<>>
  PROVE  InStep'
<1>1. Continuous' /\ Covered'
  BY DEF InStep, Continuous, Covered
<1>2. \A u \in tracks' : Heard(u)'
  BY DEF InStep, Heard
<1>3. InPhase'
  BY DEF InStep, InPhase, Phases
<1> QED
  BY <1>1, <1>2, <1>3 DEF InStep

LEMMA ScoreKeeps == ASSUME TimelineAssumption, InStep, Score PROVE InStep'
<1>1. PICK m \in Sounds :
        LET d == Least(Ms(m), cursor)
        IN tracks' = tracks \cup Sound("music", 0, d, m, Least(250, d \div 4), Least(500, d \div 3))
  BY DEF Score
<1>2. PICK d : d = Least(Ms(m), cursor)
  OBVIOUS
<1>3. PICK fi, fo : fi = Least(250, d \div 4) /\ fo = Least(500, d \div 3)
  OBVIOUS
<1>4. /\ shots # <<>> /\ phase = "shots" /\ phase' = "effects"
      /\ UNCHANGED <<fps, shots, cursor, cut, drawn>>
  BY DEF Score
<1>5. Len(shots) \in DOMAIN shots
  <2>1. shots \in Seq(Shot)
    BY DEF InStep, Continuous
  <2> QED
    BY <1>4, <2>1, NoneLong
<1>6. cursor \in Nat \ {0} /\ m \in Nat
  BY <1>5, ShotInside, LimitIsNumber DEF InStep, TimelineAssumption
<1>7. CASE m = 0
  <2>1. tracks' = tracks
    BY <1>1, <1>7 DEF Sound
  <2>2. Continuous' /\ Covered'
    BY <1>4 DEF InStep, Continuous, Covered
  <2>3. \A u \in tracks' : Heard(u)'
    BY <1>4, <2>1 DEF InStep, Heard
  <2>4. InPhase'
    BY <1>4 DEF InStep, InPhase, Phases
  <2> QED
    BY <2>2, <2>3, <2>4 DEF InStep
<1>8. CASE m # 0
  <2>1. Ms(m) \in Nat \ {0}
    BY <1>6, <1>8, MsCovers
  <2>2. d \in Nat \ {0} /\ d =< Ms(m) /\ d =< cursor
    BY <1>2, <1>6, <2>1 DEF Least
  <2>3. fi \in Nat /\ fo \in Nat /\ fi + fo =< d
    <3>1. d \div 4 \in Nat /\ d \div 3 \in Nat /\ d \div 4 + d \div 3 =< d
      BY <2>2
    <3>2. fi \in Nat /\ fi =< d \div 4
      BY <1>3, <3>1 DEF Least
    <3>3. fo \in Nat /\ fo =< d \div 3
      BY <1>3, <3>1 DEF Least
    <3> QED
      BY <2>2, <3>1, <3>2, <3>3
  <2>4. PICK t : t = [role |-> "music", start |-> 0, duration |-> d, source |-> m,
                      fadeIn |-> fi, fadeOut |-> fo]
    OBVIOUS
  <2>5. t \in Track
    BY <1>6, <2>2, <2>3, <2>4 DEF Track
  <2>6. Heard(t)
    BY <1>6, <2>2, <2>3, <2>4, <2>5 DEF Heard
  <2>7. tracks' \subseteq tracks \cup {t}
    BY <1>1, <1>2, <1>3, <2>4 DEF Sound
  <2> QED
    BY <1>4, <2>6, <2>7, SoundKeeps
<1> QED
  BY <1>7, <1>8

LEMMA AddEffectKeeps == ASSUME TimelineAssumption, InStep, AddEffect PROVE InStep'
<1>1. PICK e \in Sounds \ {0}, i \in DOMAIN shots :
        tracks' = tracks \cup
          Sound("effect", shots[i].start, Least(Ms(e), shots[i].duration), e, 0, 0)
  BY DEF AddEffect
<1>2. phase = "effects" /\ phase' = "effects" /\ UNCHANGED <<fps, shots, cursor, cut, drawn>>
  BY DEF AddEffect
<1>3. /\ shots[i].start \in Nat /\ shots[i].duration \in Nat \ {0}
      /\ shots[i].start + shots[i].duration =< cursor /\ shots # <<>>
  BY ShotInside DEF InStep, Shot
<1>4. e \in Nat /\ Ms(e) \in Nat \ {0}
  BY MsCovers DEF TimelineAssumption
<1>5. PICK d : d = Least(Ms(e), shots[i].duration)
  OBVIOUS
<1>6. d \in Nat \ {0} /\ d =< Ms(e) /\ d =< shots[i].duration
  BY <1>3, <1>4, <1>5 DEF Least
<1>7. PICK t : t = [role |-> "effect", start |-> shots[i].start, duration |-> d, source |-> e,
                    fadeIn |-> 0, fadeOut |-> 0]
  OBVIOUS
<1>8. t \in Track
  BY <1>3, <1>4, <1>6, <1>7 DEF Track
<1>9. t.start + t.duration =< cursor
  <2>1. cursor \in Nat
    BY LimitIsNumber DEF InStep, Continuous
  <2> QED
    BY <1>3, <1>6, <1>7, <2>1
<1>10. Heard(t)
  BY <1>6, <1>7, <1>8, <1>9 DEF Heard
<1>11. tracks' \subseteq tracks \cup {t}
  BY <1>1, <1>5, <1>7 DEF Sound
<1> QED
  BY <1>2, <1>3, <1>10, <1>11, SoundKeeps

\* The validator refuses nothing of it.
LEMMA AssembleKeeps == ASSUME InStep, Assemble PROVE InStep'
<1>1. /\ phase = "effects" /\ phase' = (IF Valid THEN "assembled" ELSE "failed")
      /\ UNCHANGED <<fps, shots, tracks, cursor, cut, drawn>>
  BY DEF Assemble
<1>2. shots # <<>> /\ cut = 1 /\ drawn = 0
  BY <1>1 DEF InStep, InPhase
<1>3. PICK n \in Nat \ {0} : n = Len(shots) /\ DOMAIN shots = 1 .. n
  <2>1. shots \in Seq(Shot)
    BY DEF InStep, Continuous
  <2> QED
    BY <1>2, <2>1, NoneLong
<1>4. cursor \in 1 .. MaxDuration
  BY <1>3, ShotInside DEF InStep
<1>5. Valid
  BY <1>2, <1>4 DEF Valid, InStep, Continuous, Heard
<1>6. drawn = FrameAt(shots[1].start)
  <2>1. shots[1].start = 0 /\ fps \in 1 .. 60
    BY <1>2 DEF InStep, Continuous
  <2>2. FrameAt(0) \in Nat /\ 1000 * FrameAt(0) - 0 * fps =< 500
    BY <2>1, FramesNear
  <2> QED
    BY <1>2, <2>1, <2>2
<1>7. drawn' = Drawn'
  BY <1>1, <1>2, <1>3, <1>6 DEF Drawn, FrameAt
<1>8. InPhase'
  BY <1>1, <1>2, <1>3, <1>5, <1>7 DEF InPhase, InStep, Phases
<1> QED
  BY <1>1, <1>8 DEF InStep, Continuous, Covered, Heard

\* What is left of a length by rounding it up is less than any frame.
LEMMA LastsLongEnough ==
  ASSUME NEW duration \in Nat, NEW source \in Nat, NEW tolerance \in Nat,
         duration =< Ms(source), tolerance >= 999
  PROVE  Lasts(duration, source, tolerance)
<1>1. Ms(source) \in Nat /\ 1000 * Ms(source) =< source + 999
  BY MsCovers
<1> QED
  BY <1>1 DEF Lasts

LEMMA FrameLengthBounded ==
  ASSUME TimelineAssumption, NEW rate \in SourceRates, fps \in 1 .. 60
  PROVE  FrameLength(rate) \in Nat /\ FrameLength(rate) >= 999
<1>1. PICK r : r = IF rate = 0 THEN fps ELSE rate
  OBVIOUS
<1>2. r \in 1 .. 1000
  BY <1>1 DEF TimelineAssumption
<1>3. 1000000 \div r \in Nat /\ 1000000 \div r >= 1000
  BY <1>2, SMT
<1>4. FrameLength(rate) = 1000000 \div r
  BY <1>1, SMT DEF FrameLength
<1> QED
  BY <1>3, <1>4, SMT

LEMMA CutShotKeeps == ASSUME TimelineAssumption, InStep, CutShot PROVE InStep'
<1>1. PICK n \in Nat \ {0} : n = Len(shots) /\ DOMAIN shots = 1 .. n /\ cut \in 1 .. n
  <2>1. shots \in Seq(Shot) /\ shots # <<>> /\ cut \in 1 .. Len(shots) + 1 /\ cut =< Len(shots)
    BY DEF InStep, Continuous, InPhase, CutShot
  <2> QED
    BY <2>1, NoneLong
<1>2. phase = "assembled" /\ UNCHANGED <<fps, shots, tracks, cursor>> /\ drawn = Drawn
      /\ drawn \in Nat /\ fps \in 1 .. 60 /\ shots # <<>>
  BY DEF CutShot, InStep, InPhase, Continuous
<1>3. PICK s : s = shots[cut]
  OBVIOUS
<1>4. /\ s \in Shot /\ s.start \in Nat /\ s.duration \in Nat \ {0} /\ s.source \in Nat
      /\ s.start + s.duration =< cursor /\ cursor \in Nat
  BY <1>1, <1>3, ShotInside, LimitIsNumber DEF InStep, Shot
<1>5. PICK rate \in SourceRates :
        IF s.source = 0 \/ Lasts(s.duration, s.source, FrameLength(rate))
        THEN cut' = cut + 1 /\ drawn' = drawn + Most(0, Segment(cut)) /\ UNCHANGED phase
        ELSE phase' = "failed" /\ UNCHANGED <<cut, drawn>>
  BY <1>3 DEF CutShot
<1>6. s.source = 0 \/ Lasts(s.duration, s.source, FrameLength(rate))
  <2>1. FrameLength(rate) \in Nat /\ FrameLength(rate) >= 999
    BY <1>2, FrameLengthBounded
  <2>2. s.source # 0 => s.duration =< Ms(s.source)
    BY <1>1, <1>3 DEF InStep, Covered
  <2> QED
    BY <1>4, <2>1, <2>2, LastsLongEnough
<1>7. cut' = cut + 1 /\ drawn' = drawn + Most(0, Segment(cut)) /\ phase' = phase
  BY <1>5, <1>6
<1>8. PICK a, b : a = FrameAt(s.start) /\ b = FrameAt(s.start + s.duration)
  OBVIOUS
<1>9. a \in Nat /\ b \in Nat /\ a =< b
  <2>1. PICK x \in Nat, y \in Nat : x = s.start /\ y = s.start + s.duration /\ x =< y
    BY <1>4
  <2>2. FrameAt(x) \in Nat /\ FrameAt(y) \in Nat
    BY <1>2, FramesNear
  <2>3. FrameAt(x) =< FrameAt(y)
    BY <1>2, <2>1, FramesFollow
  <2> QED
    BY <1>8, <2>1, <2>2, <2>3
<1>10. drawn = a
  BY <1>1, <1>2, <1>3, <1>8 DEF Drawn
<1>11. Segment(cut) = (IF cut = n THEN Most(1, b) ELSE b) - a
  BY <1>1, <1>3, <1>8 DEF Segment
<1>12. drawn' = (IF cut = n THEN Most(1, b) ELSE b)
  BY <1>7, <1>9, <1>10, <1>11 DEF Most
<1>13. drawn' = Drawn'
  <2>1. CASE cut = n
    <3>1. s.start + s.duration = cursor
      BY <1>1, <1>2, <1>3, <2>1 DEF InStep, Continuous
    <3>2. Drawn' = Most(1, FrameAt(cursor))
      BY <1>1, <1>2, <1>7, <2>1 DEF Drawn, TotalFrames, FrameAt
    <3> QED
      BY <1>8, <1>12, <2>1, <3>1, <3>2
  <2>2. CASE cut # n
    <3>1. cut + 1 \in 2 .. n
      BY <1>1, <2>2
    <3>2. shots[cut + 1].start = shots[(cut + 1) - 1].start + shots[(cut + 1) - 1].duration
      BY <1>1, <1>2, <3>1 DEF InStep, Continuous
    <3>3. shots[cut + 1].start = s.start + s.duration
      BY <1>1, <1>3, <3>2
    <3>4. Drawn' = FrameAt(shots[cut + 1].start)
      BY <1>1, <1>2, <1>7, <3>1 DEF Drawn, FrameAt
    <3> QED
      BY <1>8, <1>12, <2>2, <3>3, <3>4
  <2> QED
    BY <2>1, <2>2
<1>14. InPhase'
  <2>1. drawn' \in Nat /\ cut' \in 1 .. n + 1
    BY <1>1, <1>7, <1>9, <1>12 DEF Most
  <2> QED
    BY <1>1, <1>2, <1>7, <1>13, <2>1 DEF InPhase, Phases
<1> QED
  BY <1>2, <1>14 DEF InStep, Continuous, Covered, Heard

\* All segments are the film, so what comes out is as long as it should be.
LEMMA MixKeeps == ASSUME InStep, Mix PROVE InStep'
<1>1. /\ phase = "assembled" /\ cut = Len(shots) + 1 /\ shots # <<>> /\ drawn \in Nat
      /\ drawn = Drawn /\ fps \in 1 .. 60 /\ shots \in Seq(Shot)
      /\ UNCHANGED <<fps, shots, tracks, cursor, cut, drawn>>
  BY DEF Mix, InStep, InPhase, Continuous
<1>2. cursor \in Nat
  BY LimitIsNumber DEF InStep, Continuous
<1>3. drawn = TotalFrames
  <2>1. Len(shots) \in Nat
    BY <1>1, NoneLong
  <2> QED
    BY <1>1, <2>1 DEF Drawn
<1>4. PICK a : a = FrameAt(cursor)
  OBVIOUS
<1>5. a \in Nat /\ cursor * fps \in Nat
      /\ 1000 * a - cursor * fps =< 500 /\ cursor * fps - 1000 * a =< 500
  BY <1>1, <1>2, <1>4, FramesNear
<1>6. PICK time : time = cursor * fps
  OBVIOUS
<1>7. /\ drawn = TotalFrames /\ TotalFrames \in Nat /\ TotalFrames > 0
      /\ -1000 =< 1000 * TotalFrames - time /\ 1000 * TotalFrames - time =< 1000
  BY <1>3, <1>4, <1>5, <1>6 DEF TotalFrames, Most
<1>8. PICK out : out = Least(drawn, TotalFrames)
  OBVIOUS
<1>9. out = TotalFrames
  BY <1>7, <1>8 DEF Least
<1>10. PICK slack : slack = 1000 + 22 * fps
  OBVIOUS
<1>11. slack \in Nat /\ slack >= 1000
  BY <1>1, <1>10
<1>12. - slack =< 1000 * out - time /\ 1000 * out - time =< slack
  BY <1>5, <1>6, <1>7, <1>9, <1>11
<1>13. ASSUME NEW t \in tracks PROVE Lasts(t.duration, t.source, AudioFrame)
  <2>1. t.duration \in Nat /\ t.source \in Nat /\ t.duration =< Ms(t.source)
    BY DEF InStep, Heard, Track
  <2>2. AudioFrame \in Nat /\ AudioFrame >= 999
    BY SMT DEF AudioFrame
  <2> QED
    BY <2>1, <2>2, LastsLongEnough
<1>14. out > 0 /\ TotalFrames - out =< 1
  BY <1>7, <1>9
<1>15. phase' = "rendered"
  BY <1>6, <1>8, <1>10, <1>12, <1>13, <1>14 DEF Mix
<1>16. drawn' = TotalFrames'
  BY <1>1, <1>3 DEF TotalFrames, FrameAt
<1>17. InPhase'
  BY <1>1, <1>15, <1>16 DEF InPhase, Phases
<1> QED
  BY <1>1, <1>17 DEF InStep, Continuous, Covered, Heard

LEMMA InStepShows == ASSUME InStep PROVE RendersInStep
<1>1. phase # "failed"
  BY DEF InStep, InPhase
<1>2. \A t \in tracks : t.role # "music" =>
        \E i \in DOMAIN shots : t.start = shots[i].start /\ t.duration =< shots[i].duration
  BY DEF InStep, Heard
<1>3. phase = "assembled" =>
        drawn = IF cut =< Len(shots) THEN FrameAt(shots[cut].start) ELSE TotalFrames
  BY DEF InStep, InPhase, Drawn
<1>4. /\ phase = "rendered" => drawn = TotalFrames
      /\ LET off == 1000 * TotalFrames - cursor * fps IN -1000 =< off /\ off =< 1000
  <2>1. cursor \in Nat /\ fps \in 1 .. 60
    BY LimitIsNumber DEF InStep, Continuous
  <2>2. PICK a, time : a = FrameAt(cursor) /\ time = cursor * fps
    OBVIOUS
  <2>3. a \in Nat /\ time \in Nat /\ 1000 * a - time =< 500 /\ time - 1000 * a =< 500
    BY <2>1, <2>2, FramesNear
  <2>4. -1000 =< 1000 * TotalFrames - time /\ 1000 * TotalFrames - time =< 1000
    BY <2>2, <2>3 DEF TotalFrames, Most
  <2> QED
    BY <2>2, <2>4 DEF InStep, InPhase
<1> QED
  BY <1>1, <1>2, <1>3, <1>4 DEF RendersInStep

\* Whatever is assembled without a review can be rendered, in step.
THEOREM FilmsInStep == ASSUME TimelineAssumption PROVE CutSpec => []RendersInStep
<1>1. CutInit => InStep
  BY CutInitOK
<1>2. ASSUME InStep, [CutNext]_cutVars PROVE InStep'
  <2>1. CASE AddShot
    BY <1>2, <2>1, AddShotKeeps
  <2>2. CASE Score
    BY <1>2, <2>2, ScoreKeeps
  <2>3. CASE AddEffect
    BY <1>2, <2>3, AddEffectKeeps
  <2>4. CASE Assemble
    BY <1>2, <2>4, AssembleKeeps
  <2>5. CASE CutShot
    BY <1>2, <2>5, CutShotKeeps
  <2>6. CASE Mix
    BY <1>2, <2>6, MixKeeps
  <2>7. CASE UNCHANGED cutVars
    BY <1>2, <2>7 DEF cutVars, InStep, Continuous, Covered, Heard, InPhase, Drawn, TotalFrames, FrameAt
  <2> QED
    BY <1>2, <2>1, <2>2, <2>3, <2>4, <2>5, <2>6, <2>7 DEF CutNext
<1>3. InStep => RendersInStep
  BY InStepShows
<1> QED
  BY <1>1, <1>2, <1>3, PTL DEF CutSpec
=============================================================================
