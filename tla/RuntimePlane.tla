---------------------------- MODULE RuntimePlane ----------------------------
(***************************************************************************)
(* What the jobs of one Runtime keep, side by side: generated media (this   *)
(* module's own state), a film (Film) and the timeline it is cut from (the   *)
(* second half of Film), the videos a provider makes (Video), a book (Book)  *)
(* and the texts of a project (Text).  They share the processes and no row,  *)
(* so a step is a step of one of them, and what each promises holds whatever *)
(* the others do.  Film, Video and Book are instances of the modules that    *)
(* hold their theorems.                                                     *)
(***************************************************************************)
EXTENDS GeneratedMedia

CONSTANTS
  Films, NoFilm,                                            \* of Composition
  MaxShots, MaxEffects, Planned, Narrations, Visuals, Sounds,
  Rates, SourceRates,                                       \* of Timeline
  Videos, ContentJobs, Commands, WorkerIds, WorkerId,
  NoJob, NoWorker, MaxAttempts, MaxLosses, MaxRecords,      \* of MediaTask
  Writings, Verdicts, Total, MaxRevisions, Planning,
  MaxJobs, MaxTakes, MaxTexts, MaxBriefs, MaxCanon,         \* of Novel
  Works, Drafts, Weak, Source, Structured, Adapting, Stages,
  Limit, Costs, MaxCost, MaxTries, Names, None, Odd         \* of Creation

ASSUME FilmAssumption == NoFilm \notin Films

VARIABLES rjob, rhand, run, object, rstep, rlate,
          fps, shots, tracks, cursor, phase, cut, drawn

Film == INSTANCE CompositionProofs WITH
  job <- rjob, hand <- rhand, step <- rstep, late <- rlate

ASSUME CutAssumption == Film!TimelineAssumption

VARIABLES inbox, cancellations, status, fence, owner, lease, result, resumeInput,
          events, worker, losses, vtask, remote, vusage, vstep, vlate

Video == INSTANCE MediaTaskProofs WITH
  Jobs <- Videos, task <- vtask, usage <- vusage, step <- vstep, late <- vlate

ASSUME VideoAssumption ==
  /\ Video!MediaJobsAssumption
  /\ Video!RuntimeAssumption

VARIABLES jobs, nhand, ck, brief, texts, kept, offers, chapters, shown, commits

Book == INSTANCE NovelProofs WITH
  Operations <- Writings, Answers <- Verdicts, MaxClaims <- MaxTakes, hand <- nhand

ASSUME BookAssumption == Book!BookAssumption

VARIABLES rows, writer, spent, calls, stored

Text == INSTANCE Creation WITH MaxClaims <- MaxTries

ASSUME TextAssumption == Text!CreationAssumption

-----------------------------------------------------------------------------
filmVars == <<rjob, rhand, run, object, rstep, rlate>>
cutVars == <<fps, shots, tracks, cursor, phase, cut, drawn>>
videoVars == <<inbox, cancellations, status, fence, owner, lease, result, resumeInput,
               events, worker, losses, vtask, remote, vusage, vstep, vlate>>
bookVars == <<jobs, nhand, ck, brief, texts, kept, offers, chapters, shown, commits>>
textVars == <<rows, writer, spent, calls, stored>>
planeVars == <<vars, filmVars, cutVars, videoVars, bookVars, textVars>>

PlaneInit == Init /\ Film!Init /\ Film!CutInit /\ Video!Init /\ Book!Init /\ Text!Init
PlaneNext ==
  \/ Next /\ UNCHANGED <<filmVars, cutVars, videoVars, bookVars, textVars>>
  \/ Film!Next /\ UNCHANGED <<vars, cutVars, videoVars, bookVars, textVars>>
  \/ Film!CutNext /\ UNCHANGED <<vars, filmVars, videoVars, bookVars, textVars>>
  \/ Video!Next /\ UNCHANGED <<vars, filmVars, cutVars, bookVars, textVars>>
  \/ Book!Next /\ UNCHANGED <<vars, filmVars, cutVars, videoVars, textVars>>
  \/ Text!Next /\ UNCHANGED <<vars, filmVars, cutVars, videoVars, bookVars>>
PlaneSpec == PlaneInit /\ [][PlaneNext]_planeVars

-----------------------------------------------------------------------------
(* What the parts promise, each in its own words.                          *)

\* The row, the receipt and the object of a film agree, and a completed job
\* publishes the film its row names (Composition).
OneFilm == Film!OneFilm
\* A cancelled render stays so, and nobody begins one after it (Composition).
StoppedIsStopped == Film!StoppedIsStopped
\* What is assembled without a review can be rendered, in step (Timeline).
RendersInStep == Film!RendersInStep
\* A video is ordered once, and only if its plan was accepted (MediaTask).
OneSubmission == Video!OneSubmission
\* A row that says a video ended is right, a running one is not forgotten, and
\* what an ended one cost is recorded (MediaTask).
EndsHonestly == Video!EndsHonestly
\* An order whose answer is missing is marked before anybody is asked about it
\* and before its cancellation is settled (MediaTask).
DoubtIsShown == Video!DoubtIsShown
\* Every chapter in the book was checked under the brief in force when it was
\* approved, and a document that a job commits has every chapter, as audited and
\* as saved (Novel).
BookSound == Book!CheckedUnderItsBrief /\ Book!DocumentWhole
\* What the models were paid for keeps to the project's budget, a draft that is
\* shown is stored and accounted for, and what is published was approved, that
\* very version, by a human, or by the model and holds together (Creation).
CreatedSoundly == Text!CreatedSoundly
=============================================================================
