--------------------------- MODULE MCRuntimePlane ---------------------------
(* Small instances for TLC of the kinds of Runtime job that share no state.   *)
(* Each behaviour exercises one of them; the others stay as they began.       *)
EXTENDS RuntimePlane, TLC

CONSTANTS w1, w2, w3, j1, f1, f2, t1, t2, n1, n2, Parts

VARIABLES part


MCWorkerId == [w \in Workers |-> "runtime-local"]
MCWorkerIds == {"runtime-local"}
Cmd(i, t, a) == [id |-> i, job |-> j1, type |-> t, action |-> a]
MCCommands ==
  {Cmd(1, "workflow.run", "approve"), Cmd(2, "job.cancel", "approve"),
   Cmd(3, "job.resume", "approve"), Cmd(4, "job.resume", "reconcile")}

-----------------------------------------------------------------------------
\* Other books than the plane's, over the same rows: one chapter and, after a
\* run that goes as far as it goes, every operation on it.
Desk == INSTANCE Novel WITH
  Workers <- {w3}, Operations <- {"run", "resume", "canon", "revision", "candidates", "report"},
  Answers <- {"approve", "candidate"},
  Total <- 1, MaxRevisions <- 1, Planning <- FALSE, MaxJobs <- 2, MaxClaims <- 2,
  MaxTexts <- 2, MaxBriefs <- 2, MaxCanon <- 1, hand <- nhand
\* The reviews of the plan, and a scene that is written again.
Blueprint == INSTANCE Novel WITH
  Workers <- {w3}, Operations <- {"run"}, Answers <- {"approve", "scene"},
  Total <- 1, MaxRevisions <- 1, Planning <- TRUE, MaxJobs <- 1, MaxClaims <- 5,
  MaxTexts <- 2, MaxBriefs <- 1, MaxCanon <- 0, hand <- nhand

-----------------------------------------------------------------------------
\* A source of two blocks, and drafts of a cast, a scene and a dialogue: what they
\* are converted from, who speaks where, how they are numbered, what they are called.
Block(id, type, who, place, numbers, sources) ==
  [id |-> id, type |-> type, character |-> who, place |-> place, scene |-> numbers,
   episode |-> None, sources |-> sources, version |-> None]
Text1 == <<n1, 1>>
MCSource ==
  [name |-> n1, version |-> n1,
   blocks |-> <<Block(None, "text", None, None, None, <<>>), Block(n2, "text", None, None, None, <<>>)>>]
Casts == {Block(None, "character", who, None, None, <<n2>>) : who \in {n1, None}}
Scenes ==
  {Block(id, "scene", None, None, [number |-> n, episode |-> 0, duration |-> 0], <<n2>>) :
     id \in {n1, None}, n \in {1, 2}}
Dialogues ==
  {Block(id, "dialogue", n1, n1, None, from) : id \in {None, n1, n2}, from \in {<<>>, <<Text1>>, <<n2, n2>>}}
MCDrafts == {[name |-> n2, blocks |-> <<a, b, c>>] : a \in Casts, b \in Scenes, c \in Dialogues}
MCWeak == {d \in MCDrafts : d.blocks[3].id = n2}
MCStages == <<"write", "review">>

\* Either one job and one process, any draft (and a second without flaws), a plan
\* before it, and calls that cost nothing; or two of each, and one draft, with nobody to
\* cancel or to answer.
Drafting == INSTANCE Creation WITH
  Stages <- <<"plan", "write", "review">>, Costs <- {0}, MaxClaims <- MaxTries
Flawless == CHOOSE d \in MCDrafts \ MCWeak : Text!Findings(d, MCSource, TRUE, TRUE) = {}
OneWriter ==
  /\ \A w, v \in Workers : writer'[w] # Text!Idle /\ writer'[v] # Text!Idle => w = v
  /\ \A i, j \in Works : rows'[i].status # "none" /\ rows'[j].status # "none" => i = j
  /\ \A w \in Workers, j \in Works : writer'[w].fence > 1 =>
       writer'[w].draft.text \in {None, Flawless, rows'[j].draft.text}
OneDraft ==
  /\ \A w \in Workers : writer'[w].draft.text \in {None, Flawless}
  /\ \A j \in Works : rows'[j].status \notin {"cancel_requested", "cancelled"} /\ rows'[j].answer = "none"

-----------------------------------------------------------------------------
partVars == <<part, planeVars>>

InitOf(x) ==
  /\ part = x
  /\ Init /\ Film!Init /\ Video!Init /\ Text!Init
  /\ Film!CutInit /\ (x # "cut" => fps = 1)
  /\ CASE x = "desk" -> Desk!Init [] x = "blueprint" -> Blueprint!Init [] OTHER -> Book!Init
PartInit == \E x \in Parts : InitOf(x)

PartNext ==
  /\ part' = part
  /\ \/ /\ part = "media" /\ Next
        /\ UNCHANGED <<filmVars, cutVars, videoVars, bookVars, textVars>>
     \/ /\ part = "film" /\ Film!Next
        /\ UNCHANGED <<vars, cutVars, videoVars, bookVars, textVars>>
     \/ /\ part = "cut" /\ Film!CutNext
        /\ UNCHANGED <<vars, filmVars, videoVars, bookVars, textVars>>
     \/ /\ part = "video" /\ Video!Next
        /\ UNCHANGED <<vars, filmVars, cutVars, bookVars, textVars>>
     \/ /\ \/ part = "book" /\ Book!Next
           \/ part = "desk" /\ Desk!Next
           \/ part = "blueprint" /\ Blueprint!Next
        /\ UNCHANGED <<vars, filmVars, cutVars, videoVars, textVars>>
     \/ /\ \/ part = "draft" /\ Drafting!Next /\ OneWriter
           \/ part = "budget" /\ Text!Next /\ OneDraft
        /\ UNCHANGED <<vars, filmVars, cutVars, videoVars, bookVars>>
PartSpec == PartInit /\ [][PartNext]_partVars

\* Processes, and films, are interchangeable.
Swap == Permutations({w1, w2}) \cup Permutations({f1, f2})
=============================================================================
