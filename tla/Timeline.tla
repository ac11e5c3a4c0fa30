------------------------------ MODULE Timeline ------------------------------
(***************************************************************************)
(* How a timeline is put together from a storyboard and probed media        *)
(* (workflows/media/assemble.py, domain/assembly.py), what makes one        *)
(* acceptable (domain/timeline.py), and how the renderer probes the media   *)
(* again, cuts the film into frames and checks it (infrastructure/media/    *)
(* composition.py).  The assembler counts whole milliseconds, the probe     *)
(* reports fractions: lengths of media are microseconds.  Which asset is    *)
(* used, texts and sizes are left out.                                      *)
(***************************************************************************)
EXTENDS Integers, Sequences, FiniteSets

CONSTANTS
  MaxShots, MaxEffects,  \* bounds: shots of the storyboard, effects of the request
  Planned,     \* planned durations, ms
  Narrations,  \* lengths of narrations, 0 for none
  Visuals,     \* lengths of videos, 0 for a picture
  Sounds,      \* lengths of music and effects, 0 for none
  Rates,       \* frames per second of the film
  SourceRates  \* frames per second of a video, 0 if its probe says none

\* A film has at most 60 frames per second; no video has more than one in a
\* millisecond.
TimelineAssumption ==
  /\ MaxShots \in Nat /\ MaxEffects \in Nat
  /\ Planned \subseteq Nat \ {0} /\ Rates \subseteq 1 .. 60 /\ SourceRates \subseteq 0 .. 1000
  /\ Narrations \subseteq Nat /\ Visuals \subseteq Nat /\ Sounds \subseteq Nat

MaxDuration == 600000

VARIABLES
  fps, shots,  \* visual track: [start, duration, source]
  tracks,      \* audio tracks: [role, start, duration, fadeIn, fadeOut, source]
  cursor,      \* where the next shot begins
  phase,
  cut, drawn   \* the next shot to cut, and the frames cut so far

cutVars == <<fps, shots, tracks, cursor, phase, cut, drawn>>

Shot == [start : Nat, duration : Nat \ {0}, source : Nat]
Track == [role : {"narration", "music", "effect"}, start : Nat, duration : Nat,
          fadeIn : Nat, fadeOut : Nat, source : Nat]
\* "review" is AssemblyReviewRequired, "failed" a ValueError or CompositionError.
Phases == {"shots", "effects", "assembled", "rendered", "review", "failed"}

CutTypeOK ==
  /\ fps \in Rates /\ cursor \in 0 .. MaxDuration
  /\ shots \in Seq(Shot) /\ tracks \subseteq Track
  /\ phase \in Phases
  /\ cut \in 1 .. Len(shots) + 1 /\ drawn \in Nat

CutInit ==
  /\ fps \in Rates
  /\ shots = <<>> /\ tracks = {} /\ cursor = 0
  /\ phase = "shots"
  /\ cut = 1 /\ drawn = 0

Least(a, b) == IF a < b THEN a ELSE b
Most(a, b) == IF a > b THEN a ELSE b
\* The probe's length in whole milliseconds, rounded up.
Ms(length) == (length + 999) \div 1000

-----------------------------------------------------------------------------
(* The assembler.                                                          *)

\* A shot lasts as long as its narration needs.
Duration(planned, narration) == Most(planned, Ms(narration))

Sound(role, start, duration, source, fadeIn, fadeOut) ==
  {[role |-> role, start |-> start, duration |-> duration, source |-> s,
    fadeIn |-> fadeIn, fadeOut |-> fadeOut] : s \in {source} \ {0}}

\* One shot; a video that is too short, a film that is too long or a dialogue
\* that is no subtitle is left to a human.
AddShot ==
  /\ phase = "shots" /\ Len(shots) < MaxShots
  /\ \E planned \in Planned, narration \in Narrations, visual \in Visuals :
       LET d == Duration(planned, narration)
       IN \/ /\ visual = 0 \/ Ms(visual) >= d
             /\ cursor + d =< MaxDuration
             /\ shots' = Append(shots, [start |-> cursor, duration |-> d, source |-> visual])
             /\ tracks' = tracks \cup Sound("narration", cursor, Ms(narration), narration, 0, 0)
             /\ cursor' = cursor + d
             /\ UNCHANGED phase
          \/ /\ \/ visual # 0 /\ Ms(visual) < d
                \/ cursor + d > MaxDuration
                \/ narration # 0
             /\ phase' = "review" /\ UNCHANGED <<shots, tracks, cursor>>
  /\ UNCHANGED <<fps, cut, drawn>>

\* Music over the whole film, cut to fit.
Score ==
  /\ phase = "shots" /\ shots # <<>>
  /\ \E m \in Sounds :
       LET d == Least(Ms(m), cursor)
       IN tracks' = tracks \cup Sound("music", 0, d, m, Least(250, d \div 4), Least(500, d \div 3))
  /\ phase' = "effects"
  /\ UNCHANGED <<fps, shots, cursor, cut, drawn>>

Effects == {t \in tracks : t.role = "effect"}
\* An effect in a shot that has none, cut to fit.
AddEffect ==
  /\ phase = "effects" /\ Cardinality(Effects) < MaxEffects
  /\ \E e \in Sounds \ {0}, i \in DOMAIN shots :
       /\ \A t \in Effects : t.start # shots[i].start
       /\ tracks' = tracks \cup
            Sound("effect", shots[i].start, Least(Ms(e), shots[i].duration), e, 0, 0)
  /\ UNCHANGED <<fps, shots, cursor, phase, cut, drawn>>

\* What the validator of a timeline asks: shots one after the other to the very
\* end, sounds inside the film and fades inside the sounds.
Valid ==
  /\ shots[1].start = 0
  /\ \A i \in 2 .. Len(shots) : shots[i].start = shots[i - 1].start + shots[i - 1].duration
  /\ shots[Len(shots)].start + shots[Len(shots)].duration = cursor
  /\ cursor \in 1 .. MaxDuration
  /\ \A t \in tracks :
       /\ t.duration > 0 /\ t.start + t.duration =< cursor
       /\ t.fadeIn + t.fadeOut =< t.duration

Assemble ==
  /\ phase = "effects"
  /\ phase' = IF Valid THEN "assembled" ELSE "failed"
  /\ UNCHANGED <<fps, shots, tracks, cursor, cut, drawn>>

-----------------------------------------------------------------------------
(* The renderer.                                                           *)

\* Python's round of n / d: a half goes to the even neighbour.
Round(n, d) ==
  LET q == n \div d  r == n % d
  IN IF 2 * r < d \/ (2 * r = d /\ q % 2 = 0) THEN q ELSE q + 1
FrameAt(ms) == Round(ms * fps, 1000)

SegmentAlone(i) == FrameAt(shots[i].duration)    \* mutant: each shot rounded alone
\* A segment ends where the next one begins; the film has a frame at least.
Segment(i) ==
  LET end == FrameAt(shots[i].start + shots[i].duration)
  IN (IF i = Len(shots) THEN Most(1, end) ELSE end) - FrameAt(shots[i].start)
TotalFrames == Most(1, FrameAt(cursor))

\* A medium must last as long as it is shown or heard: to within a frame of its
\* own (of the film's, if the probe saw no rate), or a frame of AAC.
FrameLength(rate) == 1000000 \div (IF rate = 0 THEN fps ELSE rate)
AudioFrame == 21333
Lasts(duration, source, tolerance) == 1000 * duration =< source + tolerance + 1

\* A segment of no frames is left out.
CutShot ==
  /\ phase = "assembled" /\ cut =< Len(shots)
  /\ LET s == shots[cut] IN
     \E rate \in SourceRates :
       IF s.source = 0 \/ Lasts(s.duration, s.source, FrameLength(rate))
       THEN cut' = cut + 1 /\ drawn' = drawn + Most(0, Segment(cut)) /\ UNCHANGED phase
       ELSE phase' = "failed" /\ UNCHANGED <<cut, drawn>>
  /\ UNCHANGED <<fps, shots, tracks, cursor>>

\* The sounds are mixed over the segments, which are cut off at the length of
\* the film; what comes out is probed, to within a frame (and one of AAC).
Mix ==
  /\ phase = "assembled" /\ cut = Len(shots) + 1
  /\ LET out == Least(drawn, TotalFrames)
         off == 1000 * out - cursor * fps
         slack == 1000 + 22 * fps
     IN phase' =
          IF /\ \A t \in tracks : Lasts(t.duration, t.source, AudioFrame)
             /\ out > 0 /\ TotalFrames - out =< 1
             /\ - slack =< off /\ off =< slack
          THEN "rendered" ELSE "failed"
  /\ UNCHANGED <<fps, shots, tracks, cursor, cut, drawn>>

CutNext == AddShot \/ Score \/ AddEffect \/ Assemble \/ CutShot \/ Mix
CutSpec == CutInit /\ [][CutNext]_cutVars

-----------------------------------------------------------------------------
\* What the assembler accepts without a review the validator accepts and the
\* renderer renders, although the one rounds lengths up and the other reads
\* them again; no narration and no effect outlasts the shot it begins with; and
\* the film is in step: every segment begins on the frame of its shot's start
\* however often shots are shorter than a frame, and all of them together are
\* as long as the film, to within a frame of its time.
RendersInStep ==
  /\ phase # "failed"
  /\ \A t \in tracks : t.role # "music" =>
       \E i \in DOMAIN shots : t.start = shots[i].start /\ t.duration =< shots[i].duration
  /\ phase = "assembled" =>
       drawn = IF cut =< Len(shots) THEN FrameAt(shots[cut].start) ELSE TotalFrames
  /\ phase = "rendered" =>
       /\ drawn = TotalFrames
       /\ LET off == 1000 * TotalFrames - cursor * fps IN -1000 =< off /\ off =< 1000
=============================================================================
