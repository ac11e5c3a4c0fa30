------------------------- MODULE JobProtocolProofs -------------------------
(***************************************************************************)
(* Theorems of JobProtocol for every set of jobs, commands, documents and  *)
(* workers: what Control shows and what the Runtime does agree, although   *)
(* commands and events are delayed, repeated and reordered between them.   *)
(*                                                                         *)
(* The Runtime's half is not proved again: the composition takes only the  *)
(* steps of RuntimeJobs (RuntimeWithin), so its invariants hold of the logs *)
(* the events come from.  Control's half (ControlOK) says, job by job, how  *)
(* the row's status follows from the part of the log that was applied and  *)
(* from what was asked; Project applies any number of events in one        *)
(* transaction, and a step of its fold keeps what is said of a row.        *)
(***************************************************************************)
EXTENDS BothPlanes, Installation, SequenceTheorems, WellFoundedInduction, TLAPS

P == INSTANCE RuntimeJobsProofs

-----------------------------------------------------------------------------
(* The Runtime within the composition.                                     *)

\* RuntimeJobs' assumptions, under which its theorems are taken over.
LEMMA RuntimeAssumed ==
  /\ P!JobsAssumption /\ P!CommandsAssumption
  /\ P!WorkersAssumption /\ P!BoundsAssumption
BY RuntimeAssumption DEF R!CommandTypes, R!ResumeActions, P!CommandTypes, P!ResumeActions

LEMMA SameInit == R!Init => P!Init
BY DEF P!Init, R!Init, P!Idle, R!Idle

LEMMA SameDeliver == ASSUME NEW c PROVE R!Deliver(c) <=> P!Deliver(c)
BY DEF P!Deliver, R!Deliver, P!AcceptTask, R!AcceptTask, P!AcceptCancel, R!AcceptCancel,
       P!AcceptResume, R!AcceptResume, P!NewInInbox, R!NewInInbox, P!Ev, R!Ev,
       P!Cancellable, R!Cancellable

LEMMA SameExpire == ASSUME NEW j PROVE R!LeaseExpires(j) <=> P!LeaseExpires(j)
BY DEF P!LeaseExpires, R!LeaseExpires, P!Held, R!Held

LEMMA SameStep == ASSUME NEW w PROVE R!WorkerStep(w) <=> P!WorkerStep(w)
BY DEF P!WorkerStep, R!WorkerStep, P!Work, R!Work, P!ClaimAny, R!ClaimAny,
       P!Ev, R!Ev, P!Swept, R!Swept, P!Claimable, R!Claimable, P!ClaimRows, R!ClaimRows,
       P!ApprovedDraft, R!ApprovedDraft, P!Claim, R!Claim, P!ClaimNothing, R!ClaimNothing,
       P!Owned, R!Owned, P!FencedOut, R!FencedOut,
       P!HeartbeatCancelled, R!HeartbeatCancelled, P!Recorded, R!Recorded,
       P!RecordModelCall, R!RecordModelCall, P!RecordArtifact, R!RecordArtifact,
       P!HandlerOutcomes, R!HandlerOutcomes, P!HandlerReturns, R!HandlerReturns,
       P!FinalStatus, R!FinalStatus, P!FinalVersion, R!FinalVersion,
       P!FinalEvents, R!FinalEvents, P!Finish, R!Finish, P!FinishLost, R!FinishLost,
       P!WorkerStops, R!WorkerStops, P!Leased, R!Leased, P!Reports, R!Reports,
       P!Idle, R!Idle, P!rowVars, R!rowVars

\* The composition's Runtime is RuntimeJobs: no step of the whole does to its
\* variables what RuntimeJobs could not do alone.
THEOREM RuntimeWithin == Spec => P!Spec
<1>1. Init => P!Init
  BY SameInit DEF Init
<1>2. [Next]_vars => [P!Next]_(P!vars)
  <2>0. SUFFICES ASSUME [Next]_vars PROVE P!Next \/ UNCHANGED P!vars
    OBVIOUS
  <2>1. ASSUME UNCHANGED runtimeVars PROVE UNCHANGED P!vars
    BY <2>1 DEF runtimeVars, P!vars
  <2>2. ASSUME NEW c \in Commands, DeliverCommand(c) PROVE P!Next
    BY <2>2, SameDeliver DEF DeliverCommand, P!Next
  <2>3. CASE RuntimeStep
    BY <2>3, SameStep, SameExpire DEF RuntimeStep, P!Next
  <2>4. ASSUME NEW j \in Jobs, DeliverEvent(j) PROVE UNCHANGED runtimeVars
    BY <2>4 DEF DeliverEvent
  <2>5. CASE UNCHANGED vars
    BY <2>1, <2>5 DEF vars
  <2> QED BY <2>0, <2>1, <2>2, <2>3, <2>4, <2>5 DEF Next, UserActs
<1> QED BY <1>1, <1>2, PTL DEF Spec, P!Spec

\* What the theorems of RuntimeJobs say of the Runtime's half.
RuntimeOK == P!IInv /\ P!ReviewsAnswered /\ P!AskedOK

LEMMA RuntimeInvariance == Spec => []RuntimeOK
<1>1. P!Spec => [](P!IInv /\ P!ReviewsAnswered)
  BY RuntimeAssumed, P!ReviewInvariance
<1>2. P!Spec => [](P!IInv /\ P!AskedOK)
  BY RuntimeAssumed, P!AskedInvariance
<1> QED BY <1>1, <1>2, RuntimeWithin, PTL DEF RuntimeOK

-----------------------------------------------------------------------------
(* Numbers and events in turn.                                             *)

LEMMA LeastNat ==
  ASSUME NEW S \in SUBSET Nat, S # {}
  PROVE  \E n \in S : \A m \in S : n =< m
<1>1. PICK n \in S : \A m \in S : ~(<<m, n>> \in OpToRel(<, Nat))
  BY NatLessThanWellFounded, WFMin
<1>2. \A m \in S : m \in Nat /\ n \in Nat /\ ~(m < n)
  BY <1>1 DEF OpToRel
<1>3. \A m \in S : n =< m
  BY <1>2, SMT
<1> QED BY <1>3

\* What holds at a and goes from each number to the next holds up to b.
LEMMA Upward ==
  ASSUME NEW a \in Nat, NEW b \in Nat, NEW S, a \in S,
         \A n \in a .. b : n \in S /\ n + 1 =< b => n + 1 \in S
  PROVE  \A n \in a .. b : n \in S
<1> DEFINE Bad == {n \in a .. b : n \notin S}
<1> SUFFICES ASSUME Bad # {} PROVE FALSE
  OBVIOUS
<1>1. Bad \in SUBSET Nat
  OBVIOUS
<1>2. PICK n \in Bad : \A m \in Bad : n =< m
  BY <1>1, LeastNat
<1>3. n \in a .. b /\ n # a /\ n - 1 \in a .. b
  BY <1>2
<1>4. n - 1 \notin Bad
  BY <1>1, <1>2, <1>3, SMT
<1>5. n - 1 \in S /\ (n - 1) + 1 = n /\ (n - 1) + 1 =< b
  BY <1>3, <1>4
<1>6. n \in S
  BY <1>3, <1>5
<1> QED BY <1>2, <1>6

\* The last event in turn: the loop of Project stops, within what was received.
LEMMA TurnIs ==
  ASSUME NEW seq \in Nat, NEW n \in Nat, NEW seen, seen \subseteq 1 .. n, seq =< n
  PROVE  /\ Turn(seq, seen) \in {seq} \cup seen
         /\ Turn(seq, seen) >= seq
<1> DEFINE S == {m \in Nat : m >= seq /\ m + 1 \notin seen}
           T(m) == m >= seq /\ m + 1 \notin seen /\ \A k \in seq + 1 .. m : k \in seen
<1>1. n \in S /\ S \in SUBSET Nat
  BY SMT
<1>2. PICK m \in S : \A k \in S : m =< k
  BY <1>1, LeastNat
<1>3. ASSUME NEW k \in seq + 1 .. m PROVE k \in seen
  <2>1. k - 1 \in Nat /\ k - 1 >= seq /\ k - 1 < m /\ (k - 1) + 1 = k
    BY <1>2, <1>3, SMT
  <2>2. k - 1 \notin S
    BY <1>2, <2>1, SMT
  <2> QED BY <2>1, <2>2
<1>4. m \in {seq} \cup seen
  BY <1>2, <1>3, SMT
<1>5. T(m)
  BY <1>2, <1>3
<1>6. Turn(seq, seen) = CHOOSE k \in {seq} \cup seen : T(k)
  BY DEF Turn
<1> HIDE DEF T
<1>7. /\ Turn(seq, seen) \in {seq} \cup seen /\ T(Turn(seq, seen))
  BY <1>4, <1>5, <1>6
<1> QED BY <1>7 DEF T

-----------------------------------------------------------------------------
(* The fold of Project.                                                    *)

Row0(j) ==
  [status |-> jobStatus[j], versions |-> versions[DocumentOf[j]], fails |-> FALSE]

\* g holds the rows after each event from one sequence number to another.
Folded(j, log, from, to, g) ==
  g = [n \in from .. to |-> IF n = from THEN Row0(j) ELSE ApplyEvent(j, g[n - 1], log[n].kind)]

LEMMA FoldExists ==
  ASSUME NEW j, NEW log, NEW from \in Nat, NEW to \in Nat, from =< to
  PROVE  \E g : Folded(j, log, from, to, g)
<1> DEFINE S == {n \in from .. to : \E g : Folded(j, log, from, n, g)}
<1>1. from \in S
  <2> DEFINE g == [n \in from .. from |-> Row0(j)]
  <2>1. Folded(j, log, from, from, g)
    BY DEF Folded
  <2> QED BY <2>1
<1>2. ASSUME NEW n \in from .. to, n \in S, n + 1 =< to PROVE n + 1 \in S
  <2>1. PICK h : Folded(j, log, from, n, h)
    BY <1>2
  <2> DEFINE g == [m \in from .. n + 1 |->
                     IF m = n + 1 THEN ApplyEvent(j, h[n], log[n + 1].kind) ELSE h[m]]
  <2>2. n \in Nat /\ n >= from
    OBVIOUS
  <2>3. ASSUME NEW m \in from .. n + 1
        PROVE  g[m] = IF m = from THEN Row0(j) ELSE ApplyEvent(j, g[m - 1], log[m].kind)
    <3>1. CASE m = n + 1
      <4>1. m # from /\ m - 1 = n /\ n \in from .. n + 1 /\ n # n + 1
        BY <2>2, <3>1
      <4>2. g[m - 1] = h[n] /\ g[m] = ApplyEvent(j, h[n], log[n + 1].kind)
        BY <3>1, <4>1
      <4> HIDE DEF g
      <4> QED BY <3>1, <4>1, <4>2
    <3>2. CASE m # n + 1
      <4>1. m \in from .. n /\ (m # from => m - 1 \in from .. n /\ m - 1 # n + 1 /\ m - 1 \in from .. n + 1)
        BY <2>2, <2>3, <3>2
      <4>2. g[m] = h[m] /\ (m # from => g[m - 1] = h[m - 1])
        BY <3>2, <4>1
      <4>3. h[m] = IF m = from THEN Row0(j) ELSE ApplyEvent(j, h[m - 1], log[m].kind)
        BY <2>1, <4>1, Zenon DEF Folded
      <4> HIDE DEF g
      <4> QED BY <4>2, <4>3
    <3> QED BY <3>1, <3>2
  <2>4. g = [m \in from .. n + 1 |->
               IF m = from THEN Row0(j) ELSE ApplyEvent(j, g[m - 1], log[m].kind)]
    <3>1. /\ DOMAIN g = from .. n + 1
          /\ g = [m \in from .. n + 1 |-> g[m]]
      BY Zenon
    <3> HIDE DEF g
    <3> QED BY <2>3, <3>1, Zenon
  <2>5. Folded(j, log, from, n + 1, g)
    BY <2>4 DEF Folded
  <2>6. n + 1 \in from .. to
    BY <1>2, <2>2
  <2> QED BY <2>5, <2>6
<1>3. \A n \in from .. to : n \in S
  <2> HIDE DEF S
  <2> QED BY <1>1, <1>2, Upward
<1>4. to \in S
  BY <1>3
<1> QED BY <1>4

\* Applied is the last row of the fold.
LEMMA AppliedFold ==
  ASSUME NEW j, NEW log, NEW from \in Nat, NEW to \in Nat, from =< to
  PROVE  \E g : Folded(j, log, from, to, g) /\ Applied(j, log, from, to) = g[to]
<1> DEFINE h == CHOOSE g : Folded(j, log, from, to, g)
<1>1. Folded(j, log, from, to, h)
  BY FoldExists
<1>2. Applied(j, log, from, to) = h[to]
  BY DEF Applied, Folded, Row0
<1> QED BY <1>1, <1>2

-----------------------------------------------------------------------------
(* What Control's row says of the part of the log that was applied.        *)

\* A resume of j is on its way.
Resuming(j) == \E c \in outbox \ inbox : c.type = "job.resume" /\ c.job = j

\* The end of the log is a review, or the cancellation of what was reviewed.
AtReview(log, i) ==
  /\ log[i].kind = "waiting_review"
  /\ \A k \in DOMAIN log : k > i => log[k].kind = "cancelled"

\* After n events the row has ended exactly when one of them was an end.
EndsSeen(log, n, s) ==
  /\ s \in Ended => \E i \in 1 .. n : log[i].kind = s
  /\ \A i \in 1 .. n : log[i].kind \in Ended => s = log[i].kind

\* What is shown as waiting is: no answer was given, or it has not arrived.
ReviewSeen(j, log, n, s) ==
  s = "waiting_review" => n > 0 /\ AtReview(log, n) /\ ~Resuming(j)

\* The status is what the last event that moves a job has told.
ToldBy(s, log, n) ==
  \E i \in 1 .. n :
    /\ log[i].kind \in DOMAIN Public /\ s = Public[log[i].kind]
    /\ \A k \in i + 1 .. n : log[k].kind \notin DOMAIN Public
\* Or it is what Control assumed when it sent a command.
Asked(j) == \E c \in outbox : c.job = j /\ c.type = "job.cancel"
Explained(j, log, n, s) ==
  \/ s = "cancel_requested" /\ Asked(j)
  \/ s = "queued" /\ \A i \in 1 .. n : log[i].kind \notin DOMAIN Public
  \/ /\ s = "queued" /\ n > 0 /\ log[n].kind = "waiting_review"
     /\ n < Len(log) \/ Resuming(j)
  \/ ToldBy(s, log, n)

StatusOK(j, log, n, s) ==
  EndsSeen(log, n, s) /\ ReviewSeen(j, log, n, s) /\ Explained(j, log, n, s)

\* No review in the log is answered before Control knew of it.
ReviewsShown(log, n) ==
  \A i \in DOMAIN log :
    /\ log[i].kind = "waiting_review"
    /\ i + 1 \in DOMAIN log /\ log[i + 1].kind = "accepted"
    => i =< n

\* The row after n events of the log, when the fold began from sequence[j].
RowGood(j, n, row) ==
  /\ row.status \in JobStatuses \ {"none"}
  /\ StatusOK(j, events[j], n, row.status)
  /\ row.status \in Live => jobStatus[j] \in Live
  /\ jobStatus[j] \in Ended => row.status = jobStatus[j]
  /\ ~row.fails =>
       \/ row.versions = versions[DocumentOf[j]]
       \/ /\ row.versions = Append(versions[DocumentOf[j]], j)
          /\ row.status = "completed"
          /\ frozen[j] = Len(versions[DocumentOf[j]]) + 1

\* The kinds of events that move a job, and what Control makes of them.
LEMMA PublicIs ==
  /\ DOMAIN Public = P!Lifecycle
  /\ \A k \in P!Lifecycle : Public[k] \in JobStatuses \ {"none"}
  /\ \A k \in P!Lifecycle : Public[k] \in Ended \cup {"waiting_review", "cancel_requested"}
                              => Public[k] = k
  /\ \A k \in Ended \cup {"waiting_review", "running", "cancel_requested"} :
       k \in P!Lifecycle /\ Public[k] = k
  /\ Public["accepted"] = "queued" /\ Public["retry_scheduled"] = "queued"
  /\ "content.version.committed" \notin P!Lifecycle
  /\ P!Reports \cap P!Lifecycle = {}
BY DEF Public, P!Lifecycle, P!Reports, P!Active, P!Terminal, JobStatuses, Live, Ended

-----------------------------------------------------------------------------
(* One event of the fold.                                                  *)

\* What the Runtime's invariant says of a log, and Control's of its place in it.
LogKnown(j, log, from) ==
  /\ log \in Seq(P!Event) /\ P!LogSealed(log) /\ P!Answered(log)
  /\ ReviewsShown(log, from)
  /\ \A i \in DOMAIN log : log[i].kind = "cancel_requested" => Asked(j)
  /\ Resuming(j) => \E i \in 1 .. from : AtReview(log, i)

LEMMA EndsStep ==
  ASSUME NEW log \in Seq(P!Event), P!LogSealed(log), NEW n \in Nat, n + 1 \in DOMAIN log,
         NEW s, EndsSeen(log, n, s)
  PROVE  /\ EndsSeen(log, n + 1, ProjectState(s, log[n + 1].kind))
         /\ s \in Ended => ~(log[n + 1].kind \in P!Lifecycle)
<1> SUFFICES ASSUME NEW k, k = log[n + 1].kind, NEW t, t = ProjectState(s, k)
             PROVE  EndsSeen(log, n + 1, t) /\ (s \in Ended => k \notin P!Lifecycle)
  OBVIOUS
<1>1. DOMAIN log = 1 .. Len(log) /\ Len(log) \in Nat
  OBVIOUS
<1>2. \A i \in 1 .. n : log[i].kind \in Ended => k = "content.version.committed"
  BY <1>1 DEF P!LogSealed, P!Terminal, Ended
<1>3. CASE s \in Ended
  <2>1. PICK i \in 1 .. n : log[i].kind = s
    BY <1>3 DEF EndsSeen
  <2>2. k = "content.version.committed"
    BY <1>2, <1>3, <2>1
  <2>3. k \notin P!Lifecycle /\ k \notin Ended
    BY <2>2, PublicIs DEF Ended
  <2>4. t = s
    BY <1>3 DEF ProjectState
  <2>5. \A m \in 1 .. n + 1 : m \in 1 .. n \/ m = n + 1
    BY SMT
  <2>6. i \in 1 .. n + 1
    BY <2>1, SMT
  <2> QED BY <2>1, <2>3, <2>4, <2>5, <2>6 DEF EndsSeen
<1>4. CASE s \notin Ended
  <2>1. \A i \in 1 .. n : log[i].kind \notin Ended
    BY <1>4 DEF EndsSeen
  <2>2. \A m \in 1 .. n + 1 : m \in 1 .. n \/ m = n + 1
    BY SMT
  <2>3. k \in Ended => k \in DOMAIN Public /\ Public[k] = k /\ t = k
    BY <1>4, PublicIs DEF ProjectState, Ended
  <2>4. t \in Ended => t = k
    BY <1>4, PublicIs DEF ProjectState, Ended
  <2>5. n + 1 \in 1 .. n + 1
    BY SMT
  <2> QED BY <1>4, <2>1, <2>2, <2>3, <2>4, <2>5 DEF EndsSeen
<1> QED BY <1>3, <1>4

\* The answer to a review that Control has shown can only be a cancellation.
LEMMA AnswerLate ==
  ASSUME NEW log \in Seq(P!Event), P!LogSealed(log), P!Answered(log), NEW i \in DOMAIN log,
         log[i].kind = "waiting_review", NEW from, ReviewsShown(log, from), ~(i =< from)
  PROVE  AtReview(log, i)
<1>1. DOMAIN log = 1 .. Len(log) /\ Len(log) \in Nat
  OBVIOUS
<1>2. CASE i + 1 \in DOMAIN log
  <2>1. log[i + 1].kind = "cancelled"
    BY <1>2 DEF P!Answered, ReviewsShown
  <2>2. ASSUME NEW k \in DOMAIN log, k > i PROVE log[k].kind = "cancelled"
    <3>1. k = i + 1 \/ i + 1 < k
      BY <1>1, <2>2, SMT
    <3>2. ~(i + 1 < k)
      BY <1>2, <2>1, <2>2 DEF P!LogSealed, P!Terminal
    <3> QED BY <2>1, <3>1, <3>2
  <2> QED BY <2>2 DEF AtReview
<1>3. CASE i + 1 \notin DOMAIN log
  BY <1>1, <1>3, SMT DEF AtReview
<1> QED BY <1>2, <1>3

LEMMA ReviewStep ==
  ASSUME NEW j, NEW log, NEW from \in Nat, LogKnown(j, log, from),
         NEW n \in Nat, from =< n, n + 1 \in DOMAIN log,
         NEW s, ReviewSeen(j, log, n, s)
  PROVE  ReviewSeen(j, log, n + 1, ProjectState(s, log[n + 1].kind))
<1> DEFINE k == log[n + 1].kind
           t == ProjectState(s, k)
<1> SUFFICES ASSUME t = "waiting_review" PROVE AtReview(log, n + 1) /\ ~Resuming(j)
  BY SMT DEF ReviewSeen
<1>1. s = "waiting_review" => k = "cancelled"
  BY SMT DEF ReviewSeen, AtReview
<1>2. k = "waiting_review"
  BY <1>1, PublicIs DEF ProjectState, Ended
<1>3. ~(n + 1 =< from)
  BY SMT
<1>4. AtReview(log, n + 1)
  BY <1>2, <1>3, AnswerLate DEF LogKnown
<1>5. ASSUME NEW i \in 1 .. from, AtReview(log, i) PROVE FALSE
  <2>1. n + 1 > i
    BY <1>5, SMT
  <2> QED BY <1>2, <1>5, <2>1 DEF AtReview
<1> QED BY <1>4, <1>5 DEF LogKnown

LEMMA ExplainStep ==
  ASSUME NEW j, NEW log, NEW from, LogKnown(j, log, from),
         NEW n \in Nat, n + 1 \in DOMAIN log,
         NEW s, EndsSeen(log, n, s), Explained(j, log, n, s)
  PROVE  Explained(j, log, n + 1, ProjectState(s, log[n + 1].kind))
<1> SUFFICES ASSUME NEW k, k = log[n + 1].kind, NEW t, t = ProjectState(s, k)
             PROVE  Explained(j, log, n + 1, t)
  OBVIOUS
<1>d. DOMAIN log = 1 .. Len(log) /\ Len(log) \in Nat
  BY DEF LogKnown
<1>0. \A m \in 1 .. n + 1 : m \in 1 .. n \/ m = n + 1
  BY SMT
<1>1. CASE k \notin DOMAIN Public
  <2>1. t = s
    BY <1>1 DEF ProjectState
  <2>2. ~(n > 0 /\ log[n].kind = "waiting_review")
    <3>1. n > 0 => n \in DOMAIN log
      BY <1>d
    <3> QED BY <1>1, <3>1, PublicIs DEF LogKnown, P!Answered, P!Lifecycle, P!Active, P!Terminal
  <2>3. ToldBy(s, log, n) => ToldBy(s, log, n + 1)
    <3>1. ASSUME NEW i \in 1 .. n, \A m \in i + 1 .. n : log[m].kind \notin DOMAIN Public
          PROVE  i \in 1 .. n + 1 /\ \A m \in i + 1 .. n + 1 : log[m].kind \notin DOMAIN Public
      BY <1>1, <3>1, SMT
    <3> QED BY <3>1 DEF ToldBy
  <2> QED BY <1>0, <1>1, <2>1, <2>2, <2>3 DEF Explained
<1>2. CASE k \in DOMAIN Public /\ t # Public[k]
  <2>1. s \notin Ended
    BY <1>2, EndsStep, PublicIs DEF LogKnown
  <2>2. s = "cancel_requested" /\ t = s
    BY <1>2, <2>1 DEF ProjectState
  <2>3. ASSUME ToldBy(s, log, n) PROVE Asked(j)
    <3>1. PICK i \in 1 .. n : log[i].kind \in DOMAIN Public /\ s = Public[log[i].kind]
      BY <2>3 DEF ToldBy
    <3>2. log[i].kind = "cancel_requested"
      BY <2>2, <3>1, PublicIs
    <3>3. i \in DOMAIN log
      BY <1>d, <3>1
    <3> QED BY <3>2, <3>3 DEF LogKnown
  <2> QED BY <2>2, <2>3 DEF Explained
<1>3. CASE k \in DOMAIN Public /\ t = Public[k]
  <2>1. n + 1 \in 1 .. n + 1 /\ \A m \in (n + 1) + 1 .. n + 1 : FALSE
    BY SMT
  <2>2. ToldBy(t, log, n + 1)
    BY <1>3, <2>1 DEF ToldBy
  <2> QED BY <2>2 DEF Explained
<1> QED BY <1>1, <1>2, <1>3

\* The status after one more event is one Control knows; no event brings a row
\* to life, and none changes an end.
LEMMA StatusStep ==
  ASSUME NEW j, NEW log, NEW from \in Nat, LogKnown(j, log, from),
         NEW n \in Nat, from =< n, n + 1 \in DOMAIN log,
         NEW s \in JobStatuses \ {"none"}, StatusOK(j, log, n, s),
         NEW t, t = ProjectState(s, log[n + 1].kind)
  PROVE  /\ t \in JobStatuses \ {"none"}
         /\ StatusOK(j, log, n + 1, t)
         /\ t \in Live => s \in Live
         /\ s \in Ended => t = s
<1>1. StatusOK(j, log, n + 1, t)
  BY EndsStep, ReviewStep, ExplainStep DEF StatusOK, LogKnown
<1>2. t = s \/ (log[n + 1].kind \in P!Lifecycle /\ t = Public[log[n + 1].kind])
  BY PublicIs DEF ProjectState
<1>3. s \in Ended => t = s
  BY DEF ProjectState
<1>4. s = "waiting_review" => log[n + 1].kind = "cancelled"
  BY SMT DEF StatusOK, ReviewSeen, AtReview
<1>5. t \in Live => s \in Live
  BY <1>2, <1>3, <1>4, PublicIs DEF JobStatuses, Live, Ended
<1> QED BY <1>1, <1>2, <1>3, <1>5, PublicIs

\* What the fold does to the versions, if it does not fail.
LEMMA VersionsStep ==
  ASSUME NEW j \in Jobs, NEW row, NEW k, ~ApplyEvent(j, row, k).fails
  PROVE  /\ ~row.fails
         /\ \/ ApplyEvent(j, row, k).versions = row.versions
            \/ /\ row.status = "completed" /\ ~Committed(j, row.versions)
               /\ frozen[j] = Len(row.versions) + 1
               /\ ApplyEvent(j, row, k).versions = Append(row.versions, j)
<1>1. ApplyEvent(j, row, k).fails = (\/ row.fails
             \/ /\ k = "content.version.committed"
                /\ CommitFails(j, row.status, row.versions))
  BY DEF ApplyEvent
<1>2. /\ ~row.fails
      /\ k = "content.version.committed" => ~CommitFails(j, row.status, row.versions)
  BY <1>1, Zenon
<1>3. ApplyEvent(j, row, k).versions =
        IF k = "content.version.committed" THEN Commit(j, row.status, row.versions)
                                           ELSE row.versions
  BY DEF ApplyEvent
<1> QED BY <1>2, <1>3, Zenon DEF CommitFails, Commit

LEMMA RowStep ==
  ASSUME ControlTypeOK, NEW j \in Jobs, LogKnown(j, events[j], sequence[j]),
         NEW n \in Nat, sequence[j] =< n, n + 1 \in DOMAIN events[j],
         NEW row, RowGood(j, n, row)
  PROVE  RowGood(j, n + 1, ApplyEvent(j, row, events[j][n + 1].kind))
<1> SUFFICES ASSUME NEW k, k = events[j][n + 1].kind, NEW r, r = ApplyEvent(j, row, k)
             PROVE  RowGood(j, n + 1, r)
  OBVIOUS
<1> DEFINE vs == versions[DocumentOf[j]]
<1>1. r.status = ProjectState(row.status, k)
  BY DEF ApplyEvent
<1>2. /\ r.status \in JobStatuses \ {"none"}
      /\ StatusOK(j, events[j], n + 1, r.status)
      /\ r.status \in Live => row.status \in Live
      /\ row.status \in Ended => r.status = row.status
  <2>1. sequence[j] \in Nat
    BY DEF ControlTypeOK
  <2> QED BY <1>1, <2>1, StatusStep DEF RowGood
<1>3. ASSUME ~r.fails
      PROVE  \/ r.versions = vs
             \/ /\ r.versions = Append(vs, j) /\ r.status = "completed"
                /\ frozen[j] = Len(vs) + 1
  <2>0. vs \in Seq(Jobs \cup {Author})
    BY OwnersAssumption DEF ControlTypeOK
  <2>1. /\ ~row.fails
        /\ \/ r.versions = row.versions
           \/ /\ row.status = "completed" /\ ~Committed(j, row.versions)
              /\ frozen[j] = Len(row.versions) + 1
              /\ r.versions = Append(row.versions, j)
    BY <1>3, VersionsStep
  <2>2. CASE row.versions = vs
    BY <1>2, <2>1, <2>2 DEF Ended
  <2>3. CASE row.versions = Append(vs, j) /\ row.status = "completed" /\ frozen[j] = Len(vs) + 1
    <3>1. Committed(j, row.versions)
      <4>1. Len(vs) + 1 \in DOMAIN Append(vs, j) /\ Append(vs, j)[Len(vs) + 1] = j
        BY <2>0
      <4> QED BY <2>3, <4>1 DEF Committed
    <3> QED BY <1>2, <2>1, <2>3, <3>1 DEF Ended
  <2> QED BY <2>1, <2>2, <2>3 DEF RowGood
<1>4. jobStatus[j] \in Ended => r.status = jobStatus[j]
  BY <1>2 DEF RowGood
<1>5. r.status \in Live => jobStatus[j] \in Live
  BY <1>2 DEF RowGood
<1> QED BY <1>2, <1>3, <1>4, <1>5 DEF RowGood

\* The row Project writes.
LEMMA AppliedGood ==
  ASSUME ControlTypeOK, NEW j \in Jobs, LogKnown(j, events[j], sequence[j]),
         NEW last \in Nat, sequence[j] =< last, last =< Len(events[j]),
         RowGood(j, sequence[j], Row0(j))
  PROVE  RowGood(j, last, Applied(j, events[j], sequence[j], last))
<1> DEFINE from == sequence[j]
           log == events[j]
<1>0. from \in Nat /\ DOMAIN log = 1 .. Len(log) /\ Len(log) \in Nat
  BY DEF ControlTypeOK, LogKnown
<1> HIDE DEF from, log
<1>1. PICK g : Folded(j, log, from, last, g) /\ Applied(j, log, from, last) = g[last]
  BY <1>0, AppliedFold DEF from, log
<1>2. \A n \in from .. last :
        g[n] = IF n = from THEN Row0(j) ELSE ApplyEvent(j, g[n - 1], log[n].kind)
  BY <1>1, Zenon DEF Folded
<1> DEFINE S == {n \in from .. last : RowGood(j, n, g[n])}
<1>3. from \in S
  <2>1. from \in from .. last /\ g[from] = Row0(j)
    BY <1>0, <1>2 DEF from
  <2> QED BY <2>1 DEF from
<1>4. ASSUME NEW n \in from .. last, n \in S, n + 1 =< last PROVE n + 1 \in S
  <2>1. /\ n + 1 \in from .. last /\ n + 1 # from /\ (n + 1) - 1 = n
        /\ n \in Nat /\ from =< n /\ n + 1 \in DOMAIN log
    BY <1>0, <1>4 DEF from, log
  <2>2. g[n + 1] = ApplyEvent(j, g[n], log[n + 1].kind)
    BY <1>2, <2>1
  <2>3. RowGood(j, n, g[n])
    BY <1>4
  <2>4. RowGood(j, n + 1, ApplyEvent(j, g[n], log[n + 1].kind))
    BY <2>1, <2>3, RowStep DEF from, log
  <2> QED BY <2>1, <2>2, <2>4
<1>5. \A n \in from .. last : n \in S
  <2> HIDE DEF S
  <2> QED BY <1>0, <1>3, <1>4, Upward
<1>6. last \in from .. last
  BY <1>0 DEF from
<1> QED BY <1>1, <1>5, <1>6 DEF from, log

-----------------------------------------------------------------------------
(* The inductive invariant of Control's half.                              *)

\* What each side has recorded of a command comes from the other's record.
CommandsOK ==
  /\ inbox \subseteq outbox
  /\ \A c \in outbox : jobStatus[c.job] # "none"
  /\ \A j \in Jobs :
       jobStatus[j] # "none" => \E c \in outbox : c.type = "workflow.run" /\ c.job = j
  /\ \A j \in Jobs : status[j] # "none" => jobStatus[j] # "none"
  /\ \A c \in inbox : c.type = "workflow.run" => status[c.job] # "none"
CancelsOK ==
  /\ \A c \in inbox : c.type = "job.cancel" => c.job \in cancellations
  /\ \A j \in cancellations : Asked(j)
  /\ \A j \in Jobs : \A i \in DOMAIN events[j] :
       events[j][i].kind = "cancel_requested" => j \in cancellations

\* Only events of the log arrive.
SeenOK ==
  \A j \in Jobs : received[j] \subseteq DOMAIN events[j] /\ sequence[j] =< Len(events[j])

\* A resume on its way was sent after its review was shown; there is one.
ResumesOK ==
  /\ \A j \in Jobs : Resuming(j) => \E i \in 1 .. sequence[j] : AtReview(events[j], i)
  /\ \A c, d \in outbox \ inbox :
       c.type = "job.resume" /\ d.type = "job.resume" /\ c.job = d.job => c = d
  /\ \A j \in Jobs : ReviewsShown(events[j], sequence[j])

StatusesOK ==
  \A j \in Jobs : jobStatus[j] # "none" => StatusOK(j, events[j], sequence[j], jobStatus[j])

\* What the unique index keeps.
OneLive ==
  \A j, k \in Mutations :
    j # k /\ ProjectOf[j] = ProjectOf[k] => ~(jobStatus[j] \in Live /\ jobStatus[k] \in Live)

VersionsOK ==
  \A j \in Jobs : \A n \in DOMAIN versions[DocumentOf[j]] :
    versions[DocumentOf[j]][n] = j => frozen[j] = n /\ jobStatus[j] = "completed"

ControlOK ==
  /\ ControlTypeOK /\ CommandsOK /\ CancelsOK /\ SeenOK
  /\ ResumesOK /\ StatusesOK /\ OneLive /\ VersionsOK

-----------------------------------------------------------------------------
(* What the end of a log says of the Runtime's row.                        *)

\* What RuntimeOK says of one log.
LEMMA LogIs ==
  ASSUME RuntimeOK, NEW j \in Jobs
  PROVE  /\ events[j] \in Seq(P!Event)
         /\ DOMAIN events[j] = 1 .. Len(events[j]) /\ Len(events[j]) \in Nat
         /\ P!LogTells(events[j], status[j]) /\ P!LogSealed(events[j])
         /\ P!Answered(events[j])
         /\ status[j] \in P!Statuses
         /\ status[j] = "none" => events[j] = <<>>
<1>1. /\ events[j] \in Seq(P!Event)
      /\ P!LogTells(events[j], status[j]) /\ P!LogSealed(events[j])
      /\ P!Answered(events[j]) /\ status[j] \in P!Statuses
  BY DEF RuntimeOK, P!IInv, P!TypeOK, P!LogsOK, P!LogOK, P!ReviewsAnswered
<1>2. status[j] = "none" => events[j] = <<>>
  BY <1>1 DEF P!LogTells, P!Told, P!Lifecycle, P!Active, P!Terminal
<1> QED BY <1>1, <1>2

\* The Runtime's row of a job whose log tells an end.
LEMMA EndTold ==
  ASSUME NEW log \in Seq(P!Event), NEW st, P!LogTells(log, st), P!LogSealed(log),
         NEW i \in DOMAIN log, log[i].kind \in Ended
  PROVE  st = log[i].kind
<1>1. PICK m \in DOMAIN log :
        /\ log[m].kind \in P!Lifecycle /\ P!Told(log[m]) = st
        /\ \A k \in DOMAIN log : k > m => log[k].kind \in P!Reports
  BY DEF P!LogTells
<1>2. ~(i > m) /\ ~(i < m)
  BY <1>1, PublicIs DEF P!LogSealed, P!Terminal, Ended
<1>3. i = m
  BY <1>2
<1> QED BY <1>1, <1>3 DEF P!Told, Ended

\* The Runtime's row of a job at review, or cancelled there.
LEMMA ReviewTold ==
  ASSUME NEW log \in Seq(P!Event), NEW st, P!LogTells(log, st),
         NEW i \in DOMAIN log, AtReview(log, i)
  PROVE  /\ st \in {"waiting_review", "cancelled"}
         /\ st = "waiting_review" => i = Len(log)
<1>0. DOMAIN log = 1 .. Len(log) /\ Len(log) \in Nat
  OBVIOUS
<1>1. PICK m \in DOMAIN log :
        /\ log[m].kind \in P!Lifecycle /\ P!Told(log[m]) = st
        /\ \A k \in DOMAIN log : k > m => log[k].kind \in P!Reports
  BY DEF P!LogTells
<1>2. ~(i > m)
  BY <1>1, PublicIs DEF AtReview
<1>3. CASE i = m
  <2>1. st = "waiting_review"
    BY <1>1, <1>3 DEF AtReview, P!Told
  <2>2. ASSUME i # Len(log) PROVE FALSE
    <3>1. Len(log) \in DOMAIN log /\ Len(log) > i
      BY <1>0, <2>2
    <3> QED BY <1>1, <1>3, <3>1, PublicIs DEF AtReview, Ended
  <2> QED BY <2>1, <2>2
<1>4. CASE m > i
  BY <1>1, <1>4 DEF AtReview, P!Told
<1> QED BY <1>0, <1>2, <1>3, <1>4

\* What the invariant says of a job, as the fold needs it.
LEMMA JobKnown ==
  ASSUME RuntimeOK, ControlOK, NEW j \in Jobs
  PROVE  LogKnown(j, events[j], sequence[j])
BY LogIs DEF LogKnown, ControlOK, ResumesOK, CancelsOK

-----------------------------------------------------------------------------
(* The properties follow.                                                  *)

LEMMA EndsFollow == RuntimeOK /\ ControlOK => EndsAgree
<1> SUFFICES ASSUME RuntimeOK, ControlOK, NEW j \in Jobs, jobStatus[j] \in Ended
             PROVE  status[j] = jobStatus[j]
  BY DEF EndsAgree
<1>1. /\ EndsSeen(events[j], sequence[j], jobStatus[j])
      /\ sequence[j] =< Len(events[j]) /\ sequence[j] \in Nat
  BY DEF ControlOK, StatusesOK, StatusOK, SeenOK, ControlTypeOK, Ended
<1>2. PICK i \in 1 .. sequence[j] : events[j][i].kind = jobStatus[j]
  BY <1>1 DEF EndsSeen
<1>3. i \in DOMAIN events[j]
  BY <1>1, LogIs
<1> QED BY <1>2, <1>3, LogIs, EndTold

\* What the Runtime works on, Control shows as live.
LEMMA LiveFollows ==
  ASSUME RuntimeOK, ControlOK, NEW j \in Jobs,
         status[j] \in {"accepted", "running", "cancel_requested"}
  PROVE  jobStatus[j] \in Live
<1>1. jobStatus[j] \notin Ended
  BY EndsFollow DEF EndsAgree, Ended
<1>2. jobStatus[j] # "none"
  BY DEF ControlOK, CommandsOK
<1>3. ASSUME jobStatus[j] = "waiting_review" PROVE FALSE
  <2>1. sequence[j] > 0 /\ AtReview(events[j], sequence[j])
    BY <1>2, <1>3 DEF ControlOK, StatusesOK, StatusOK, ReviewSeen
  <2>2. sequence[j] \in DOMAIN events[j]
    BY <2>1, LogIs DEF ControlOK, SeenOK, ControlTypeOK
  <2>3. events[j] \in Seq(P!Event) /\ P!LogTells(events[j], status[j])
    BY LogIs
  <2>4. status[j] \in {"waiting_review", "cancelled"}
    BY <2>1, <2>2, <2>3, ReviewTold
  <2> QED BY <2>4
<1>4. jobStatus[j] \in JobStatuses
  BY DEF ControlOK, ControlTypeOK
<1> QED BY <1>1, <1>2, <1>3, <1>4 DEF JobStatuses

LEMMA ViewsFollow == RuntimeOK /\ ControlOK => ViewsAgree
<1> SUFFICES ASSUME RuntimeOK, ControlOK, NEW j \in Jobs, jobStatus[j] # "none",
                    ~InFlight(j), sequence[j] = Len(events[j])
             PROVE  jobStatus[j] = Public[status[j]]
  BY DEF ViewsAgree
<1> DEFINE log == events[j]
           n == sequence[j]
<1>0. /\ log \in Seq(P!Event) /\ n \in Nat /\ DOMAIN log = 1 .. n
      /\ StatusOK(j, log, n, jobStatus[j])
  BY LogIs DEF ControlOK, StatusesOK, ControlTypeOK
<1>1. status[j] # "none"
  BY DEF ControlOK, CommandsOK, InFlight
<1>2. PICK m \in DOMAIN log :
        /\ log[m].kind \in P!Lifecycle /\ P!Told(log[m]) = status[j]
        /\ \A k \in DOMAIN log : k > m => log[k].kind \in P!Reports
  BY <1>1, LogIs DEF P!LogTells
<1>3. Public[log[m].kind] = Public[status[j]] /\ log[m].kind \in DOMAIN Public
  BY <1>2, PublicIs DEF P!Told
<1>4. CASE jobStatus[j] = "cancel_requested" /\ Asked(j)
  <2>1. j \in cancellations
    BY <1>4 DEF ControlOK, CancelsOK, Asked, InFlight
  <2>2. status[j] \in {"none", "cancel_requested"} \cup P!Terminal
    BY <2>1 DEF RuntimeOK, P!AskedOK, P!CancelSeen
  <2>3. ASSUME status[j] \in Ended PROVE FALSE
    <3>1. log[m].kind \in Ended
      BY <1>2, <2>3 DEF P!Told, Ended
    <3>2. jobStatus[j] = log[m].kind
      BY <1>0, <1>2, <3>1 DEF StatusOK, EndsSeen
    <3> QED BY <1>4, <3>1, <3>2 DEF Ended
  <2> QED BY <1>1, <1>4, <2>2, <2>3, PublicIs DEF P!Terminal, Ended
<1>5. CASE \A i \in 1 .. n : log[i].kind \notin DOMAIN Public
  BY <1>0, <1>2, <1>3, <1>5
<1>6. ASSUME n > 0, log[n].kind = "waiting_review", n < Len(log) \/ Resuming(j)
      PROVE  FALSE
  <2>1. PICK c \in outbox \ inbox : c.type = "job.resume" /\ c.job = j
    BY <1>0, <1>6 DEF Resuming
  <2>2. n \in DOMAIN log
    BY <1>0, <1>6
  <2>3. m = n
    <3>1. ~(n > m)
      BY <1>2, <1>6, <2>2, PublicIs
    <3> QED BY <1>0, <3>1
  <2>4. status[j] = "waiting_review"
    BY <1>2, <1>6, <2>3 DEF P!Told
  <2> QED BY <2>1, <2>4 DEF InFlight
<1>7. CASE ToldBy(jobStatus[j], log, n)
  <2>1. PICK i \in 1 .. n :
          /\ log[i].kind \in DOMAIN Public /\ jobStatus[j] = Public[log[i].kind]
          /\ \A k \in i + 1 .. n : log[k].kind \notin DOMAIN Public
    BY <1>7 DEF ToldBy
  <2>2. ~(i > m)
    BY <1>0, <1>2, <2>1, PublicIs
  <2>3. ~(m > i)
    BY <1>0, <1>3, <2>1, SMT
  <2>4. i = m
    BY <1>0, <2>2, <2>3
  <2> QED BY <1>3, <2>1, <2>4
<1> QED BY <1>0, <1>4, <1>5, <1>6, <1>7 DEF StatusOK, Explained

LEMMA ReviewsFollow == RuntimeOK /\ ControlOK => ResumeFindsReview
<1> SUFFICES ASSUME RuntimeOK, ControlOK, NEW c \in outbox \ inbox, c.type = "job.resume"
             PROVE  status[c.job] \in {"waiting_review", "cancelled"}
  BY DEF ResumeFindsReview
<1>1. c.job \in Jobs
  BY RuntimeAssumption DEF ControlOK, ControlTypeOK
<1>2. PICK i \in 1 .. sequence[c.job] : AtReview(events[c.job], i)
  BY <1>1 DEF ControlOK, ResumesOK, Resuming
<1>3. i \in DOMAIN events[c.job]
  BY <1>1, <1>2, LogIs DEF ControlOK, SeenOK, ControlTypeOK
<1> QED BY <1>1, <1>2, <1>3, LogIs, ReviewTold

LEMMA MutationsFollow == RuntimeOK /\ ControlOK => OneMutation
BY LiveFollows, OwnersAssumption DEF OneMutation, ControlOK, OneLive

LEMMA VersionsFollow == RuntimeOK /\ ControlOK => VersionsAsFrozen
<1> SUFFICES ASSUME RuntimeOK, ControlOK, NEW j \in Jobs,
                    NEW n \in DOMAIN versions[DocumentOf[j]], versions[DocumentOf[j]][n] = j
             PROVE  frozen[j] = n /\ jobStatus[j] = "completed" /\ status[j] = "completed"
  BY DEF VersionsAsFrozen
<1>1. frozen[j] = n /\ jobStatus[j] = "completed"
  BY DEF ControlOK, VersionsOK
<1> QED BY <1>1, EndsFollow DEF EndsAgree, Ended

-----------------------------------------------------------------------------
(* Control's own steps.                                                    *)

\* Commands are well formed.
LEMMA CommandIs == ASSUME NEW c \in Commands PROVE c.job \in Jobs
BY RuntimeAssumption

\* A job whose log, row and commands do not change.
LEMMA StatusStays ==
  ASSUME NEW j, StatusOK(j, events[j], sequence[j], jobStatus[j]),
         Asked(j) => Asked(j)', Resuming(j)' <=> Resuming(j),
         events'[j] = events[j], sequence'[j] = sequence[j], jobStatus'[j] = jobStatus[j]
  PROVE  StatusOK(j, events[j], sequence[j], jobStatus[j])'
BY DEF StatusOK, ReviewSeen, Explained

\* What every submission keeps.
LEMMA SentKeeps ==
  ASSUME RuntimeOK, ControlOK, NEW c \in Commands, Send(c), NEW s \in Live,
         jobStatus' = [jobStatus EXCEPT ![c.job] = s], IndexFree(c.job),
         UNCHANGED <<sequence, received, versions, runtimeVars>>,
         frozen' \in [Jobs -> Nat],
         \A j \in Jobs : jobStatus[j] # "none" => frozen'[j] = frozen[j],
         jobStatus[c.job] \notin Ended,
         jobStatus[c.job] = "none" => c.type = "workflow.run",
         c.type = "job.resume" => jobStatus[c.job] = "waiting_review",
         StatusOK(c.job, events[c.job], sequence[c.job], s)'
  PROVE  ControlOK'
<1>0. /\ c.job \in Jobs /\ jobStatus \in [Jobs -> JobStatuses]
      /\ jobStatus'[c.job] = s /\ s \in JobStatuses /\ s # "none"
      /\ \A j \in Jobs : j # c.job => jobStatus'[j] = jobStatus[j]
      /\ outbox' = outbox \cup {c} /\ c \notin outbox /\ inbox \subseteq outbox
      /\ UNCHANGED <<inbox, events, status, cancellations>>
  BY CommandIs DEF ControlOK, ControlTypeOK, CommandsOK, Send, runtimeVars, Live, JobStatuses
<1>1. ControlTypeOK'
  BY <1>0 DEF ControlOK, ControlTypeOK
<1>2. CommandsOK'
  <2>1. \A j \in Jobs : jobStatus'[j] # "none" =>
          \E d \in outbox' : d.type = "workflow.run" /\ d.job = j
    BY <1>0 DEF ControlOK, CommandsOK
  <2>2. \A d \in outbox' : jobStatus'[d.job] # "none"
    <3>1. \A d \in outbox : d.job \in Jobs
      BY CommandIs DEF ControlOK, ControlTypeOK
    <3> QED BY <1>0, <3>1 DEF ControlOK, CommandsOK
  <2> QED BY <1>0, <2>1, <2>2 DEF ControlOK, CommandsOK
<1>3. \A j \in Jobs : (Asked(j) => Asked(j)') /\ (j # c.job => (Resuming(j)' <=> Resuming(j)))
  BY <1>0 DEF Asked, Resuming
<1>4. CancelsOK'
  <2>1. \A j \in cancellations : j \in Jobs
    BY DEF RuntimeOK, P!IInv, P!TypeOK
  <2> QED BY <1>0, <1>3, <2>1 DEF ControlOK, CancelsOK
<1>5. SeenOK'
  BY <1>0 DEF ControlOK, SeenOK
<1>6. ResumesOK'
  <2>1. CASE c.type = "job.resume"
    <3>1. /\ sequence[c.job] > 0 /\ AtReview(events[c.job], sequence[c.job])
          /\ ~Resuming(c.job)
      BY <1>0, <2>1 DEF ControlOK, StatusesOK, StatusOK, ReviewSeen
    <3>2. sequence[c.job] \in 1 .. sequence[c.job]
      BY <1>0, <3>1 DEF ControlOK, ControlTypeOK
    <3>3. \A j \in Jobs : Resuming(j)' => \E i \in 1 .. sequence'[j] : AtReview(events'[j], i)
      BY <1>0, <1>3, <3>1, <3>2 DEF ControlOK, ResumesOK
    <3>4. \A d \in outbox \ inbox : d.type = "job.resume" => d.job # c.job
      BY <3>1 DEF Resuming
    <3>5. \A d, e \in outbox' \ inbox' :
            d.type = "job.resume" /\ e.type = "job.resume" /\ d.job = e.job => d = e
      BY <1>0, <3>4 DEF ControlOK, ResumesOK
    <3> QED BY <1>0, <3>3, <3>5 DEF ControlOK, ResumesOK
  <2>2. CASE c.type # "job.resume"
    <3>1. \A j \in Jobs : Resuming(j)' <=> Resuming(j)
      BY <1>0, <2>2 DEF Resuming
    <3>2. \A d, e \in outbox' \ inbox' :
            d.type = "job.resume" /\ e.type = "job.resume" /\ d.job = e.job => d = e
      BY <1>0, <2>2 DEF ControlOK, ResumesOK
    <3> QED BY <1>0, <3>1, <3>2 DEF ControlOK, ResumesOK
  <2> QED BY <2>1, <2>2
<1>7. StatusesOK'
  <2>1. ASSUME NEW j \in Jobs, j # c.job, jobStatus'[j] # "none"
        PROVE  StatusOK(j, events[j], sequence[j], jobStatus[j])'
    BY <1>0, <1>3, <2>1, StatusStays DEF ControlOK, StatusesOK
  <2>2. StatusOK(c.job, events[c.job], sequence[c.job], jobStatus[c.job])'
    BY <1>0 DEF StatusOK, ReviewSeen, Explained
  <2> QED BY <1>0, <2>1, <2>2 DEF StatusesOK
<1>8. OneLive'
  <2> SUFFICES ASSUME NEW j \in Mutations, NEW k \in Mutations, j # k,
                      ProjectOf[j] = ProjectOf[k], jobStatus'[j] \in Live, jobStatus'[k] \in Live
               PROVE  FALSE
    BY DEF OneLive
  <2>0. j \in Jobs /\ k \in Jobs
    BY OwnersAssumption
  <2>1. CASE j # c.job /\ k # c.job
    BY <1>0, <2>0, <2>1 DEF ControlOK, OneLive
  <2>2. CASE j = c.job
    BY <1>0, <2>0, <2>2 DEF IndexFree
  <2>3. CASE k = c.job
    BY <1>0, <2>0, <2>3 DEF IndexFree
  <2> QED BY <2>1, <2>2, <2>3
<1>9. VersionsOK'
  <2> SUFFICES ASSUME NEW j \in Jobs, NEW n \in DOMAIN versions[DocumentOf[j]],
                      versions[DocumentOf[j]][n] = j
               PROVE  frozen'[j] = n /\ jobStatus'[j] = "completed"
    BY DEF VersionsOK
  <2>1. frozen[j] = n /\ jobStatus[j] = "completed"
    BY DEF ControlOK, VersionsOK
  <2> QED BY <1>0, <2>1 DEF Ended
<1> QED BY <1>1, <1>2, <1>4, <1>5, <1>6, <1>7, <1>8, <1>9 DEF ControlOK

\* A row that had not ended, once it has been asked to stop or to go on.
LEMMA EndsKept ==
  ASSUME NEW log, NEW n, NEW s, EndsSeen(log, n, s), s \notin Ended, NEW t, t \notin Ended
  PROVE  EndsSeen(log, n, t)
BY DEF EndsSeen

LEMMA SubmitKeeps ==
  ASSUME RuntimeOK, ControlOK, Submit, UNCHANGED runtimeVars
  PROVE  ControlOK'
<1>0. /\ frozen \in [Jobs -> Nat] /\ sequence \in [Jobs -> Nat]
      /\ jobStatus \in [Jobs -> JobStatuses] /\ versions \in [Documents -> Seq(Jobs \cup {Author})]
      /\ UNCHANGED <<events, inbox>> /\ inbox \subseteq outbox
  BY DEF ControlOK, CommandsOK, ControlTypeOK, runtimeVars
<1>1. ASSUME NEW c \in Commands, c.type = "workflow.run", Enqueue(c) PROVE ControlOK'
  <2>1. c.job \in Jobs /\ jobStatus[c.job] = "none"
    BY <1>1, CommandIs DEF Enqueue
  <2>2. events[c.job] = <<>> /\ sequence[c.job] = 0
    BY <1>0, <2>1, LogIs DEF ControlOK, CommandsOK, SeenOK
  <2>3. /\ frozen' \in [Jobs -> Nat]
        /\ \A j \in Jobs : jobStatus[j] # "none" => frozen'[j] = frozen[j]
    BY <1>0, <1>1, <2>1, OwnersAssumption DEF Enqueue, NextVersion
  <2>4. "queued" \in Live /\ "queued" \notin Ended /\ "none" \notin Ended
    BY DEF Live, Ended
  <2>5. StatusOK(c.job, events[c.job], sequence[c.job], "queued")'
    <3>1. sequence'[c.job] = 0 /\ events'[c.job] = <<>>
      BY <1>0, <1>1, <2>2 DEF Enqueue
    <3>2. EndsSeen(<<>>, 0, "queued")
      BY <2>4 DEF EndsSeen
    <3> QED BY <3>1, <3>2 DEF StatusOK, ReviewSeen, Explained
  <2> QED BY <1>1, <2>1, <2>3, <2>4, <2>5, SentKeeps DEF Enqueue
<1>2. ASSUME NEW c \in Commands, SubmitCancel(c) PROVE ControlOK'
  <2>1. c.job \in Jobs /\ jobStatus[c.job] # "none" /\ jobStatus[c.job] \notin Ended
    BY <1>2, CommandIs DEF SubmitCancel, Stoppable
  <2>2. "cancel_requested" \in Live /\ "cancel_requested" \notin Ended
    BY DEF Live, Ended
  <2>3. StatusOK(c.job, events[c.job], sequence[c.job], "cancel_requested")'
    <3>1. EndsSeen(events[c.job], sequence[c.job], "cancel_requested")
      BY <2>1, <2>2, EndsKept DEF ControlOK, StatusesOK, StatusOK
    <3>2. Asked(c.job)'
      BY <1>2 DEF SubmitCancel, Send, Asked
    <3>3. sequence' = sequence /\ events' = events
      BY <1>0, <1>2 DEF SubmitCancel
    <3> QED BY <3>1, <3>2, <3>3 DEF StatusOK, ReviewSeen, Explained
  <2> QED BY <1>0, <1>2, <2>1, <2>2, <2>3, SentKeeps DEF SubmitCancel, StoppedStatus
<1>3. ASSUME NEW c \in Commands, SubmitResume(c) PROVE ControlOK'
  <2>1. c.job \in Jobs /\ jobStatus[c.job] = "waiting_review"
    BY <1>3, CommandIs DEF SubmitResume, Resumable
  <2>2. "queued" \in Live /\ "queued" \notin Ended /\ "waiting_review" \notin Ended
    BY DEF Live, Ended
  <2>3. StatusOK(c.job, events[c.job], sequence[c.job], "queued")'
    <3>1. /\ EndsSeen(events[c.job], sequence[c.job], "waiting_review")
          /\ sequence[c.job] > 0 /\ events[c.job][sequence[c.job]].kind = "waiting_review"
      BY <2>1 DEF ControlOK, StatusesOK, StatusOK, ReviewSeen, AtReview
    <3>2. EndsSeen(events[c.job], sequence[c.job], "queued")
      BY <2>2, <3>1, EndsKept
    <3>3. Resuming(c.job)'
      BY <1>0, <1>3 DEF SubmitResume, Send, Resuming
    <3>4. sequence' = sequence /\ events' = events
      BY <1>0, <1>3 DEF SubmitResume
    <3> QED BY <3>1, <3>2, <3>3, <3>4 DEF StatusOK, ReviewSeen, Explained
  <2> QED BY <1>0, <1>3, <2>1, <2>2, <2>3, SentKeeps DEF SubmitResume
<1> QED BY <1>1, <1>2, <1>3 DEF Submit, SubmitMutation, SubmitGeneration

LEMMA EditKeeps ==
  ASSUME RuntimeOK, ControlOK, NEW d \in Documents, EditDocument(d), UNCHANGED runtimeVars
  PROVE  ControlOK'
<1>0. /\ versions \in [Documents -> Seq(Jobs \cup {Author})]
      /\ versions' = [versions EXCEPT ![d] = Append(@, Author)]
      /\ UNCHANGED <<outbox, jobStatus, sequence, received, frozen>>
      /\ UNCHANGED <<inbox, events, status, cancellations>>
  BY DEF ControlOK, ControlTypeOK, EditDocument, runtimeVars
<1>1. ControlTypeOK'
  BY <1>0 DEF ControlOK, ControlTypeOK
<1>2. /\ \A j \in Jobs : (Asked(j)' <=> Asked(j)) /\ (Resuming(j)' <=> Resuming(j))
      /\ \A j \in cancellations : Asked(j)' <=> Asked(j)
  BY <1>0 DEF Asked, Resuming
<1>3. CommandsOK' /\ CancelsOK' /\ SeenOK' /\ ResumesOK' /\ OneLive'
  BY <1>0, <1>2 DEF ControlOK, CommandsOK, CancelsOK, SeenOK, ResumesOK, OneLive
<1>4. StatusesOK'
  BY <1>0, <1>2, StatusStays DEF ControlOK, StatusesOK
<1>5. VersionsOK'
  <2> SUFFICES ASSUME NEW j \in Jobs, NEW n \in DOMAIN versions'[DocumentOf[j]],
                      versions'[DocumentOf[j]][n] = j
               PROVE  frozen[j] = n /\ jobStatus[j] = "completed"
    BY <1>0 DEF VersionsOK
  <2>0. versions[DocumentOf[j]] \in Seq(Jobs \cup {Author}) /\ DocumentOf[j] \in Documents
    BY <1>0, OwnersAssumption
  <2>1. n \in DOMAIN versions[DocumentOf[j]] /\ versions[DocumentOf[j]][n] = j
    <3>1. CASE DocumentOf[j] # d
      BY <1>0, <2>0, <3>1
    <3>2. CASE DocumentOf[j] = d
      <4>1. versions'[d] = Append(versions[d], Author)
        BY <1>0
      <4> QED BY <2>0, <3>2, <4>1, OwnersAssumption
    <3> QED BY <3>1, <3>2
  <2> QED BY <2>1 DEF ControlOK, VersionsOK
<1> QED BY <1>1, <1>3, <1>4, <1>5 DEF ControlOK

-----------------------------------------------------------------------------
(* The Runtime's steps.                                                    *)

\* What a step of the Runtime does to the log of a job, as Control's half of
\* the invariant sees it.
Appends(j, kinds) == \E e \in P!Event : e.kind \in kinds /\ events'[j] = Append(events[j], e)
Took(j) ==
  \/ /\ Resuming(j) => Resuming(j)'
     /\ \/ P!Untouched(j)
        \/ P!Moved(j)
        \/ /\ status[j] = "none" /\ jobStatus[j] # "none" /\ status'[j] # "none"
           /\ Appends(j, {"accepted", "cancelled"})
        \/ /\ status[j] \in {"accepted", "waiting_review"} /\ status'[j] # "none"
           /\ Appends(j, {"cancelled"})
        \/ /\ status[j] = "running" /\ j \in cancellations' /\ status'[j] # "none"
           /\ Appends(j, {"cancel_requested"})
  \/ /\ status[j] = "waiting_review" /\ status'[j] # "none"
     /\ Resuming(j) /\ ~Resuming(j)' /\ Appends(j, {"accepted"})

LEMMA GrowOnce ==
  ASSUME NEW log \in Seq(P!Event), NEW e \in P!Event
  PROVE  LET new == Append(log, e) IN
         /\ new \in Seq(P!Event) /\ Len(new) = Len(log) + 1 /\ Len(log) \in Nat
         /\ DOMAIN new = 1 .. Len(new) /\ DOMAIN log = 1 .. Len(log)
         /\ \A i \in DOMAIN log : i \in DOMAIN new /\ new[i] = log[i]
         /\ new[Len(new)] = e
         /\ \A i \in DOMAIN new : i \in DOMAIN log \/ i = Len(new)
OBVIOUS

\* A log only grows.
LEMMA Grows ==
  ASSUME RuntimeOK, NEW j \in Jobs, Took(j)
  PROVE  /\ events'[j] \in Seq(P!Event) /\ Len(events'[j]) >= Len(events[j])
         /\ DOMAIN events'[j] = 1 .. Len(events'[j]) /\ Len(events'[j]) \in Nat
         /\ \A i \in DOMAIN events[j] :
              i \in DOMAIN events'[j] /\ events'[j][i] = events[j][i]
<1>0. events[j] \in Seq(P!Event)
  BY LogIs
<1>1. CASE P!Untouched(j)
  BY <1>0, <1>1, LogIs DEF P!Untouched
<1>2. ASSUME NEW e \in P!Event, events'[j] = Append(events[j], e)
      PROVE  /\ events'[j] \in Seq(P!Event) /\ Len(events'[j]) >= Len(events[j])
             /\ DOMAIN events'[j] = 1 .. Len(events'[j]) /\ Len(events'[j]) \in Nat
             /\ \A i \in DOMAIN events[j] :
                  i \in DOMAIN events'[j] /\ events'[j][i] = events[j][i]
  BY <1>0, <1>2, GrowOnce
<1>3. ASSUME NEW e \in P!Event, NEW d \in P!Event,
             events'[j] = Append(Append(events[j], e), d)
      PROVE  /\ events'[j] \in Seq(P!Event) /\ Len(events'[j]) >= Len(events[j])
             /\ DOMAIN events'[j] = 1 .. Len(events'[j]) /\ Len(events'[j]) \in Nat
             /\ \A i \in DOMAIN events[j] :
                  i \in DOMAIN events'[j] /\ events'[j][i] = events[j][i]
  <2> DEFINE mid == Append(events[j], e)
  <2>1. /\ mid \in Seq(P!Event) /\ Len(mid) = Len(events[j]) + 1 /\ Len(events[j]) \in Nat
        /\ \A i \in DOMAIN events[j] : i \in DOMAIN mid /\ mid[i] = events[j][i]
    BY <1>0, GrowOnce
  <2>2. events'[j] = Append(mid, d)
    BY <1>3
  <2> HIDE DEF mid
  <2>3. /\ events'[j] \in Seq(P!Event) /\ Len(events'[j]) = Len(mid) + 1
        /\ DOMAIN events'[j] = 1 .. Len(events'[j])
        /\ \A i \in DOMAIN mid : i \in DOMAIN events'[j] /\ events'[j][i] = mid[i]
    BY <2>1, <2>2, GrowOnce
  <2> QED BY <2>1, <2>3
<1> QED BY <1>1, <1>2, <1>3 DEF Took, Appends, P!Moved

\* A review stays the end of the log until its answer.
LEMMA AtReviewStays ==
  ASSUME RuntimeOK, NEW j \in Jobs, Took(j), NEW i \in DOMAIN events[j],
         AtReview(events[j], i), Resuming(j) => Resuming(j)'
  PROVE  AtReview(events'[j], i)
<1>0. /\ events[j] \in Seq(P!Event)
      /\ status[j] \in {"waiting_review", "cancelled"}
  <2>1. events[j] \in Seq(P!Event) /\ P!LogTells(events[j], status[j])
    BY LogIs
  <2> QED BY <2>1, ReviewTold
<1>1. P!Untouched(j) \/ Appends(j, {"cancelled"})
  BY <1>0 DEF Took, P!Moved, P!Leased
<1>2. CASE Appends(j, {"cancelled"})
  <2>1. PICK e \in P!Event : e.kind = "cancelled" /\ events'[j] = Append(events[j], e)
    BY <1>2 DEF Appends
  <2> QED BY <1>0, <2>1, GrowOnce DEF AtReview
<1>3. CASE P!Untouched(j)
  BY <1>3 DEF P!Untouched
<1> QED BY <1>1, <1>2, <1>3

LEMMA ShownAppend ==
  ASSUME NEW log \in Seq(P!Event), NEW n, ReviewsShown(log, n), NEW e \in P!Event,
         e.kind = "accepted" => Len(log) =< n
  PROVE  ReviewsShown(Append(log, e), n)
<1> SUFFICES ASSUME NEW new, new = Append(log, e), NEW i \in DOMAIN new,
                    new[i].kind = "waiting_review", i + 1 \in DOMAIN new,
                    new[i + 1].kind = "accepted"
             PROVE  i =< n
  BY DEF ReviewsShown
<1>1. CASE i + 1 \in DOMAIN log
  <2>1. i \in DOMAIN log
    BY <1>1
  <2> QED BY <1>1, <2>1, GrowOnce DEF ReviewsShown
<1>2. CASE i + 1 \notin DOMAIN log
  <2>1. i = Len(log) /\ new[i + 1] = e
    BY <1>2, GrowOnce
  <2> QED BY <2>1
<1> QED BY <1>1, <1>2

LEMMA ShownStays ==
  ASSUME RuntimeOK, ControlOK, NEW j \in Jobs, Took(j)
  PROVE  ReviewsShown(events'[j], sequence[j])
<1>0. /\ events[j] \in Seq(P!Event) /\ sequence[j] \in Nat
      /\ ReviewsShown(events[j], sequence[j])
  BY LogIs DEF ControlOK, ControlTypeOK, ResumesOK
<1>1. CASE P!Untouched(j)
  BY <1>0, <1>1 DEF P!Untouched
<1>2. ASSUME NEW e \in P!Event, e.kind # "accepted", events'[j] = Append(events[j], e)
      PROVE  ReviewsShown(events'[j], sequence[j])
  BY <1>0, <1>2, ShownAppend
<1>3. ASSUME NEW e \in P!Event, e.kind # "accepted", NEW d \in P!Event, d.kind # "accepted",
             events'[j] = Append(Append(events[j], e), d)
      PROVE  ReviewsShown(events'[j], sequence[j])
  <2> DEFINE mid == Append(events[j], e)
  <2>1. mid \in Seq(P!Event) /\ ReviewsShown(mid, sequence[j]) /\ events'[j] = Append(mid, d)
    BY <1>0, <1>3, ShownAppend
  <2> HIDE DEF mid
  <2> QED BY <1>3, <2>1, ShownAppend
<1>4. ASSUME status[j] = "none", Appends(j, {"accepted", "cancelled"})
      PROVE  ReviewsShown(events'[j], sequence[j])
  <2>1. Len(events[j]) = 0
    BY <1>4, LogIs
  <2> QED BY <1>0, <1>4, <2>1, ShownAppend DEF Appends
<1>5. ASSUME status[j] = "waiting_review", Resuming(j), Appends(j, {"accepted"})
      PROVE  ReviewsShown(events'[j], sequence[j])
  <2>1. PICK i \in 1 .. sequence[j] : AtReview(events[j], i)
    BY <1>5 DEF ControlOK, ResumesOK
  <2>2. i \in DOMAIN events[j]
    BY <1>0, <2>1, LogIs DEF ControlOK, SeenOK
  <2>3. Len(events[j]) =< sequence[j]
    <3>1. P!LogTells(events[j], status[j])
      BY LogIs
    <3>2. i = Len(events[j])
      BY <1>0, <1>5, <2>1, <2>2, <3>1, ReviewTold
    <3> QED BY <2>1, <3>2
  <2> QED BY <1>0, <1>5, <2>3, ShownAppend DEF Appends
<1>6. Appends(j, {"cancelled"}) \/ Appends(j, {"cancel_requested"})
        => ReviewsShown(events'[j], sequence[j])
  BY <1>2 DEF Appends
<1>7. P!Moved(j) => ReviewsShown(events'[j], sequence[j])
  BY <1>2, <1>3 DEF P!Moved, P!Answers
<1> QED BY <1>1, <1>4, <1>5, <1>6, <1>7 DEF Took

\* Only an asked cancellation is asked of a worker.
LEMMA AskedStays ==
  ASSUME RuntimeOK, ControlOK, NEW j \in Jobs, Took(j), cancellations \subseteq cancellations',
         NEW i \in DOMAIN events'[j], events'[j][i].kind = "cancel_requested"
  PROVE  j \in cancellations'
<1>0. /\ events[j] \in Seq(P!Event)
      /\ (\E k \in DOMAIN events[j] : events[j][k].kind = "cancel_requested") => j \in cancellations'
  BY LogIs DEF ControlOK, CancelsOK
<1>1. CASE P!Untouched(j)
  BY <1>0, <1>1 DEF P!Untouched
<1>2. ASSUME NEW e \in P!Event, e.kind # "cancel_requested", events'[j] = Append(events[j], e)
      PROVE  j \in cancellations'
  BY <1>0, <1>2, GrowOnce
<1>3. ASSUME NEW e \in P!Event, e.kind # "cancel_requested",
             NEW d \in P!Event, d.kind # "cancel_requested",
             events'[j] = Append(Append(events[j], e), d)
      PROVE  j \in cancellations'
  <2> DEFINE mid == Append(events[j], e)
  <2>1. /\ mid \in Seq(P!Event) /\ events'[j] = Append(mid, d)
        /\ \A k \in DOMAIN mid : mid[k].kind = "cancel_requested" =>
             \E m \in DOMAIN events[j] : events[j][m].kind = "cancel_requested"
    BY <1>0, <1>3, GrowOnce
  <2> HIDE DEF mid
  <2> QED BY <1>0, <1>3, <2>1, GrowOnce
<1> QED BY <1>1, <1>2, <1>3 DEF Took, Appends, P!Moved, P!Answers

\* Whatever the Runtime does, Control's half of the invariant holds of the new
\* logs.
LEMMA RuntimeKeeps ==
  ASSUME RuntimeOK, ControlOK, UNCHANGED controlVars, \A j \in Jobs : Took(j),
         inbox \subseteq inbox', inbox' \subseteq outbox, cancellations \subseteq cancellations',
         cancellations' \subseteq Jobs, \A j \in cancellations' : Asked(j),
         \A c \in inbox' : c.type = "workflow.run" => status'[c.job] # "none",
         \A c \in inbox' : c.type = "job.cancel" => c.job \in cancellations'
  PROVE  ControlOK'
<1>0. /\ UNCHANGED <<outbox, jobStatus, sequence, received, frozen, versions>>
      /\ sequence \in [Jobs -> Nat]
  BY DEF controlVars, ControlOK, ControlTypeOK
<1>1. ControlTypeOK' /\ OneLive' /\ VersionsOK'
  BY <1>0 DEF ControlOK, ControlTypeOK, OneLive, VersionsOK
<1>2. \A j : Asked(j)' <=> Asked(j)
  BY <1>0 DEF Asked
<1>3. \A j : Resuming(j)' => Resuming(j)
  BY <1>0 DEF Resuming
<1>4. CommandsOK'
  <2>1. ASSUME NEW j \in Jobs, status'[j] # "none" PROVE jobStatus[j] # "none"
    <3>1. P!Untouched(j) \/ P!Moved(j) \/ jobStatus[j] # "none" \/ status[j] # "none"
      BY DEF Took
    <3>2. status[j] # "none" \/ jobStatus[j] # "none"
      BY <2>1, <3>1 DEF P!Untouched, P!Moved, P!Leased
    <3> QED BY <3>2 DEF ControlOK, CommandsOK
  <2> QED BY <1>0, <2>1 DEF ControlOK, CommandsOK
<1>5. CancelsOK'
  <2>1. \A j \in Jobs : \A i \in DOMAIN events'[j] :
          events'[j][i].kind = "cancel_requested" => j \in cancellations'
    BY AskedStays
  <2> QED BY <1>2, <2>1 DEF CancelsOK
<1>6. SeenOK'
  <2> SUFFICES ASSUME NEW j \in Jobs
               PROVE  received[j] \subseteq DOMAIN events'[j] /\ sequence[j] =< Len(events'[j])
    BY <1>0 DEF SeenOK
  <2>1. received[j] \subseteq DOMAIN events[j] /\ sequence[j] =< Len(events[j]) /\ sequence[j] \in Nat
    BY <1>0 DEF ControlOK, SeenOK
  <2> QED BY <2>1, Grows, LogIs
<1>7. ASSUME NEW j \in Jobs, NEW i \in 1 .. sequence[j], AtReview(events[j], i),
             Resuming(j) => Resuming(j)'
      PROVE  AtReview(events'[j], i)
  <2>1. i \in DOMAIN events[j]
    BY <1>0, <1>7, LogIs DEF ControlOK, SeenOK
  <2> QED BY <1>7, <2>1, AtReviewStays
<1>8. ResumesOK'
  <2>1. \A j \in Jobs : Resuming(j)' => \E i \in 1 .. sequence[j] : AtReview(events'[j], i)
    BY <1>3, <1>7 DEF ControlOK, ResumesOK
  <2>2. \A j \in Jobs : ReviewsShown(events'[j], sequence[j])
    BY ShownStays
  <2>3. outbox' \ inbox' \subseteq outbox \ inbox
    BY <1>0
  <2> QED BY <1>0, <2>1, <2>2, <2>3 DEF ControlOK, ResumesOK
<1>9. StatusesOK'
  <2> SUFFICES ASSUME NEW j \in Jobs, jobStatus[j] # "none"
               PROVE  StatusOK(j, events[j], sequence[j], jobStatus[j])'
    BY <1>0 DEF StatusesOK
  <2> DEFINE n == sequence[j]
             s == jobStatus[j]
  <2>0. /\ n \in Nat /\ n =< Len(events[j]) /\ DOMAIN events[j] = 1 .. Len(events[j])
        /\ Len(events[j]) \in Nat /\ Len(events'[j]) \in Nat
        /\ Len(events'[j]) >= Len(events[j])
        /\ \A i \in 1 .. n : events'[j][i] = events[j][i]
    <3>1. n \in Nat /\ n =< Len(events[j])
      BY <1>0 DEF ControlOK, SeenOK
    <3>2. /\ DOMAIN events[j] = 1 .. Len(events[j]) /\ Len(events[j]) \in Nat
          /\ Len(events'[j]) \in Nat /\ Len(events'[j]) >= Len(events[j])
          /\ \A i \in DOMAIN events[j] : events'[j][i] = events[j][i]
      BY LogIs, Grows
    <3> QED BY <3>1, <3>2
  <2>1. StatusOK(j, events[j], n, s)
    BY DEF ControlOK, StatusesOK
  <2>2. EndsSeen(events'[j], n, s)
    BY <2>0, <2>1 DEF StatusOK, EndsSeen
  <2>3. s = "waiting_review" => n > 0 /\ AtReview(events'[j], n) /\ ~Resuming(j)'
    <3> SUFFICES ASSUME s = "waiting_review"
                 PROVE  n > 0 /\ AtReview(events'[j], n) /\ ~Resuming(j)'
      OBVIOUS
    <3>1. n > 0 /\ AtReview(events[j], n) /\ ~Resuming(j)
      BY <2>1 DEF StatusOK, ReviewSeen
    <3>2. n \in 1 .. n
      BY <2>0, <3>1
    <3> QED BY <1>3, <1>7, <3>1, <3>2
  <2>4. CASE s = "cancel_requested" /\ Asked(j)
    BY <1>0, <1>2, <2>2, <2>3, <2>4 DEF StatusOK, ReviewSeen, Explained
  <2>5. CASE s = "queued" /\ \A i \in 1 .. n : events[j][i].kind \notin DOMAIN Public
    BY <1>0, <2>0, <2>2, <2>3, <2>5 DEF StatusOK, ReviewSeen, Explained
  <2>6. CASE /\ s = "queued" /\ n > 0 /\ events[j][n].kind = "waiting_review"
             /\ n < Len(events[j]) \/ Resuming(j)
    <3>1. events'[j][n].kind = "waiting_review"
      BY <2>0, <2>6
    <3>2. n < Len(events'[j]) \/ Resuming(j)'
      <4>1. CASE n < Len(events[j]) \/ Resuming(j)'
        BY <2>0, <4>1
      <4>2. CASE Resuming(j) /\ ~Resuming(j)'
        <5>1. Appends(j, {"accepted"})
          BY <4>2 DEF Took
        <5>2. Len(events'[j]) > Len(events[j])
          BY <2>0, <5>1, LogIs, GrowOnce DEF Appends
        <5> QED BY <2>0, <5>2
      <4> QED BY <2>6, <4>1, <4>2
    <3> QED BY <1>0, <2>2, <2>3, <2>6, <3>1, <3>2 DEF StatusOK, ReviewSeen, Explained
  <2>7. CASE ToldBy(s, events[j], n)
    <3>1. ToldBy(s, events'[j], n)
      <4>1. PICK i \in 1 .. n : /\ events[j][i].kind \in DOMAIN Public
                                /\ s = Public[events[j][i].kind]
                                /\ \A k \in i + 1 .. n : events[j][k].kind \notin DOMAIN Public
        BY <2>7 DEF ToldBy
      <4>2. \A k \in i + 1 .. n : k \in 1 .. n
        BY <2>0, <4>1
      <4> QED BY <2>0, <4>1, <4>2 DEF ToldBy
    <3> QED BY <1>0, <2>2, <2>3, <3>1 DEF StatusOK, ReviewSeen, Explained
  <2> QED BY <2>1, <2>4, <2>5, <2>6, <2>7 DEF StatusOK, Explained
<1> QED BY <1>1, <1>4, <1>5, <1>6, <1>8, <1>9 DEF ControlOK

LEMMA WorkKeeps ==
  ASSUME RuntimeOK, ControlOK, RuntimeStep
  PROVE  ControlOK'
<1>1. UNCHANGED controlVars /\ UNCHANGED outbox
  BY DEF RuntimeStep, controlVars
<1>2. \A j \in Jobs : (P!Moved(j) \/ P!Untouched(j)) /\ UNCHANGED <<inbox, cancellations>>
  BY RuntimeAssumed, SameStep, SameExpire, P!WorkMoves DEF RuntimeStep, RuntimeOK
<1>3. UNCHANGED <<inbox, cancellations>>
  <2>1. CASE Jobs # {}
    BY <1>2, <2>1
  <2>2. CASE \E j \in Jobs : P!LeaseExpires(j)
    BY <2>2, <1>2
  <2>3. ASSUME NEW w \in Workers, P!WorkerStep(w) PROVE UNCHANGED <<inbox, cancellations>>
    BY <2>3 DEF P!WorkerStep, P!Work, P!ClaimAny, P!Claim, P!ClaimNothing, P!FencedOut,
                P!HeartbeatCancelled, P!HandlerReturns, P!Finish, P!FinishLost,
                P!RecordModelCall, P!RecordArtifact, P!WorkerStops
  <2> QED BY <2>2, <2>3, SameStep, SameExpire DEF RuntimeStep
<1>4. \A j \in Jobs : Took(j)
  BY <1>1, <1>2, <1>3 DEF Took, Resuming
<1>5. \A c \in inbox : c.type = "workflow.run" => status'[c.job] # "none"
  <2> SUFFICES ASSUME NEW c \in inbox, c.type = "workflow.run" PROVE status'[c.job] # "none"
    OBVIOUS
  <2>1. c.job \in Jobs /\ status[c.job] # "none"
    BY CommandIs DEF ControlOK, CommandsOK, ControlTypeOK
  <2> QED BY <1>2, <2>1 DEF P!Moved, P!Untouched
<1>6. cancellations \subseteq Jobs
  BY DEF RuntimeOK, P!IInv, P!TypeOK
<1> QED BY <1>1, <1>3, <1>4, <1>5, <1>6, RuntimeKeeps DEF ControlOK, CommandsOK, CancelsOK

\* A delivery appends one event to the log of the command's job, or none.
LEMMA DeliverTook ==
  ASSUME RuntimeOK, ControlOK, NEW c \in Commands, c \in outbox, P!Deliver(c),
         UNCHANGED outbox, NEW j \in Jobs
  PROVE  /\ Took(j) /\ (status[j] # "none" => status'[j] # "none")
         /\ inbox' = inbox \cup {c} /\ c \notin inbox
         /\ cancellations' = IF c.type = "job.cancel" THEN cancellations \cup {c.job}
                                                      ELSE cancellations
         /\ j = c.job /\ c.type = "workflow.run" => status'[j] # "none"
<1>0. /\ events \in [Jobs -> Seq(P!Event)] /\ status \in [Jobs -> P!Statuses]
      /\ fence \in [Jobs -> Nat] /\ c.job \in Jobs
  BY CommandIs DEF RuntimeOK, P!IInv, P!TypeOK
<1>1. inbox' = inbox \cup {c} /\ c \notin inbox
  BY DEF P!Deliver, P!AcceptTask, P!AcceptCancel, P!AcceptResume, P!NewInInbox
<1>2. cancellations' = IF c.type = "job.cancel" THEN cancellations \cup {c.job}
                                                ELSE cancellations
  BY DEF P!Deliver, P!AcceptTask, P!AcceptCancel, P!AcceptResume
<1>3. Resuming(j) /\ ~(c.type = "job.resume" /\ c.job = j) => Resuming(j)'
  BY <1>1 DEF Resuming
<1>4. ASSUME NEW s \in {"accepted", "cancelled", "cancel_requested"}, j = c.job,
             events' = [events EXCEPT ![j] = Append(@, P!Ev(s, 0, fence[j]))]
      PROVE  Appends(j, {s})
  <2>1. s \in P!Lifecycle \cup P!Reports /\ fence[j] \in Nat /\ 0 \in Nat
    BY <1>0 DEF P!Lifecycle, P!Active, P!Terminal
  <2>2. P!Ev(s, 0, fence[j]) \in P!Event /\ P!Ev(s, 0, fence[j]).kind = s
    BY <2>1, RuntimeAssumed, P!EventType
  <2>3. events'[j] = Append(events[j], P!Ev(s, 0, fence[j]))
    BY <1>0, <1>4
  <2> QED BY <2>2, <2>3 DEF Appends
<1>5. ASSUME j # c.job
      PROVE  P!Untouched(j)
  BY <1>0, <1>5 DEF P!Deliver, P!AcceptTask, P!AcceptCancel, P!AcceptResume, P!Untouched
<1>6. CASE j # c.job
  <2>1. Took(j)
    BY <1>3, <1>5, <1>6 DEF Took
  <2> QED BY <1>1, <1>2, <1>5, <1>6, <2>1 DEF P!Untouched
<1>7. CASE j = c.job /\ P!AcceptTask(c)
  <2> DEFINE s == IF c.job \in cancellations THEN "cancelled" ELSE "accepted"
  <2>1. /\ s \in {"accepted", "cancelled"} /\ status[j] = "none" /\ status'[j] = s
        /\ events' = [events EXCEPT ![j] = Append(@, P!Ev(s, 0, fence[j]))]
        /\ c.type = "workflow.run"
    BY <1>0, <1>7 DEF P!AcceptTask
  <2> HIDE DEF s
  <2>2. Appends(j, {s})
    BY <1>4, <1>7, <2>1
  <2>3. Appends(j, {"accepted", "cancelled"})
    BY <2>1, <2>2 DEF Appends
  <2>4. jobStatus[j] # "none"
    BY <1>7 DEF ControlOK, CommandsOK
  <2>5. Took(j)
    BY <1>3, <2>1, <2>3, <2>4 DEF Took
  <2> QED BY <1>1, <1>2, <2>1, <2>5
<1>8. CASE j = c.job /\ P!AcceptCancel(c) /\ status[j] \in P!Cancellable
  <2> DEFINE s == IF status[j] = "running" THEN "cancel_requested" ELSE "cancelled"
  <2>1. /\ s \in {"cancel_requested", "cancelled"} /\ status'[j] = s
        /\ events' = [events EXCEPT ![j] = Append(@, P!Ev(s, 0, fence[j]))]
        /\ c.type = "job.cancel"
        /\ s = "cancel_requested" => status[j] = "running"
        /\ s = "cancelled" => status[j] \in {"accepted", "waiting_review"}
    BY <1>0, <1>8 DEF P!AcceptCancel, P!Cancellable
  <2> HIDE DEF s
  <2>2. Appends(j, {s})
    BY <1>4, <1>8, <2>1
  <2>3. j \in cancellations'
    BY <1>2, <1>8, <2>1
  <2>4. Took(j)
    BY <1>3, <2>1, <2>2, <2>3 DEF Took
  <2> QED BY <1>1, <1>2, <2>1, <2>4
<1>9. CASE j = c.job /\ P!AcceptCancel(c) /\ status[j] \notin P!Cancellable
  <2>1. P!Untouched(j) /\ c.type = "job.cancel"
    BY <1>9 DEF P!AcceptCancel, P!Untouched
  <2>2. Took(j)
    BY <1>3, <2>1 DEF Took
  <2> QED BY <1>1, <1>2, <2>1, <2>2 DEF P!Untouched
<1>10. CASE j = c.job /\ P!AcceptResume(c)
  <2>1. /\ c.type = "job.resume" /\ status[j] = "waiting_review" /\ status'[j] = "accepted"
        /\ events' = [events EXCEPT ![j] = Append(@, P!Ev("accepted", 0, fence[j]))]
    BY <1>0, <1>10 DEF P!AcceptResume
  <2>2. Appends(j, {"accepted"})
    BY <1>4, <1>10, <2>1
  <2>3. Resuming(j)
    BY <1>1, <1>10, <2>1 DEF Resuming
  <2>4. ~Resuming(j)'
    <3> SUFFICES ASSUME NEW d \in outbox \ inbox, d # c, d.type = "job.resume", d.job = j
                 PROVE  FALSE
      BY <1>1 DEF Resuming
    <3> QED BY <1>1, <1>10, <2>1 DEF ControlOK, ResumesOK
  <2>5. Took(j)
    BY <2>1, <2>2, <2>3, <2>4 DEF Took
  <2> QED BY <1>1, <1>2, <2>1, <2>5
<1> QED BY <1>6, <1>7, <1>8, <1>9, <1>10 DEF P!Deliver

LEMMA DeliverKeeps ==
  ASSUME RuntimeOK, ControlOK, NEW c \in Commands, DeliverCommand(c)
  PROVE  ControlOK'
<1>1. UNCHANGED controlVars /\ UNCHANGED outbox /\ c \in outbox /\ P!Deliver(c) /\ c.job \in Jobs
  BY SameDeliver, CommandIs DEF DeliverCommand, controlVars
<1>2. \A j \in Jobs : Took(j) /\ (status[j] # "none" => status'[j] # "none")
  BY <1>1, DeliverTook
<1>3. /\ inbox' = inbox \cup {c}
      /\ cancellations' = IF c.type = "job.cancel" THEN cancellations \cup {c.job}
                                                   ELSE cancellations
      /\ c.type = "workflow.run" => status'[c.job] # "none"
  BY <1>1, DeliverTook
<1>4. cancellations \subseteq Jobs
  BY DEF RuntimeOK, P!IInv, P!TypeOK
<1>5. \A j \in cancellations' : Asked(j)
  BY <1>1, <1>3 DEF ControlOK, CancelsOK, Asked
<1>6. \A d \in inbox' : d.type = "workflow.run" => status'[d.job] # "none"
  <2>1. \A d \in inbox : d.job \in Jobs
    BY CommandIs DEF ControlOK, CommandsOK, ControlTypeOK
  <2> QED BY <1>2, <1>3, <2>1 DEF ControlOK, CommandsOK
<1>7. \A d \in inbox' : d.type = "job.cancel" => d.job \in cancellations'
  BY <1>3 DEF ControlOK, CancelsOK
<1> QED BY <1>1, <1>2, <1>3, <1>4, <1>5, <1>6, <1>7, RuntimeKeeps DEF ControlOK, CommandsOK

-----------------------------------------------------------------------------
(* Events reach Control.                                                   *)

LEMMA ProjectKeeps ==
  ASSUME RuntimeOK, ControlOK, NEW j \in Jobs, DeliverEvent(j)
  PROVE  ControlOK'
<1>1. PICK i \in DOMAIN events[j] : Project(j, i, events[j]) /\ UNCHANGED runtimeVars
  BY DEF DeliverEvent
<1> DEFINE seen == received[j] \cup {i}
           last == Turn(sequence[j], seen)
           row == Applied(j, events[j], sequence[j], last)
<1>2. /\ ~row.fails
      /\ received' = [received EXCEPT ![j] = seen]
      /\ sequence' = [sequence EXCEPT ![j] = last]
      /\ jobStatus' = [jobStatus EXCEPT ![j] = row.status]
      /\ versions' = [versions EXCEPT ![DocumentOf[j]] = row.versions]
      /\ UNCHANGED <<outbox, frozen>>
  BY <1>1 DEF Project
<1>3. /\ jobStatus \in [Jobs -> JobStatuses] /\ sequence \in [Jobs -> Nat]
      /\ received \in [Jobs -> SUBSET Nat] /\ frozen \in [Jobs -> Nat]
      /\ versions \in [Documents -> Seq(Jobs \cup {Author})]
      /\ UNCHANGED <<inbox, cancellations, status, events>>
      /\ DocumentOf[j] \in Documents
  BY <1>1, OwnersAssumption DEF ControlOK, ControlTypeOK, runtimeVars
<1>4. /\ DOMAIN events[j] = 1 .. Len(events[j]) /\ Len(events[j]) \in Nat
      /\ seen \subseteq 1 .. Len(events[j]) /\ sequence[j] =< Len(events[j])
      /\ sequence[j] \in Nat
  BY <1>1, <1>3, LogIs DEF ControlOK, SeenOK
<1>5. /\ last \in {sequence[j]} \cup seen /\ last >= sequence[j]
  <2> HIDE DEF seen
  <2> QED BY <1>4, TurnIs
<1>6. last \in Nat /\ sequence[j] =< last /\ last =< Len(events[j])
  <2> HIDE DEF seen, last
  <2>1. last = sequence[j] \/ last \in 1 .. Len(events[j])
    BY <1>4, <1>5
  <2>2. last \in Nat /\ last =< Len(events[j])
    BY <1>4, <2>1, SMT
  <2> QED BY <1>5, <2>2
<1>7. jobStatus[j] # "none"
  <2>1. events[j] # <<>>
    BY <1>1
  <2> QED BY <2>1, LogIs DEF ControlOK, CommandsOK
<1>8. RowGood(j, sequence[j], Row0(j))
  BY <1>3, <1>7 DEF RowGood, Row0, ControlOK, StatusesOK
<1> HIDE DEF seen, last, row
<1>9. RowGood(j, last, row)
  BY <1>4, <1>6, <1>8, JobKnown, AppliedGood DEF row, ControlOK
<1>10. /\ row.status \in JobStatuses \ {"none"}
       /\ StatusOK(j, events[j], last, row.status)
       /\ row.status \in Live => jobStatus[j] \in Live
       /\ jobStatus[j] \in Ended => row.status = jobStatus[j]
  BY <1>9 DEF RowGood
<1>11. LET vs == versions[DocumentOf[j]] IN
       \/ row.versions = vs
       \/ /\ row.versions = Append(vs, j) /\ row.status = "completed"
          /\ frozen[j] = Len(vs) + 1
  BY <1>2, <1>9 DEF RowGood
<1>12. row.versions \in Seq(Jobs \cup {Author})
  <2>1. versions[DocumentOf[j]] \in Seq(Jobs \cup {Author}) /\ j \in Jobs \cup {Author}
    BY <1>3
  <2>2. Append(versions[DocumentOf[j]], j) \in Seq(Jobs \cup {Author})
    BY <2>1, AppendProperties
  <2> QED BY <1>11, <2>1, <2>2
<1>13. /\ jobStatus'[j] = row.status /\ sequence'[j] = last /\ received'[j] = seen
       /\ \A k \in Jobs : k # j => /\ jobStatus'[k] = jobStatus[k]
                                   /\ sequence'[k] = sequence[k]
                                   /\ received'[k] = received[k]
       /\ versions'[DocumentOf[j]] = row.versions
       /\ \A d \in Documents : d # DocumentOf[j] => versions'[d] = versions[d]
  BY <1>2, <1>3
<1>14. ControlTypeOK'
  <2>1. seen \in SUBSET Nat
    BY <1>4
  <2> QED BY <1>2, <1>3, <1>6, <1>10, <1>12, <2>1 DEF ControlOK, ControlTypeOK
<1>15. \A k : (Asked(k)' <=> Asked(k)) /\ (Resuming(k)' <=> Resuming(k))
  BY <1>2, <1>3 DEF Asked, Resuming
<1>16. CommandsOK'
  <2>1. \A k \in Jobs : jobStatus'[k] # "none" <=> jobStatus[k] # "none"
    BY <1>7, <1>10, <1>13
  <2>2. \A c \in outbox : c.job \in Jobs
    BY CommandIs DEF ControlOK, ControlTypeOK
  <2> QED BY <1>2, <1>3, <2>1, <2>2 DEF ControlOK, CommandsOK
<1>17. CancelsOK'
  BY <1>3, <1>15 DEF ControlOK, CancelsOK
<1>18. SeenOK'
  BY <1>3, <1>4, <1>6, <1>13 DEF ControlOK, SeenOK
<1>19. ResumesOK'
  <2>1. \A k \in Jobs : /\ sequence[k] \in Nat /\ sequence'[k] \in Nat
                        /\ sequence[k] =< sequence'[k]
    BY <1>3, <1>6, <1>13
  <2>2. ASSUME NEW k \in Jobs, Resuming(k)
        PROVE  \E i_1 \in 1 .. sequence'[k] : AtReview(events[k], i_1)
    <3>1. PICK m \in 1 .. sequence[k] : AtReview(events[k], m)
      BY <2>2 DEF ControlOK, ResumesOK
    <3>2. m \in 1 .. sequence'[k]
      BY <2>1, <3>1
    <3> QED BY <3>1, <3>2
  <2>3. ASSUME NEW k \in Jobs PROVE ReviewsShown(events[k], sequence'[k])
    <3>1. ReviewsShown(events[k], sequence[k]) /\ DOMAIN events[k] = 1 .. Len(events[k])
      BY LogIs DEF ControlOK, ResumesOK
    <3> QED BY <2>1, <3>1 DEF ReviewsShown
  <2> QED BY <1>2, <1>3, <1>15, <2>2, <2>3 DEF ControlOK, ResumesOK
<1>20. StatusesOK'
  <2>1. StatusOK(j, events[j], sequence[j], jobStatus[j])'
    BY <1>3, <1>10, <1>13, <1>15 DEF StatusOK, ReviewSeen, Explained
  <2>2. ASSUME NEW k \in Jobs, k # j, jobStatus'[k] # "none"
        PROVE  StatusOK(k, events[k], sequence[k], jobStatus[k])'
    BY <1>3, <1>13, <1>15, <2>2, StatusStays DEF ControlOK, StatusesOK
  <2> QED BY <2>1, <2>2 DEF StatusesOK
<1>21. OneLive'
  <2>1. \A k \in Jobs : jobStatus'[k] \in Live => jobStatus[k] \in Live
    BY <1>10, <1>13
  <2> QED BY <2>1, OwnersAssumption DEF ControlOK, OneLive
<1>22. VersionsOK'
  <2> SUFFICES ASSUME NEW k \in Jobs, NEW n \in DOMAIN versions'[DocumentOf[k]],
                      versions'[DocumentOf[k]][n] = k
               PROVE  frozen[k] = n /\ jobStatus'[k] = "completed"
    BY <1>2 DEF VersionsOK
  <2>1. DocumentOf[k] \in Documents /\ versions[DocumentOf[k]] \in Seq(Jobs \cup {Author})
    BY <1>3, OwnersAssumption
  <2>2. ASSUME n \in DOMAIN versions[DocumentOf[k]], versions[DocumentOf[k]][n] = k
        PROVE  frozen[k] = n /\ jobStatus'[k] = "completed"
    <3>1. frozen[k] = n /\ jobStatus[k] = "completed"
      BY <2>2 DEF ControlOK, VersionsOK
    <3> QED BY <1>10, <1>13, <3>1 DEF Ended
  <2>3. CASE versions'[DocumentOf[k]] = versions[DocumentOf[k]]
    BY <2>2, <2>3
  <2>4. CASE /\ DocumentOf[k] = DocumentOf[j] /\ row.status = "completed"
             /\ row.versions = Append(versions[DocumentOf[j]], j)
             /\ frozen[j] = Len(versions[DocumentOf[j]]) + 1
    <3> DEFINE vs == versions[DocumentOf[k]]
    <3>1. versions'[DocumentOf[k]] = Append(vs, j) /\ frozen[j] = Len(vs) + 1
      BY <1>13, <2>4
    <3>2. CASE n \in DOMAIN vs
      BY <2>1, <2>2, <3>1, <3>2
    <3>3. CASE n \notin DOMAIN vs
      <4>1. n = Len(vs) + 1 /\ k = j
        BY <2>1, <3>1, <3>3
      <4> QED BY <1>13, <2>4, <3>1, <4>1
    <3> QED BY <3>2, <3>3
  <2> QED BY <1>11, <1>13, <2>1, <2>3, <2>4
<1> QED BY <1>14, <1>16, <1>17, <1>18, <1>19, <1>20, <1>21, <1>22 DEF ControlOK

-----------------------------------------------------------------------------
(* The theorems.                                                           *)

LEMMA ControlStep == RuntimeOK /\ ControlOK /\ [Next]_vars => ControlOK'
<1> SUFFICES ASSUME RuntimeOK, ControlOK, [Next]_vars PROVE ControlOK'
  OBVIOUS
<1>1. CASE UNCHANGED vars
  <2>1. \A j : (Asked(j)' <=> Asked(j)) /\ (Resuming(j)' <=> Resuming(j))
    BY <1>1 DEF vars, controlVars, runtimeVars, Asked, Resuming
  <2> USE <1>1, <2>1 DEF vars, controlVars, runtimeVars
  <2>2. /\ ControlTypeOK' /\ CommandsOK' /\ CancelsOK' /\ SeenOK'
        /\ ResumesOK' /\ OneLive' /\ VersionsOK'
    BY DEF ControlOK, ControlTypeOK, CommandsOK, CancelsOK, SeenOK, ResumesOK, OneLive, VersionsOK
  <2>3. StatusesOK'
    BY StatusStays DEF ControlOK, StatusesOK
  <2> QED BY <2>2, <2>3 DEF ControlOK
<1> QED BY <1>1, SubmitKeeps, EditKeeps, DeliverKeeps, ProjectKeeps, WorkKeeps DEF Next, UserActs

LEMMA ControlInitial == Init => ControlOK
<1> SUFFICES ASSUME Init PROVE ControlOK
  OBVIOUS
<1> USE DEF Init, ControlInit
<1>1. ControlTypeOK
  BY DEF ControlTypeOK, JobStatuses
<1>2. /\ events = [j \in Jobs |-> <<>>] /\ inbox = {} /\ cancellations = {}
      /\ status = [j \in Jobs |-> "none"]
  BY DEF R!Init
<1>3. CommandsOK /\ CancelsOK
  BY <1>2 DEF CommandsOK, CancelsOK
<1>4. SeenOK /\ StatusesOK /\ OneLive /\ VersionsOK
  BY <1>2, OwnersAssumption DEF SeenOK, StatusesOK, OneLive, VersionsOK, Live
<1>5. ResumesOK
  BY <1>2 DEF ResumesOK, Resuming, ReviewsShown
<1> QED BY <1>1, <1>3, <1>4, <1>5 DEF ControlOK

\* The invariant of the two planes together.
THEOREM ProtocolInvariance == Spec => [](RuntimeOK /\ ControlOK)
BY RuntimeInvariance, ControlInitial, ControlStep, PTL DEF Spec

\* Control never shows an end the Runtime has not reached.
THEOREM EndsAlike == Spec => []EndsAgree
BY ProtocolInvariance, EndsFollow, PTL

\* Once nothing is on its way, Control shows what the Runtime says.
THEOREM ViewsAlike == Spec => []ViewsAgree
BY ProtocolInvariance, ViewsFollow, PTL

\* The two planes agree, on ends at once and on the rest in the end.
THEOREM PlanesAgree == Spec => []Agreement
BY EndsAlike, ViewsAlike, PTL DEF Agreement

\* Two mutations of one project are never at work together.
THEOREM MutationsApart == Spec => []OneMutation
BY ProtocolInvariance, MutationsFollow, PTL

\* A resume on its way finds the review it answers, or the cancellation of it.
THEOREM ResumesMeetReviews == Spec => []ResumeFindsReview
BY ProtocolInvariance, ReviewsFollow, PTL

\* A job's version has the number frozen at its submission.
THEOREM VersionsKeepNumbers == Spec => []VersionsAsFrozen
BY ProtocolInvariance, VersionsFollow, PTL

-----------------------------------------------------------------------------
(* Both planes: the protocol and the memories.                             *)

\* A step of the planes is a step or a stutter of each of the two.
THEOREM PartsWithin == BothSpec => Spec /\ Memories!Spec
<1>1. BothInit => Init /\ Memories!Init
  BY DEF BothInit
<1>2. [BothNext]_bothVars => [Next]_vars
  BY DEF BothNext, bothVars
<1>3. [BothNext]_bothVars => [Memories!Next]_(Memories!vars)
  BY DEF BothNext, bothVars, memoryVars, Memories!vars
<1> QED
  BY <1>1, <1>2, <1>3, PTL DEF BothSpec, Spec, Memories!Spec

\* What is remembered, frozen in a pack, or was told to a creation is of each version
\* as one claim of its memory job read it, although the job may be taken over between
\* its read and its commit and a creation reads in several statements; of a version
\* in a pack, and of what a creation required, nothing is left out unless the LIMIT of
\* the query is full (_commit_memory, creation_context, _local).
THEOREM MemoriesKept == BothSpec => []RememberedAsRead
<1>1. Memories!Spec => []Memories!RememberedAsRead
  BY MemoryAssumption, Memories!MemoriesAsRead
<1> QED
  BY <1>1, PartsWithin, PTL DEF RememberedAsRead

\* A knowledge operation takes effect exactly if its job completes, and what was
\* possible when it was staged still is (_finish_knowledge_operation).
THEOREM EffectsEarned == BothSpec => []EffectWithCompletion
<1>1. Memories!Spec => []Memories!EffectWithCompletion
  BY MemoryAssumption, Memories!EffectsWithCompletion
<1> QED
  BY <1>1, PartsWithin, PTL DEF EffectWithCompletion

\* Control shows what the Runtime has of a binding whose operations were asked
\* for in turn, whatever the order of other jobs' events (ProjectOperationEvent).
THEOREM ShownAsTold == BothSpec => []ShownInOrder
<1>1. Memories!Spec => []Memories!ShownInOrder
  BY MemoryAssumption, Memories!ShownAsBound
<1> QED
  BY <1>1, PartsWithin, PTL DEF ShownInOrder

-----------------------------------------------------------------------------
(* The tools of an installation: restores.                                 *)

Marks == {"pending", "database", "complete"}
Loading == {"load", "note", "objects", "finish", "done"}
Restorable == Archives \cup {None}

RestoreTyped ==
  /\ written \subseteq Archives /\ DOMAIN bucket = Keys
  /\ target \in [1 .. 2 -> [tables : Restorable, owner : Restorable, phase : Marks]]
  /\ restore \in [Operators -> [at : {"rest", "check", "failed"} \cup Loading,
                                archive : Restorable, seen : Seq(Marks)]]

\* What a database was loaded from is whose it is, and what is noted is so.
TargetOK ==
  \A d \in 1 .. 2 :
    /\ target[d].tables \in {None, target[d].owner}
    /\ target[d].phase # "pending" => target[d].tables # None
    /\ target[d].phase = "complete" => Restoring!Whole(target[d].owner)
\* The databases a run has looked at are its archive's, those it read as loaded
\* are loaded, and at each of its steps what went before is there.
RunOK(o) ==
  LET r == restore[o]
  IN /\ r.at \in {"check"} \cup Loading =>
          /\ r.archive \in Archives /\ Len(r.seen) =< 2
          /\ \A d \in 1 .. Len(r.seen) :
               /\ target[d].owner = r.archive
               /\ r.seen[d] # "pending" => target[d].tables = r.archive
     /\ r.at \in Loading => Len(r.seen) = 2
     /\ r.at = "note" =>
          /\ Restoring!ToLoad(o) # {}
          /\ target[Restoring!First(Restoring!ToLoad(o))].tables = r.archive
     /\ r.at \in {"objects", "finish", "done"} => Restoring!ToLoad(o) = {}
     /\ r.at \in {"finish", "done"} => Restoring!Whole(r.archive)
RestoreOK == RestoreTyped /\ TargetOK /\ \A o \in Operators : RunOK(o)

\* Nothing that is there is replaced.
Onward ==
  /\ \A d \in 1 .. 2 :
       /\ target[d].owner # None => target'[d].owner = target[d].owner
       /\ target[d].tables # None => target'[d].tables = target[d].tables
  /\ \A k \in Keys : bucket[k] # None => bucket'[k] = bucket[k]

LEMMA TwoOf == ASSUME NEW n \in Nat, n =< 2, n + 1 > 2 PROVE n = 2
OBVIOUS

LEMMA FirstOf ==
  ASSUME NEW S \in SUBSET (1 .. 2), S # {}
  PROVE  Restoring!First(S) \in S
<1>1. \E d \in S : \A e \in S : d =< e
  <2>1. CASE 1 \in S
    <3>1. \A e \in 1 .. 2 : 1 =< e
      OBVIOUS
    <3> QED BY <2>1, <3>1
  <2>2. CASE 1 \notin S
    <3>1. \A e \in S : e = 2
      <4>1. \A e \in 1 .. 2 : e = 1 \/ e = 2
        OBVIOUS
      <4> QED BY <2>2, <4>1
    <3>2. 2 \in S
      BY <3>1
    <3>3. 2 =< 2
      OBVIOUS
    <3> QED BY <3>1, <3>2, <3>3
  <2> QED BY <2>1, <2>2
<1> QED BY <1>1 DEF Restoring!First

LEMMA WholeStays ==
  ASSUME RestoreTyped, Onward, NEW a \in Archives, Restoring!Whole(a)
  PROVE  Restoring!Whole(a)'
<1>1. None \notin Archives /\ DOMAIN ObjectsOf[a] \subseteq Keys
  BY ToolAssumption DEF Restoring!RestoreAssumption
<1>2. \A k \in DOMAIN ObjectsOf[a] : ObjectsOf[a][k] # None
  BY ToolAssumption DEF Restoring!RestoreAssumption, Restoring!Range
<1> QED BY <1>1, <1>2 DEF Restoring!Whole, Onward

\* A run that does nothing finds everything as it left it.
LEMMA RunStays ==
  ASSUME RestoreTyped, Onward, NEW o \in Operators, RunOK(o), restore'[o] = restore[o]
  PROVE  RunOK(o)'
<1>1. None \notin Archives
  BY ToolAssumption DEF Restoring!RestoreAssumption
<1>2. restore[o].seen \in Seq(Marks) /\ restore[o].at \in {"rest", "check", "failed"} \cup Loading
  BY DEF RestoreTyped
<1>3. Restoring!ToLoad(o)' = Restoring!ToLoad(o) /\ Restoring!ToLoad(o) \subseteq 1 .. 2
  BY DEF Restoring!ToLoad
<1>4. Len(restore[o].seen) =< 2 => 1 .. Len(restore[o].seen) \subseteq 1 .. 2
  BY <1>2
<1>5. ASSUME restore[o].at \in {"check"} \cup Loading
      PROVE  /\ restore[o].archive \in Archives /\ Len(restore[o].seen) =< 2
             /\ \A d \in 1 .. Len(restore[o].seen) :
                  /\ target'[d].owner = restore[o].archive
                  /\ restore[o].seen[d] # "pending" => target'[d].tables = restore[o].archive
  BY <1>1, <1>4, <1>5 DEF RunOK, Onward
<1>6. ASSUME restore[o].at = "note"
      PROVE  target'[Restoring!First(Restoring!ToLoad(o))].tables = restore[o].archive
  <2>1. Restoring!First(Restoring!ToLoad(o)) \in 1 .. 2
    BY <1>3, <1>6, FirstOf DEF RunOK
  <2> QED BY <1>1, <1>6, <2>1 DEF RunOK, Onward, Loading
<1>7. ASSUME restore[o].at \in {"finish", "done"} PROVE Restoring!Whole(restore[o].archive)'
  <2>1. PICK a \in Archives : a = restore[o].archive /\ Restoring!Whole(a)
    BY <1>7 DEF RunOK, Loading
  <2>2. Restoring!Whole(a)' /\ a = restore'[o].archive
    BY <2>1, WholeStays
  <2> QED BY <2>2 DEF Restoring!Whole
<1>8. \A a : Restoring!First(Restoring!ToLoad(o))' = Restoring!First(Restoring!ToLoad(o))
  BY <1>3 DEF Restoring!First
<1> QED BY <1>3, <1>5, <1>6, <1>7, <1>8 DEF RunOK, Restoring!Whole

\* What a run's step has to show.
LEMMA RunsOn ==
  ASSUME RestoreOK, Onward, NEW o \in Operators, RestoreTyped', TargetOK', RunOK(o)',
         \A p \in Operators \ {o} : restore'[p] = restore[p]
  PROVE  RestoreOK'
<1>1. \A p \in Operators \ {o} : RunOK(p)'
  BY RunStays DEF RestoreOK
<1> QED BY <1>1 DEF RestoreOK

LEMMA RestoreInitial == ToolInit => RestoreOK
<1>1. SUFFICES ASSUME Restoring!Init PROVE RestoreOK
  BY DEF ToolInit
<1>2. DOMAIN bucket = Keys
  BY <1>1 DEF Restoring!Init
<1>3. <<>> \in Seq(Marks)
  OBVIOUS
<1>4. RestoreTyped
  BY <1>1, <1>2, <1>3
     DEF Restoring!Init, RestoreTyped, Restoring!Resting, Restoring!Blank, Restorable, Marks
<1>5. TargetOK
  BY <1>1 DEF Restoring!Init, TargetOK, Restoring!Blank
<1>6. \A o \in Operators : RunOK(o)
  BY <1>1 DEF Restoring!Init, RunOK, Restoring!Resting, Loading
<1> QED BY <1>4, <1>5, <1>6 DEF RestoreOK

\* A step that leaves the target and the bucket: only the run's own place is new.
LEMMA LooksOn ==
  ASSUME RestoreOK, NEW o \in Operators, UNCHANGED <<target, bucket>>, RestoreTyped',
         RunOK(o)', \A p \in Operators \ {o} : restore'[p] = restore[p]
  PROVE  RestoreOK'
<1>1. Onward /\ TargetOK'
  BY DEF Onward, RestoreOK, TargetOK, Restoring!Whole
<1> QED BY <1>1, RunsOn

LEMMA RestoreStep ==
  ASSUME RestoreOK, [Restoring!Next]_restoreVars
  PROVE  RestoreOK'
<1>0. None \notin Archives /\ \A a \in Archives : DOMAIN ObjectsOf[a] \subseteq Keys
  BY ToolAssumption DEF Restoring!RestoreAssumption
<1>a. RestoreTyped
  BY DEF RestoreOK
<1>b. TargetOK
  BY DEF RestoreOK
<1>c. \A o \in Operators : RunOK(o)
  BY DEF RestoreOK
<1>1. CASE UNCHANGED restoreVars
  <2>1. RestoreTyped' /\ TargetOK' /\ Onward
    BY <1>a, <1>b, <1>1 DEF restoreVars, RestoreTyped, TargetOK, Onward, Restoring!Whole
  <2>2. \A p \in Operators : RunOK(p)'
    BY <1>a, <1>c, <1>1, <2>1, RunStays DEF restoreVars
  <2> QED BY <2>1, <2>2 DEF RestoreOK
<1>2. ASSUME NEW a \in Archives, Restoring!CreateBackup(a) PROVE RestoreOK'
  <2>1. RestoreTyped'
    BY <1>a, <1>2 DEF Restoring!CreateBackup, RestoreTyped
  <2>2. Onward /\ TargetOK'
    BY <1>b, <1>2 DEF Restoring!CreateBackup, Onward, TargetOK, Restoring!Whole
  <2>3. \A p \in Operators : RunOK(p)'
    BY <1>a, <1>c, <1>2, <2>2, RunStays DEF Restoring!CreateBackup
  <2> QED BY <2>1, <2>2, <2>3 DEF RestoreOK
<1>3. ASSUME NEW o \in Operators, Restoring!Fails(o) PROVE RestoreOK'
  <2>1. RestoreTyped' /\ restore'[o].at = "failed"
    BY <1>a, <1>3 DEF Restoring!Fails, Restoring!Goes, RestoreTyped
  <2>2. RunOK(o)' /\ \A p \in Operators \ {o} : restore'[p] = restore[p]
    BY <1>a, <1>c, <1>3, <2>1 DEF Restoring!Fails, Restoring!Goes, RunOK, Loading, RestoreTyped
  <2> QED BY <1>3, <2>1, <2>2, LooksOn DEF Restoring!Fails
<1>4. ASSUME NEW o \in Operators, Restoring!StartRestore(o) PROVE RestoreOK'
  <2>1. PICK a \in written :
          restore' = [restore EXCEPT ![o] = [at |-> "check", archive |-> a, seen |-> <<>>]]
    BY <1>4 DEF Restoring!StartRestore
  <2>2. a \in Archives /\ <<>> \in Seq(Marks) /\ Len(<<>>) = 0
    BY <1>a DEF RestoreTyped
  <2>3. RestoreTyped' /\ restore'[o] = [at |-> "check", archive |-> a, seen |-> <<>>]
    BY <1>a, <1>4, <2>1, <2>2 DEF Restoring!StartRestore, RestoreTyped, Restorable
  <2>4. RunOK(o)' /\ \A p \in Operators \ {o} : restore'[p] = restore[p]
    BY <1>c, <2>1, <2>2, <2>3 DEF RunOK, Loading
  <2> QED BY <1>4, <2>3, <2>4, LooksOn DEF Restoring!StartRestore
<1>5. ASSUME NEW o \in Operators, Restoring!CheckTarget(o) PROVE RestoreOK'
  <2> DEFINE r == restore[o]
             d == Len(r.seen) + 1
  <2>1. r.at = "check" /\ r.archive \in Archives /\ Len(r.seen) =< 2 /\ r.seen \in Seq(Marks)
    BY <1>a, <1>c, <1>5 DEF Restoring!CheckTarget, RunOK, RestoreTyped
  <2>2. CASE d > 2
    <3>1. restore' = [restore EXCEPT ![o].at = "load"] /\ UNCHANGED <<written, target, bucket>>
      BY <1>5, <2>2 DEF Restoring!CheckTarget, Restoring!Goes
    <3>2. RestoreTyped' /\ restore'[o] = [r EXCEPT !.at = "load"]
      BY <1>a, <3>1 DEF RestoreTyped, Loading
    <3>3. Len(r.seen) = 2
      <4>1. Len(r.seen) \in Nat /\ Len(r.seen) =< 2 /\ Len(r.seen) + 1 > 2
        BY <2>1, <2>2, LenProperties
      <4> QED BY <4>1, TwoOf
    <3>4. RunOK(o)' /\ \A p \in Operators \ {o} : restore'[p] = restore[p]
      BY <1>a, <1>c, <2>1, <3>1, <3>2, <3>3 DEF RunOK, Loading, RestoreTyped
    <3> QED BY <3>1, <3>2, <3>4, LooksOn
  <2>3. CASE ~ (d > 2) /\ ~ Restoring!MayRestore(o, d)
    BY <1>3, <1>5, <2>3 DEF Restoring!CheckTarget
  <2>4. CASE ~ (d > 2) /\ Restoring!MayRestore(o, d)
    <3>1. d \in 1 .. 2
      BY <2>1, <2>4
    <3>2. target[d].owner \in {None, r.archive} /\ (target[d].owner = None => target[d].tables = None)
      BY <2>4 DEF Restoring!MayRestore, Restoring!Mine
    <3>3. /\ target' = [target EXCEPT ![d].owner = IF @ = None THEN r.archive ELSE @]
          /\ restore' = [restore EXCEPT ![o].seen = Append(@, target[d].phase)]
          /\ UNCHANGED <<written, bucket>>
      BY <1>5, <2>4 DEF Restoring!CheckTarget
    <3>4. target'[d] = [target[d] EXCEPT !.owner = r.archive] /\ \A e \in 1 .. 2 \ {d} : target'[e] = target[e]
      BY <1>a, <3>1, <3>2, <3>3 DEF RestoreTyped
    <3>5. /\ restore'[o] = [r EXCEPT !.seen = Append(r.seen, target[d].phase)]
          /\ \A p \in Operators \ {o} : restore'[p] = restore[p]
      BY <1>a, <3>3 DEF RestoreTyped
    <3>6. target[d].phase \in Marks /\ Append(r.seen, target[d].phase) \in Seq(Marks)
      BY <1>a, <2>1, <3>1 DEF RestoreTyped
    <3>7. /\ Len(Append(r.seen, target[d].phase)) = d
          /\ \A e \in 1 .. Len(r.seen) : Append(r.seen, target[d].phase)[e] = r.seen[e]
          /\ Append(r.seen, target[d].phase)[d] = target[d].phase
      BY <2>1, <3>6, AppendProperties
    <3>8. RestoreTyped'
      BY <1>a, <2>1, <3>1, <3>3, <3>6 DEF RestoreTyped, Restorable
    <3>9. Onward
      BY <1>a, <3>1, <3>2, <3>3, <3>4 DEF Onward, RestoreTyped
    <3>10. TargetOK'
      <4>1. \A e \in 1 .. 2 : target'[e].tables = target[e].tables /\ target'[e].phase = target[e].phase
        BY <1>a, <3>1, <3>4 DEF RestoreTyped
      <4>2. \A a : Restoring!Whole(a)' <=> Restoring!Whole(a)
        BY <3>3, <4>1 DEF Restoring!Whole
      <4>3. \A e \in 1 .. 2 : target'[e].owner = target[e].owner \/ (e = d /\ target[d].owner = None)
        BY <1>a, <3>1, <3>2, <3>4 DEF RestoreTyped
      <4>4. target[d].owner = None => target'[d].phase = "pending" /\ target'[d].tables = None
        BY <1>a, <1>b, <3>1, <3>2, <4>1 DEF TargetOK, RestoreTyped, Marks
      <4> QED BY <1>b, <4>1, <4>2, <4>3, <4>4 DEF TargetOK, Restoring!Whole
    <3>11. RunOK(o)'
      <4>1. restore'[o].at = "check" /\ restore'[o].archive = r.archive
        BY <1>a, <2>1, <3>5 DEF RestoreTyped
      <4>2. restore'[o].seen = Append(r.seen, target[d].phase)
        BY <1>a, <3>5 DEF RestoreTyped
      <4>3. target'[d].owner = r.archive /\ target'[d].tables = target[d].tables
        BY <1>a, <3>1, <3>4 DEF RestoreTyped
      <4>4. target[d].phase # "pending" => target[d].tables = r.archive
        BY <1>b, <3>1, <3>2 DEF TargetOK
      <4>5. \A e \in 1 .. Len(r.seen) :
              /\ target'[e].owner = r.archive
              /\ r.seen[e] # "pending" => target'[e].tables = r.archive
        <5>1. \A e \in 1 .. Len(r.seen) : e \in 1 .. 2 \ {d}
          BY <2>1, <3>1
        <5> QED BY <1>c, <2>1, <3>4, <5>1 DEF RunOK
      <4>6. \A e \in 1 .. d : e = d \/ e \in 1 .. Len(r.seen)
        BY <2>1, <3>1
      <4> QED BY <1>c, <2>1, <3>1, <3>7, <4>1, <4>2, <4>3, <4>4, <4>5, <4>6 DEF RunOK, Loading
    <3> QED BY <3>5, <3>8, <3>9, <3>10, <3>11, RunsOn
  <2> QED BY <2>2, <2>3, <2>4
<1>6. ASSUME NEW o \in Operators, Restoring!LoadDatabase(o) PROVE RestoreOK'
  <2> DEFINE r == restore[o]
             d == Restoring!First(Restoring!ToLoad(o))
  <2>1. /\ r.at = "load" /\ r.archive \in Archives /\ Len(r.seen) = 2 /\ r.seen \in Seq(Marks)
        /\ \A e \in 1 .. 2 : target[e].owner = r.archive
    BY <1>a, <1>c, <1>6 DEF Restoring!LoadDatabase, RunOK, RestoreTyped, Loading
  <2>2. CASE Restoring!ToLoad(o) = {}
    <3>1. restore' = [restore EXCEPT ![o].at = "objects"] /\ UNCHANGED <<written, target, bucket>>
      BY <1>6, <2>2 DEF Restoring!LoadDatabase, Restoring!Goes
    <3>2. RestoreTyped' /\ restore'[o] = [r EXCEPT !.at = "objects"]
      BY <1>a, <3>1 DEF RestoreTyped, Loading
    <3>3. Restoring!ToLoad(o)' = {}
      BY <1>a, <2>2, <3>2 DEF Restoring!ToLoad, RestoreTyped
    <3>4. RunOK(o)' /\ \A p \in Operators \ {o} : restore'[p] = restore[p]
      BY <1>a, <1>c, <2>1, <3>1, <3>2, <3>3 DEF RunOK, Loading, RestoreTyped
    <3> QED BY <3>1, <3>2, <3>4, LooksOn
  <2>3. CASE Restoring!ToLoad(o) # {} /\ target[d].tables # None
    BY <1>3, <1>6, <2>3 DEF Restoring!LoadDatabase
  <2>4. CASE Restoring!ToLoad(o) # {} /\ target[d].tables = None
    <3>1. d \in Restoring!ToLoad(o) /\ d \in 1 .. 2
      BY <2>4, FirstOf DEF Restoring!ToLoad
    <3>2. /\ target' = [target EXCEPT ![d].tables = r.archive]
          /\ restore' = [restore EXCEPT ![o].at = "note"]
          /\ UNCHANGED <<written, bucket>>
      BY <1>6, <2>4 DEF Restoring!LoadDatabase, Restoring!Goes
    <3>3. RestoreTyped'
      BY <1>a, <2>1, <3>1, <3>2 DEF RestoreTyped, Restorable, Loading
    <3>4. target'[d] = [target[d] EXCEPT !.tables = r.archive] /\ \A e \in 1 .. 2 \ {d} : target'[e] = target[e]
      BY <1>a, <3>1, <3>2 DEF RestoreTyped
    <3>5. restore'[o] = [r EXCEPT !.at = "note"] /\ \A p \in Operators \ {o} : restore'[p] = restore[p]
      BY <1>a, <3>2 DEF RestoreTyped
    <3>6. Onward
      BY <1>a, <2>4, <3>1, <3>2, <3>4 DEF Onward, RestoreTyped
    <3>7. TargetOK'
      <4>1. \A e \in 1 .. 2 : target'[e].owner = target[e].owner /\ target'[e].phase = target[e].phase
        BY <1>a, <3>1, <3>4 DEF RestoreTyped
      <4>2. target[d].phase = "pending" /\ target'[d].tables = target'[d].owner
        BY <1>a, <1>b, <2>1, <2>4, <3>1, <3>4, <4>1 DEF TargetOK, RestoreTyped
      <4>3. ASSUME NEW e \in 1 .. 2, target'[e].phase = "complete"
            PROVE  Restoring!Whole(target[e].owner)'
        <5>1. target[e].phase = "complete" /\ target[e].owner \in Archives /\ target'[e].owner = target[e].owner
          BY <1>0, <2>1, <4>1, <4>3
        <5>2. PICK a \in Archives : a = target[e].owner /\ Restoring!Whole(a)
          BY <1>b, <5>1 DEF TargetOK
        <5>3. Restoring!Whole(a)' /\ a = target'[e].owner
          BY <3>6, <5>1, <5>2, <1>a, WholeStays
        <5> QED BY <5>3 DEF Restoring!Whole
      <4>4. \A e \in 1 .. 2 : target'[e].phase # "pending" => target'[e].tables # None
        BY <1>a, <1>b, <1>0, <2>1, <3>1, <3>4, <4>1 DEF TargetOK, RestoreTyped
      <4>5. \A e \in 1 .. 2 : target'[e].tables \in {None, target'[e].owner}
        BY <1>a, <1>b, <3>1, <3>4, <4>1, <4>2 DEF TargetOK, RestoreTyped
      <4> QED BY <1>b, <4>3, <4>4, <4>5 DEF TargetOK
    <3>8. RunOK(o)'
      <4>1. Restoring!ToLoad(o)' = Restoring!ToLoad(o) /\ restore'[o].archive = r.archive
        BY <1>a, <3>5 DEF Restoring!ToLoad, RestoreTyped
      <4>2. Restoring!First(Restoring!ToLoad(o))' = d
        BY <4>1 DEF Restoring!First
      <4>3. target'[d].tables = r.archive
        BY <1>a, <3>1, <3>4 DEF RestoreTyped
      <4>4. \A e \in 1 .. 2 : /\ target'[e].owner = r.archive
                              /\ r.seen[e] # "pending" => target'[e].tables = r.archive
        <5>1. \A e \in 1 .. 2 : /\ target[e].owner = r.archive
                                /\ r.seen[e] # "pending" => target[e].tables = r.archive
          BY <1>c, <2>1 DEF RunOK, Loading
        <5>2. \A e \in 1 .. 2 : target'[e].owner = target[e].owner
          BY <1>a, <3>1, <3>4 DEF RestoreTyped
        <5>3. \A e \in 1 .. 2 : e = d \/ target'[e].tables = target[e].tables
          BY <1>a, <3>1, <3>4 DEF RestoreTyped
        <5> QED BY <4>3, <5>1, <5>2, <5>3
      <4>5. restore'[o].at = "note" /\ restore'[o].seen = r.seen
        BY <1>a, <3>5 DEF RestoreTyped
      <4> QED BY <1>c, <2>1, <2>4, <4>1, <4>2, <4>3, <4>4, <4>5 DEF RunOK, Loading
    <3> QED BY <3>3, <3>5, <3>6, <3>7, <3>8, RunsOn
  <2> QED BY <2>2, <2>3, <2>4
<1>7. ASSUME NEW o \in Operators, Restoring!NoteDatabase(o) PROVE RestoreOK'
  <2> DEFINE r == restore[o]
  <2>0. PICK d : d = Restoring!First(Restoring!ToLoad(o))
    OBVIOUS
  <2>1. /\ r.at = "note" /\ r.archive \in Archives /\ Len(r.seen) = 2 /\ r.seen \in Seq(Marks)
        /\ \A e \in 1 .. 2 : /\ target[e].owner = r.archive
                             /\ r.seen[e] # "pending" => target[e].tables = r.archive
        /\ Restoring!ToLoad(o) # {} /\ target[d].tables = r.archive
    BY <1>a, <1>c, <1>7, <2>0 DEF Restoring!NoteDatabase, RunOK, RestoreTyped, Loading
  <2>2. d \in 1 .. 2
    BY <2>0, <2>1, FirstOf DEF Restoring!ToLoad
  <2>3. /\ target' = [target EXCEPT ![d] = [target[d] EXCEPT !.phase = "database"]]
        /\ restore' = [restore EXCEPT ![o].at = "load", ![o].seen[d] = "database"]
        /\ UNCHANGED <<written, bucket>>
    <3>0. target[d].owner = r.archive
      BY <2>1, <2>2
    <3>1. Restoring!Mine(o, d)
      BY <3>0 DEF Restoring!Mine
    <3>2. Restoring!Noted(o, d, "database") = [target[d] EXCEPT !.phase = "database"]
      BY <3>1 DEF Restoring!Noted
    <3> QED BY <1>7, <2>0, <3>2 DEF Restoring!NoteDatabase
  <2>4. [r.seen EXCEPT ![d] = "database"] \in Seq(Marks) /\ Len([r.seen EXCEPT ![d] = "database"]) = 2
    BY <2>1, <2>2, ExceptSeq DEF Marks
  <2>5. restore'[o] = [r EXCEPT !.at = "load", !.seen = [r.seen EXCEPT ![d] = "database"]]
    BY <1>a, <2>3 DEF RestoreTyped
  <2>6. restore' \in [Operators -> [at : {"rest", "check", "failed"} \cup Loading,
                                    archive : Restorable, seen : Seq(Marks)]]
    <3>1. \A p \in Operators \ {o} : restore'[p] = restore[p]
      BY <1>a, <2>3 DEF RestoreTyped
    <3>2. restore'[o] \in [at : {"rest", "check", "failed"} \cup Loading,
                           archive : Restorable, seen : Seq(Marks)]
      BY <1>a, <2>4, <2>5 DEF RestoreTyped, Loading
    <3>3. DOMAIN restore' = Operators /\ restore' = [p \in Operators |-> restore'[p]]
      BY <1>a, <2>3 DEF RestoreTyped
    <3> QED BY <1>a, <3>1, <3>2, <3>3 DEF RestoreTyped
  <2>7. RestoreTyped'
    <3>1. [target[d] EXCEPT !.phase = "database"] \in
            [tables : Restorable, owner : Restorable, phase : Marks]
      BY <1>a, <2>2 DEF RestoreTyped, Marks
    <3>2. target' \in [1 .. 2 -> [tables : Restorable, owner : Restorable, phase : Marks]]
      BY <1>a, <2>2, <2>3, <3>1 DEF RestoreTyped
    <3> QED BY <1>a, <2>3, <2>6, <3>2 DEF RestoreTyped
  <2>8. target'[d] = [target[d] EXCEPT !.phase = "database"] /\ \A e \in 1 .. 2 \ {d} : target'[e] = target[e]
    BY <1>a, <2>2, <2>3 DEF RestoreTyped
  <2>9. \A e \in 1 .. 2 : target'[e].owner = target[e].owner /\ target'[e].tables = target[e].tables
    BY <1>a, <2>2, <2>8 DEF RestoreTyped
  <2>10. Onward
    BY <2>3, <2>9 DEF Onward
  <2>11. \A a : Restoring!Whole(a)' <=> Restoring!Whole(a)
    BY <2>3, <2>9 DEF Restoring!Whole
  <2>12. TargetOK'
    <3>1. \A e \in 1 .. 2 : target'[e].phase = target[e].phase \/ (e = d /\ target'[e].phase = "database")
      BY <1>a, <2>2, <2>8 DEF RestoreTyped
    <3>2. ASSUME NEW e \in 1 .. 2, target'[e].phase = "complete"
          PROVE  Restoring!Whole(target[e].owner)'
      BY <1>b, <2>3, <2>9, <3>1, <3>2 DEF TargetOK, Restoring!Whole
    <3> QED BY <1>b, <1>0, <2>1, <2>9, <3>1, <3>2 DEF TargetOK
  <2>13. RunOK(o)'
    <3>1. restore'[o].at = "load" /\ restore'[o].archive = r.archive
          /\ restore'[o].seen = [r.seen EXCEPT ![d] = "database"]
      BY <1>a, <2>5 DEF RestoreTyped
    <3>2. \A e \in 1 .. 2 : restore'[o].seen[e] = r.seen[e] \/ e = d
      BY <2>1, <2>2, <3>1
    <3>3. \A e \in 1 .. 2 : /\ target'[e].owner = r.archive
                            /\ restore'[o].seen[e] # "pending" => target'[e].tables = r.archive
      BY <2>1, <2>9, <3>2
    <3> QED BY <1>c, <2>1, <2>4, <3>1, <3>3 DEF RunOK, Loading
  <2> QED BY <1>a, <2>3, <2>7, <2>10, <2>12, <2>13, RunsOn DEF RestoreTyped
<1>8. ASSUME NEW o \in Operators, Restoring!RestoreObject(o) PROVE RestoreOK'
  <2> DEFINE r == restore[o]
             mine == ObjectsOf[r.archive]
  <2>1. /\ r.at = "objects" /\ r.archive \in Archives /\ Len(r.seen) = 2
        /\ \A e \in 1 .. 2 : target[e].tables = r.archive /\ target[e].owner = r.archive
        /\ Restoring!ToLoad(o) = {}
    BY <1>a, <1>c, <1>8 DEF Restoring!RestoreObject, RunOK, RestoreTyped, Loading, Restoring!ToLoad
  <2>2. CASE UNCHANGED bucket /\ restore' = [restore EXCEPT ![o].at = "finish"]
             /\ \A k \in DOMAIN mine : bucket[k] = mine[k]
    <3>1. UNCHANGED <<written, target>>
      BY <1>8 DEF Restoring!RestoreObject
    <3>2. RestoreTyped' /\ restore'[o] = [r EXCEPT !.at = "finish"]
      BY <1>a, <2>2, <3>1 DEF RestoreTyped, Loading
    <3>3. Restoring!Whole(r.archive) /\ Restoring!ToLoad(o)' = {}
      BY <1>a, <2>1, <2>2, <3>2 DEF Restoring!Whole, Restoring!ToLoad, RestoreTyped
    <3>4. RunOK(o)' /\ \A p \in Operators \ {o} : restore'[p] = restore[p]
      BY <1>a, <1>c, <2>1, <2>2, <3>1, <3>2, <3>3 DEF RunOK, Loading, RestoreTyped, Restoring!Whole
    <3> QED BY <2>2, <3>1, <3>2, <3>4, LooksOn
  <2>3. ASSUME NEW k \in DOMAIN mine, bucket' = [bucket EXCEPT ![k] = Restoring!PutObject(o, k)],
               restore' = [restore EXCEPT ![o].at =
                             IF Restoring!PutObject(o, k) = mine[k] THEN @ ELSE "failed"]
        PROVE  RestoreOK'
    <3>1. UNCHANGED <<written, target>>
      BY <1>8 DEF Restoring!RestoreObject
    <3>2. RestoreTyped' /\ \A p \in Operators \ {o} : restore'[p] = restore[p]
      BY <1>a, <2>3, <3>1 DEF RestoreTyped, Loading
    <3>3. Onward
      BY <1>a, <2>3, <3>1 DEF Onward, RestoreTyped, Restoring!PutObject
    <3>4. \A a \in Archives : Restoring!Whole(a) => Restoring!Whole(a)'
      BY <3>3, <1>a, WholeStays
    <3>5. TargetOK'
      BY <1>b, <1>0, <2>1, <3>1, <3>4 DEF TargetOK, Restoring!Whole
    <3>6. /\ restore'[o].at \in {"objects", "failed"} /\ restore'[o].archive = r.archive
          /\ restore'[o].seen = r.seen
      BY <1>a, <2>1, <2>3 DEF RestoreTyped
    <3>7. RunOK(o)'
      BY <1>c, <2>1, <3>1, <3>6 DEF RunOK, Loading, Restoring!ToLoad
    <3> QED BY <3>2, <3>3, <3>5, <3>7, RunsOn
  <2> QED BY <1>8, <2>2, <2>3 DEF Restoring!RestoreObject, Restoring!Goes
<1>9. ASSUME NEW o \in Operators, Restoring!FinishRestore(o) PROVE RestoreOK'
  <2> DEFINE r == restore[o]
             d == Restoring!First(Restoring!Unfinished(o))
  <2>1. /\ r.at = "finish" /\ r.archive \in Archives /\ Len(r.seen) = 2
        /\ \A e \in 1 .. 2 : target[e].tables = r.archive /\ target[e].owner = r.archive
        /\ Restoring!ToLoad(o) = {} /\ Restoring!Whole(r.archive)
    BY <1>a, <1>c, <1>9 DEF Restoring!FinishRestore, RunOK, RestoreTyped, Loading, Restoring!ToLoad
  <2>2. UNCHANGED <<written, bucket>>
    BY <1>9 DEF Restoring!FinishRestore
  <2>3. CASE Restoring!Unfinished(o) = {}
    <3>1. restore' = [restore EXCEPT ![o].at = "done"] /\ UNCHANGED target
      BY <1>9, <2>3 DEF Restoring!FinishRestore, Restoring!Goes
    <3>2. RestoreTyped' /\ restore'[o] = [r EXCEPT !.at = "done"]
      BY <1>a, <2>2, <3>1 DEF RestoreTyped, Loading
    <3>3. Restoring!ToLoad(o)' = {}
      BY <1>a, <2>1, <3>2 DEF Restoring!ToLoad, RestoreTyped
    <3>4. RunOK(o)' /\ \A p \in Operators \ {o} : restore'[p] = restore[p]
      BY <1>a, <1>c, <2>1, <2>2, <3>1, <3>2, <3>3 DEF RunOK, Loading, RestoreTyped, Restoring!Whole
    <3> QED BY <2>2, <3>1, <3>2, <3>4, LooksOn
  <2>4. CASE Restoring!Unfinished(o) # {}
    <3>1. d \in 1 .. 2
      BY <2>4, FirstOf DEF Restoring!Unfinished
    <3>2. target' = [target EXCEPT ![d].phase = "complete"] /\ UNCHANGED restore
      BY <1>9, <2>4 DEF Restoring!FinishRestore
    <3>3. /\ target'[d] = [target[d] EXCEPT !.phase = "complete"]
          /\ \A e \in 1 .. 2 \ {d} : target'[e] = target[e]
      BY <1>a, <3>1, <3>2 DEF RestoreTyped
    <3>4. \A e \in 1 .. 2 : target'[e].owner = target[e].owner /\ target'[e].tables = target[e].tables
      BY <1>a, <3>1, <3>3 DEF RestoreTyped
    <3>5. Onward
      BY <2>2, <3>4 DEF Onward
    <3>6. \A a : Restoring!Whole(a)' <=> Restoring!Whole(a)
      BY <2>2, <3>4 DEF Restoring!Whole
    <3>7. TargetOK'
      <4>1. \A e \in 1 .. 2 : target'[e].owner = r.archive /\ target'[e].tables = r.archive
        BY <2>1, <3>4
      <4>2. Restoring!Whole(r.archive)'
        BY <2>1, <2>2, <3>2, <3>4 DEF Restoring!Whole
      <4> QED BY <1>b, <1>0, <2>1, <3>2, <4>1, <4>2 DEF TargetOK, Restoring!Whole
    <3>8. RestoreTyped'
      BY <1>a, <2>2, <3>1, <3>2 DEF RestoreTyped, Marks
    <3>9. RunOK(o)' /\ \A p \in Operators \ {o} : restore'[p] = restore[p]
      BY <1>a, <1>c, <3>2, <3>5, RunStays
    <3> QED BY <3>5, <3>7, <3>8, <3>9, RunsOn
  <2> QED BY <2>3, <2>4
<1>10. ASSUME NEW o \in Operators, Restoring!StopRestore(o) PROVE RestoreOK'
  BY <1>3, <1>10 DEF Restoring!StopRestore
<1> QED
  BY <1>1, <1>2, <1>4, <1>5, <1>6, <1>7, <1>8, <1>9, <1>10 DEF Restoring!Next

LEMMA RestoredWhole == RestoreOK => TargetWhole
<1>1. SUFFICES ASSUME RestoreOK PROVE Restoring!TargetWhole
  BY DEF TargetWhole
<1> QED BY <1>1 DEF RestoreOK, TargetOK, RunOK, Restoring!TargetWhole

-----------------------------------------------------------------------------
(* The preparation of an installation.                                     *)

Bases == Deploying!Databases
List(t, d) == MigrationsOf[ReleaseOf[t]][d]
Changes == UNION {Deploying!ToSet(MigrationsOf[r][d]) : r \in Releases, d \in Bases}
Looking == [at : {"look", "make"}, i : Nat]
Staged == [at : {"stage"}, k : 1 .. 4, i : Nat \ {0}]

\* A run is at a migration only if those before it are in the ledger.
ToolOK(t) ==
  /\ tool[t] \in {Deploying!Ended} \cup Looking \cup Staged
  /\ tool[t].at = "stage" =>
       \A d \in Bases : Deploying!Stages(t)[tool[t].k] = d =>
         \A j \in 1 .. Len(List(t, d)) : j < tool[t].i => List(t, d)[j] \in ledger[d]
Begun(s, list) == Len(s) =< Len(list) /\ \A i \in 1 .. Len(s) : s[i] = list[i]
Members(s) == {s[i] : i \in 1 .. Len(s)}
SchemaOK(d) ==
  /\ schema[d] \in Seq(Changes)
  /\ \E r \in Releases : Begun(schema[d], MigrationsOf[r][d])
  /\ ledger[d] = Members(schema[d])
MigrationsOK ==
  /\ DOMAIN schema = Bases /\ DOMAIN ledger = Bases /\ DOMAIN tool = Tools
  /\ \A d \in Bases : SchemaOK(d)
  /\ \A t \in Tools : ToolOK(t)

\* The ledger only grows.
LEMMA ToolStays ==
  ASSUME NEW t \in Tools, ToolOK(t), tool'[t] = tool[t],
         \A d \in Bases : ledger[d] \subseteq ledger'[d]
  PROVE  ToolOK(t)'
BY DEF ToolOK, List, Deploying!Stages

LEMMA Lists ==
  ASSUME NEW r \in Releases, NEW d \in Bases
  PROVE  /\ MigrationsOf[r][d] \in Seq(Changes)
         /\ DOMAIN MigrationsOf[r][d] = 1 .. Len(MigrationsOf[r][d])
<1>1. MigrationsOf[r][d] \in Seq(Deploying!ToSet(MigrationsOf[r][d]))
  BY ToolAssumption DEF Deploying!DeploymentAssumption, Bases
<1>2. Deploying!ToSet(MigrationsOf[r][d]) \subseteq Changes
  BY DEF Changes
<1>3. MigrationsOf[r][d] \in Seq(Changes)
  BY <1>1, <1>2, SeqMonotonic
<1> QED BY <1>3, LenProperties

\* A schema that has all migrations of a list before one, and not that one, has
\* nothing else.
LEMMA NextOne ==
  ASSUME NEW d \in Bases, NEW r \in Releases, NEW q \in Releases, NEW s \in Seq(Changes),
         Begun(s, MigrationsOf[r][d]), NEW i \in 1 .. Len(MigrationsOf[q][d]),
         \A j \in 1 .. Len(MigrationsOf[q][d]) : j < i =>
           \E p \in 1 .. Len(s) : s[p] = MigrationsOf[q][d][j],
         ~ \E p \in 1 .. Len(s) : s[p].name = MigrationsOf[q][d][i].name
  PROVE  Len(s) = i - 1 /\ \A j \in 1 .. Len(s) : s[j] = MigrationsOf[q][d][j]
<1> DEFINE L == MigrationsOf[r][d]
           M == MigrationsOf[q][d]
<1>0. PICK ls \in Nat, ll \in Nat, lm \in Nat : ls = Len(s) /\ ll = Len(L) /\ lm = Len(M)
  BY Lists, LenProperties
<1>1. DOMAIN L = 1 .. ll /\ DOMAIN M = 1 .. lm
  BY <1>0, Lists
<1>2. /\ \A a, b \in 1 .. ll : L[a].name = L[b].name => a = b
      /\ \A a, b \in 1 .. lm : M[a].name = M[b].name => a = b
      /\ \A a \in 1 .. ll : a \in 1 .. lm => L[a].name = M[a].name
  <2>1. \A u \in Releases :
          /\ \A a, b \in DOMAIN MigrationsOf[u][d] :
               MigrationsOf[u][d][a].name = MigrationsOf[u][d][b].name => a = b
          /\ \A v \in Releases : \A a \in DOMAIN MigrationsOf[u][d] \cap DOMAIN MigrationsOf[v][d] :
               MigrationsOf[u][d][a].name = MigrationsOf[v][d][a].name
    BY ToolAssumption DEF Deploying!DeploymentAssumption, Bases
  <2> QED BY <1>1, <2>1
<1>3. ls =< ll /\ (\A a \in 1 .. ls : s[a] = L[a]) /\ i \in 1 .. lm
  BY <1>0 DEF Begun
<1>4. ASSUME NEW j \in 1 .. lm, j < i PROVE j =< ls /\ s[j] = M[j]
  <2>1. PICK p \in 1 .. ls : s[p] = M[j]
    BY <1>0, <1>4
  <2>2. L[p].name = M[j].name /\ p \in 1 .. ll
    BY <1>3, <2>1
  <2>3. CASE j =< ll
    <3>1. j \in 1 .. ll
      BY <2>3
    <3>2. L[j].name = L[p].name
      BY <1>2, <2>2, <3>1
    <3>3. j = p
      BY <1>2, <2>2, <3>1, <3>2
    <3> QED BY <2>1, <3>3
  <2>4. CASE ~ (j =< ll)
    <3>1. p \in 1 .. lm /\ p # j
      BY <2>2, <2>4
    <3>2. L[p].name = M[p].name
      BY <1>2, <2>2, <3>1
    <3> QED BY <1>2, <2>2, <3>1, <3>2
  <2> QED BY <2>3, <2>4
<1>5. ls < i
  <2>1. SUFFICES ASSUME i =< ls PROVE FALSE
    OBVIOUS
  <2>2. i \in 1 .. ls /\ i \in 1 .. ll
    BY <1>3, <2>1
  <2>3. s[i] = L[i] /\ L[i].name = M[i].name
    BY <1>2, <1>3, <2>2
  <2> QED BY <1>0, <2>2, <2>3
<1>6. i - 1 =< ls
  <2>1. CASE i = 1
    BY <2>1
  <2>2. CASE i # 1
    <3>1. i - 1 \in 1 .. lm /\ i - 1 < i
      BY <1>3, <2>2
    <3> QED BY <1>4, <3>1
  <2> QED BY <2>1, <2>2
<1>7. ls = i - 1
  BY <1>5, <1>6
<1>8. \A j \in 1 .. ls : s[j] = M[j]
  <2>1. \A j \in 1 .. ls : j \in 1 .. lm /\ j < i
    BY <1>3, <1>7
  <2> QED BY <1>4, <2>1
<1> QED BY <1>0, <1>7, <1>8

\* A schema with the next migration of a list.
LEMMA OneMore ==
  ASSUME NEW S, NEW s \in Seq(S), NEW list \in Seq(S), Len(s) + 1 \in 1 .. Len(list),
         Begun(s, list)
  PROVE  /\ Append(s, list[Len(s) + 1]) \in Seq(S)
         /\ Begun(Append(s, list[Len(s) + 1]), list)
         /\ Members(Append(s, list[Len(s) + 1])) = Members(s) \cup {list[Len(s) + 1]}
<1>0. PICK ls \in Nat, lm \in Nat : ls = Len(s) /\ lm = Len(list)
  BY LenProperties
<1> DEFINE new == Append(s, list[ls + 1])
<1>1. ls + 1 \in 1 .. lm /\ list[ls + 1] \in S
  BY <1>0, ElementOfSeq
<1>2. /\ new \in Seq(S) /\ Len(new) = ls + 1 /\ new[ls + 1] = list[ls + 1]
      /\ \A j \in 1 .. ls : new[j] = s[j]
  BY <1>0, <1>1, AppendProperties
<1>3. \A j \in 1 .. ls : s[j] = list[j]
  BY <1>0 DEF Begun
<1>4. \A j \in 1 .. ls + 1 : j \in 1 .. ls \/ j = ls + 1
  OBVIOUS
<1>5. Begun(new, list)
  BY <1>0, <1>1, <1>2, <1>3, <1>4 DEF Begun
<1>6. {new[j] : j \in 1 .. ls + 1} = {s[j] : j \in 1 .. ls} \cup {list[ls + 1]}
  <2>1. \A j \in 1 .. ls : j \in 1 .. ls + 1
    OBVIOUS
  <2>2. ls + 1 \in 1 .. ls + 1
    OBVIOUS
  <2> QED BY <1>2, <1>4, <2>1, <2>2
<1> QED BY <1>0, <1>2, <1>5, <1>6 DEF Members

LEMMA MigrationsInitial == ToolInit => MigrationsOK
<1>1. SUFFICES ASSUME Deploying!Init PROVE MigrationsOK
  BY DEF ToolInit
<1>2. PICK r \in Releases : TRUE
  BY ToolAssumption DEF Deploying!DeploymentAssumption
<1>3. ASSUME NEW d \in Bases PROVE SchemaOK(d)
  <2>1. schema[d] = <<>> /\ ledger[d] = {}
    BY <1>1, <1>3 DEF Deploying!Init, Bases
  <2>2. <<>> \in Seq(Changes) /\ Len(<<>>) = 0 /\ \A i \in 1 .. 0 : FALSE
    OBVIOUS
  <2>3. Len(MigrationsOf[r][d]) \in Nat
    BY <1>3, Lists, LenProperties
  <2>4. Begun(<<>>, MigrationsOf[r][d])
    BY <2>2, <2>3 DEF Begun
  <2> QED BY <2>1, <2>2, <2>4 DEF SchemaOK, Members
<1>4. \A t \in Tools : ToolOK(t)
  BY <1>1 DEF Deploying!Init, ToolOK, Deploying!Ended
<1> QED BY <1>1, <1>3, <1>4 DEF MigrationsOK, Deploying!Init, Bases

\* A run that only goes on, to a place where nothing is asked of the ledger.
LEMMA PlaceOnly ==
  ASSUME MigrationsOK, NEW t \in Tools, UNCHANGED <<schema, ledger>>, NEW to,
         tool' = [tool EXCEPT ![t] = to],
         to \in {Deploying!Ended} \cup Looking \cup {Deploying!Stage(k) : k \in 1 .. 4}
  PROVE  MigrationsOK'
<1>1. DOMAIN tool = Tools /\ tool'[t] = to /\ \A u \in Tools \ {t} : tool'[u] = tool[u]
  BY DEF MigrationsOK
<1>2. \A u \in Tools \ {t} : ToolOK(u)'
  BY <1>1, ToolStays DEF MigrationsOK
<1>3. ToolOK(t)'
  <2>1. CASE to \in {Deploying!Ended} \cup Looking
    BY <1>1, <2>1 DEF ToolOK, Deploying!Ended, Looking
  <2>2. CASE to \in {Deploying!Stage(k) : k \in 1 .. 4}
    <3>1. PICK k \in 1 .. 4 : to = [at |-> "stage", k |-> k, i |-> 1]
      BY <2>2 DEF Deploying!Stage
    <3>2. to \in Staged /\ to.i = 1 /\ \A j \in Nat \ {0} : ~ (j < 1)
      BY <3>1 DEF Staged
    <3>3. \A d \in Bases : \A j \in 1 .. Len(List(t, d)) : j \in Nat \ {0}
      BY Lists, LenProperties, ToolAssumption DEF List, Deploying!DeploymentAssumption
    <3> QED BY <1>1, <3>2, <3>3 DEF ToolOK, List
  <2> QED BY <2>1, <2>2
<1>4. \A d \in Bases : SchemaOK(d)'
  BY DEF MigrationsOK, SchemaOK
<1> QED BY <1>1, <1>2, <1>3, <1>4 DEF MigrationsOK

LEMMA MigrationsStep ==
  ASSUME MigrationsOK, [Deploying!Next]_deployVars
  PROVE  MigrationsOK'
<1>1. ASSUME UNCHANGED <<schema, ledger, tool>> PROVE MigrationsOK'
  <2>1. \A d \in Bases : SchemaOK(d)'
    BY <1>1 DEF MigrationsOK, SchemaOK
  <2>2. \A t \in Tools : ToolOK(t)'
    BY <1>1, ToolStays DEF MigrationsOK
  <2> QED BY <1>1, <2>1, <2>2 DEF MigrationsOK
<1>2. CASE UNCHANGED deployVars \/ Deploying!Upgrading
  BY <1>1, <1>2
     DEF deployVars, Deploying!Upgrading, Deploying!StartUpgrade, Deploying!WriteFile, Deploying!StopUpgrade
<1>3. ASSUME NEW t \in Tools, tool[t].at = "stage"
      PROVE  /\ tool[t] \in Staged
             /\ Deploying!Done(t) \in {Deploying!Ended} \cup {Deploying!Stage(k) : k \in 1 .. 4}
             /\ Deploying!Failed(t) \in {Deploying!Ended} \cup {Deploying!Stage(k) : k \in 1 .. 4}
  <2>1. tool[t] \in Staged
    BY <1>3 DEF MigrationsOK, ToolOK, Deploying!Ended, Looking
  <2>2. tool[t].k \in 1 .. 4 /\ (tool[t].k # 4 => tool[t].k + 1 \in 1 .. 4)
    BY <2>1 DEF Staged
  <2> QED BY <2>1, <2>2 DEF Deploying!Done, Deploying!Failed
<1>4. ASSUME NEW t \in Tools, Deploying!StartTool(t) PROVE MigrationsOK'
  <2>1. Deploying!Stage(1) \in {Deploying!Stage(k) : k \in 1 .. 4} /\ [at |-> "look", i |-> 1] \in Looking
    BY DEF Looking
  <2> QED BY <1>4, <2>1, PlaceOnly DEF Deploying!StartTool, Deploying!Goes
<1>5. ASSUME NEW t \in Tools, Deploying!FailTool(t) PROVE MigrationsOK'
  BY <1>3, <1>5, PlaceOnly DEF Deploying!FailTool, Deploying!Goes
<1>6. ASSUME NEW t \in Tools, Deploying!LookFor(t) PROVE MigrationsOK'
  <2>1. tool[t] \in Looking /\ tool[t].at = "look"
    BY <1>6 DEF Deploying!LookFor, MigrationsOK, ToolOK, Deploying!Ended, Staged
  <2>2. [tool[t] EXCEPT !.i = @ + 1] \in Looking /\ [tool[t] EXCEPT !.at = "make"] \in Looking
    BY <2>1 DEF Looking
  <2>3. Deploying!Stage(1) \in {Deploying!Stage(k) : k \in 1 .. 4}
    OBVIOUS
  <2> QED BY <1>6, <2>2, <2>3, PlaceOnly DEF Deploying!LookFor, Deploying!Goes
<1>7. ASSUME NEW t \in Tools, Deploying!MakeObject(t) PROVE MigrationsOK'
  <2>1. tool[t] \in Looking /\ tool[t].i + 1 \in Nat
    BY <1>7 DEF Deploying!MakeObject, MigrationsOK, ToolOK, Deploying!Ended, Staged, Looking
  <2>2. [at |-> "look", i |-> tool[t].i + 1] \in Looking
    BY <2>1 DEF Looking
  <2> QED BY <1>7, <2>2, PlaceOnly DEF Deploying!MakeObject, Deploying!Goes
<1>8. ASSUME NEW t \in Tools, Deploying!SeedPrompts(t) \/ Deploying!SeedPolicies(t)
      PROVE  MigrationsOK'
  BY <1>3, <1>8, PlaceOnly
     DEF Deploying!SeedPrompts, Deploying!SeedPolicies, Deploying!On, Deploying!Goes
<1>9. ASSUME NEW t \in Tools, NEW d \in Bases, Deploying!MigrateOne(t, d) PROVE MigrationsOK'
  <2> DEFINE i == tool[t].i
             list == List(t, d)
             m == list[i]
             r == ReleaseOf[t]
  <2>1. tool[t].at = "stage" /\ Deploying!Stages(t)[tool[t].k] = d
    BY <1>9 DEF Deploying!MigrateOne, Deploying!On
  <2>2. tool[t] \in Staged /\ i \in Nat \ {0}
    BY <1>3, <2>1 DEF Staged
  <2>3. r \in Releases /\ list = MigrationsOf[r][d] /\ Len(list) \in Nat
    BY Lists, LenProperties, ToolAssumption DEF List, Deploying!DeploymentAssumption
  <2>4. CASE i > Len(list) \/ (~ (i > Len(list)) /\ Deploying!Altered(d, m))
    BY <1>3, <1>9, <2>1, <2>4, PlaceOnly DEF Deploying!MigrateOne, Deploying!Goes, List
  <2>5. CASE ~ (i > Len(list)) /\ ~ Deploying!Altered(d, m)
    <3>0. i \in 1 .. Len(list)
      BY <2>2, <2>3, <2>5
    <3>1. /\ tool' = [tool EXCEPT ![t] = [tool[t] EXCEPT !.i = i + 1]]
          /\ IF Deploying!Entered(d, m) THEN UNCHANGED <<schema, ledger>>
             ELSE /\ schema' = [schema EXCEPT ![d] = Append(@, m)]
                  /\ ledger' = [ledger EXCEPT ![d] = @ \cup {m}]
      BY <1>9, <2>5 DEF Deploying!MigrateOne, Deploying!Goes, List
    <3>2. /\ tool'[t] = [tool[t] EXCEPT !.i = i + 1] /\ DOMAIN tool' = Tools
          /\ \A u \in Tools \ {t} : tool'[u] = tool[u]
      BY <3>1 DEF MigrationsOK
    <3>3. /\ m \in ledger'[d] /\ (\A e \in Bases : ledger[e] \subseteq ledger'[e])
          /\ DOMAIN schema' = Bases /\ DOMAIN ledger' = Bases
      BY <2>5, <3>1 DEF MigrationsOK, Deploying!Altered
    <3>4. \A u \in Tools \ {t} : ToolOK(u)'
      BY <3>2, <3>3, ToolStays DEF MigrationsOK
    <3>5. ToolOK(t)'
      <4>1. tool'[t] \in Staged /\ tool'[t].at = "stage" /\ tool'[t].k = tool[t].k /\ tool'[t].i = i + 1
        BY <2>2, <3>2 DEF Staged
      <4>2. \A j \in 1 .. Len(list) : j < i => list[j] \in ledger[d]
        BY <2>1 DEF MigrationsOK, ToolOK
      <4>3. \A j \in 1 .. Len(list) : j < i + 1 => j < i \/ j = i
        BY <2>2, <2>3
      <4>4. \A j \in 1 .. Len(list) : j < i + 1 => list[j] \in ledger'[d]
        BY <3>3, <4>2, <4>3
      <4> QED BY <2>1, <4>1, <4>4 DEF ToolOK, Deploying!Stages, List
    <3>6. CASE Deploying!Entered(d, m)
      <4>1. \A e \in Bases : SchemaOK(e)'
        BY <3>1, <3>6 DEF MigrationsOK, SchemaOK
      <4> QED BY <3>2, <3>3, <3>4, <3>5, <4>1 DEF MigrationsOK
    <3>7. CASE ~ Deploying!Entered(d, m)
      <4> DEFINE s == schema[d]
      <4>1. PICK q \in Releases : Begun(s, MigrationsOf[q][d])
        BY DEF MigrationsOK, SchemaOK
      <4>2. s \in Seq(Changes) /\ ledger[d] = Members(s)
        BY DEF MigrationsOK, SchemaOK
      <4>3. \A j \in 1 .. Len(list) : j < i => \E p \in 1 .. Len(s) : s[p] = list[j]
        BY <2>1, <4>2 DEF MigrationsOK, ToolOK, Members
      <4>4. ~ \E p \in 1 .. Len(s) : s[p].name = m.name
        BY <3>7, <4>2 DEF Deploying!Entered, Members
      <4>5. Len(s) = i - 1 /\ \A j \in 1 .. Len(s) : s[j] = list[j]
        <5>1. PICK n \in 1 .. Len(MigrationsOf[r][d]) : n = i
          BY <2>3, <3>0
        <5>2. /\ \A j \in 1 .. Len(MigrationsOf[r][d]) : j < n =>
                   \E p \in 1 .. Len(s) : s[p] = MigrationsOf[r][d][j]
              /\ ~ \E p \in 1 .. Len(s) : s[p].name = MigrationsOf[r][d][n].name
          BY <2>3, <4>3, <4>4, <5>1
        <5>3. r \in Releases /\ s \in Seq(Changes)
          BY <2>3, <4>2
        <5>4. Len(s) = n - 1 /\ \A j \in 1 .. Len(s) : s[j] = MigrationsOf[r][d][j]
          BY <4>1, <5>2, <5>3, NextOne
        <5> QED BY <2>3, <5>1, <5>4
      <4>6. /\ Append(s, m) \in Seq(Changes) /\ Begun(Append(s, m), list)
            /\ Members(Append(s, m)) = ledger[d] \cup {m}
        <5>1. list \in Seq(Changes) /\ Len(s) \in Nat
          BY <2>3, <4>2, Lists, LenProperties
        <5>2. Len(s) + 1 = i /\ Len(s) + 1 \in 1 .. Len(list)
          BY <2>2, <3>0, <4>5, <5>1
        <5>3. Begun(s, list)
          BY <2>3, <4>5, <5>1, <5>2 DEF Begun
        <5>4. /\ Append(s, list[Len(s) + 1]) \in Seq(Changes)
              /\ Begun(Append(s, list[Len(s) + 1]), list)
              /\ Members(Append(s, list[Len(s) + 1])) = Members(s) \cup {list[Len(s) + 1]}
          BY <4>2, <5>1, <5>2, <5>3, OneMore
        <5> QED BY <4>2, <5>2, <5>4
      <4>7. /\ schema'[d] = Append(s, m) /\ ledger'[d] = ledger[d] \cup {m}
            /\ \A e \in Bases \ {d} : schema'[e] = schema[e] /\ ledger'[e] = ledger[e]
        BY <3>1, <3>7 DEF MigrationsOK
      <4>8. SchemaOK(d)'
        BY <2>3, <4>6, <4>7 DEF SchemaOK
      <4>9. \A e \in Bases \ {d} : SchemaOK(e)'
        BY <4>7 DEF MigrationsOK, SchemaOK
      <4> QED BY <3>2, <3>3, <3>4, <3>5, <4>8, <4>9 DEF MigrationsOK
    <3> QED BY <3>6, <3>7
  <2> QED BY <2>4, <2>5
<1>10. CASE Deploying!Preparing
  BY <1>4, <1>5, <1>6, <1>7, <1>8, <1>9, <1>10 DEF Deploying!Preparing, Bases
<1> QED BY <1>2, <1>10 DEF Deploying!Next

LEMMA MigratedInTurn == MigrationsOK => Deploying!Migrated
<1>1. SUFFICES ASSUME MigrationsOK, NEW d \in Bases
               PROVE  /\ \E r \in Releases : Deploying!IsPrefix(schema[d], MigrationsOf[r][d])
                      /\ ledger[d] = Deploying!ToSet(schema[d])
  BY DEF Deploying!Migrated, Bases
<1> DEFINE s == schema[d]
<1>2. s \in Seq(Changes) /\ ledger[d] = {s[i] : i \in 1 .. Len(s)}
  BY <1>1 DEF MigrationsOK, SchemaOK, Members
<1>3. PICK r \in Releases : Begun(s, MigrationsOf[r][d])
  BY <1>1 DEF MigrationsOK, SchemaOK
<1> DEFINE L == MigrationsOf[r][d]
<1>4. PICK ls \in Nat, ll \in Nat : ls = Len(s) /\ ll = Len(L) /\ ls =< ll
  BY <1>2, <1>3, Lists, LenProperties DEF Begun
<1>5. \A i \in 1 .. ls : s[i] \in Changes /\ L[i] \in Changes
  <2>1. \A i \in 1 .. ls : i \in 1 .. ll
    BY <1>4
  <2> QED BY <1>2, <1>4, <2>1, Lists, ElementOfSeq
<1>6. /\ SubSeq(s, 1, ls) \in Seq(Changes) /\ Len(SubSeq(s, 1, ls)) = ls
      /\ \A i \in 1 .. ls : SubSeq(s, 1, ls)[i] = s[i]
  <2>1. /\ SubSeq(s, 1, ls) \in Seq(Changes)
        /\ Len(SubSeq(s, 1, ls)) = IF 1 =< ls THEN ls - 1 + 1 ELSE 0
        /\ \A i \in 1 .. ls - 1 + 1 : SubSeq(s, 1, ls)[i] = s[1 + i - 1]
    BY <1>5, SubSeqProperties
  <2> QED BY <2>1
<1>7. /\ SubSeq(L, 1, ls) \in Seq(Changes) /\ Len(SubSeq(L, 1, ls)) = ls
      /\ \A i \in 1 .. ls : SubSeq(L, 1, ls)[i] = L[i]
  <2>1. /\ SubSeq(L, 1, ls) \in Seq(Changes)
        /\ Len(SubSeq(L, 1, ls)) = IF 1 =< ls THEN ls - 1 + 1 ELSE 0
        /\ \A i \in 1 .. ls - 1 + 1 : SubSeq(L, 1, ls)[i] = L[1 + i - 1]
    BY <1>5, SubSeqProperties
  <2> QED BY <2>1
<1>8. \A i \in 1 .. ls : s[i] = L[i]
  BY <1>3, <1>4 DEF Begun
<1>9. SubSeq(s, 1, ls) = SubSeq(L, 1, ls)
  BY <1>6, <1>7, <1>8, SeqEqual
<1>10. Deploying!IsPrefix(s, L)
  BY <1>4, <1>9 DEF Deploying!IsPrefix
<1>11. ledger[d] = Deploying!ToSet(s)
  BY <1>2, LenProperties DEF Deploying!ToSet
<1> QED BY <1>10, <1>11

\* What the seeds publish: lists of texts, and packs of positions in them.
Texts == {TextsOf[r][n] : r \in Releases, n \in Deploying!Nodes}
Rules == {PolicyOf[r][w] : r \in Releases, w \in Workflows}
PromptsOK ==
  /\ prompts \in [Deploying!Nodes -> Seq(Texts)] /\ policies \in [Workflows -> Seq(Rules)]
  /\ DOMAIN promptPacks = Workflows
  /\ \A w \in Workflows : promptPacks[w] \in Seq([NodesOf[w] -> Nat])
  /\ binding \in [Workflows -> [pack : Nat, policy : Nat]]
  /\ DOMAIN served = {"prompts", "policies"}
  /\ Deploying!Served

LEMMA FoundWhereAdded ==
  ASSUME NEW S, NEW list \in Seq(S), NEW x \in S
  PROVE  LET new == Deploying!Added(list, x)
         IN new \in Seq(S) /\ Deploying!Found(new, x) \in Nat /\ new[Deploying!Found(new, x)] = x
<1> DEFINE new == Deploying!Added(list, x)
<1>1. new \in Seq(S) /\ \E i \in DOMAIN new : new[i] = x
  <2>1. CASE Deploying!Contains(list, x)
    BY <2>1, LenProperties DEF Deploying!Added, Deploying!Contains
  <2>2. CASE ~ Deploying!Contains(list, x)
    <3>1. /\ new = Append(list, x) /\ new \in Seq(S) /\ Len(new) = Len(list) + 1
          /\ new[Len(list) + 1] = x
      BY <2>2, AppendProperties DEF Deploying!Added
    <3>2. Len(list) + 1 \in 1 .. Len(new) /\ DOMAIN new = 1 .. Len(new)
      BY <3>1, LenProperties
    <3> QED BY <3>1, <3>2
  <2> QED BY <2>1, <2>2
<1>2. Deploying!Found(new, x) \in DOMAIN new /\ new[Deploying!Found(new, x)] = x
  BY <1>1 DEF Deploying!Found
<1>3. DOMAIN new \subseteq Nat
  BY <1>1, LenProperties
<1> QED BY <1>1, <1>2, <1>3

LEMMA PromptsInitial == ToolInit => PromptsOK
<1>1. SUFFICES ASSUME Deploying!Init PROVE PromptsOK
  BY DEF ToolInit
<1>2. \A S : <<>> \in Seq(S)
  OBVIOUS
<1> QED
  BY <1>1, <1>2 DEF Deploying!Init, PromptsOK, Deploying!Served

LEMMA PromptsStep ==
  ASSUME PromptsOK, [Deploying!Next]_deployVars
  PROVE  PromptsOK'
<1>1. ASSUME UNCHANGED <<prompts, promptPacks, policies, binding, served>> PROVE PromptsOK'
  BY <1>1 DEF PromptsOK, Deploying!Served
<1>2. ASSUME NEW t \in Tools, Deploying!SeedPolicies(t) PROVE PromptsOK'
  <2> DEFINE r == ReleaseOf[t]
             published == [w \in Workflows |-> Deploying!Added(policies[w], PolicyOf[r][w])]
  <2>1. /\ UNCHANGED <<prompts, promptPacks>> /\ policies' = published
        /\ served' = [served EXCEPT !.policies = r]
        /\ binding' = [w \in Workflows |->
             [binding[w] EXCEPT !.policy = Deploying!Found(published[w], PolicyOf[r][w])]]
    BY <1>2 DEF Deploying!SeedPolicies
  <2>2. ASSUME NEW w \in Workflows
        PROVE  /\ published[w] \in Seq(Rules) /\ Deploying!Found(published[w], PolicyOf[r][w]) \in Nat
               /\ published[w][Deploying!Found(published[w], PolicyOf[r][w])] = PolicyOf[r][w]
    <3>1. r \in Releases
      BY ToolAssumption DEF Deploying!DeploymentAssumption
    <3>2. PolicyOf[r][w] \in Rules /\ policies[w] \in Seq(Rules)
      BY <3>1 DEF Rules, PromptsOK
    <3> QED BY <3>2, FoundWhereAdded
  <2>3. policies' \in [Workflows -> Seq(Rules)]
    BY <2>1, <2>2
  <2>4. binding' \in [Workflows -> [pack : Nat, policy : Nat]]
    BY <2>1, <2>2 DEF PromptsOK
  <2>5. \A w \in Workflows :
          /\ binding'[w].pack = binding[w].pack
          /\ binding'[w].policy = Deploying!Found(published[w], PolicyOf[r][w])
    BY <2>1 DEF PromptsOK
  <2> HIDE DEF published
  <2>6. Deploying!Served'
    <3>1. served'.prompts = served.prompts /\ served'.policies = r
      BY <2>1 DEF PromptsOK
    <3>2. \A w \in Workflows : policies'[w][binding'[w].policy] = PolicyOf[r][w]
      BY <2>1, <2>2, <2>5
    <3>3. \A w \in Workflows : promptPacks'[w][binding'[w].pack] = promptPacks[w][binding[w].pack]
      BY <2>1, <2>5
    <3>4. Deploying!Served /\ prompts' = prompts
      BY <2>1 DEF PromptsOK
    <3> HIDE DEF r
    <3> QED BY <3>1, <3>2, <3>3, <3>4 DEF Deploying!Served
  <2> QED BY <2>1, <2>3, <2>4, <2>6 DEF PromptsOK
<1>3. ASSUME NEW t \in Tools, Deploying!SeedPrompts(t) PROVE PromptsOK'
  <2> DEFINE r == ReleaseOf[t]
             published == [n \in Deploying!Nodes |-> Deploying!Added(prompts[n], TextsOf[r][n])]
             Entries(w) == [n \in NodesOf[w] |-> Deploying!Found(published[n], TextsOf[r][n])]
             packed == [w \in Workflows |-> Deploying!Added(promptPacks[w], Entries(w))]
  <2>1. /\ prompts' = published /\ promptPacks' = packed /\ UNCHANGED policies
        /\ served' = [served EXCEPT !.prompts = r]
        /\ binding' = [w \in Workflows |->
             [binding[w] EXCEPT !.pack = Deploying!Found(packed[w], Entries(w))]]
    BY <1>3 DEF Deploying!SeedPrompts
  <2>2. r \in Releases
    BY ToolAssumption DEF Deploying!DeploymentAssumption
  <2>3. ASSUME NEW n \in Deploying!Nodes
        PROVE  /\ published[n] \in Seq(Texts) /\ Deploying!Found(published[n], TextsOf[r][n]) \in Nat
               /\ published[n][Deploying!Found(published[n], TextsOf[r][n])] = TextsOf[r][n]
    <3>1. TextsOf[r][n] \in Texts /\ prompts[n] \in Seq(Texts)
      BY <2>2 DEF Texts, PromptsOK
    <3> QED BY <3>1, FoundWhereAdded
  <2>4. \A w \in Workflows : NodesOf[w] \subseteq Deploying!Nodes
    BY DEF Deploying!Nodes
  <2>5. ASSUME NEW w \in Workflows
        PROVE  /\ packed[w] \in Seq([NodesOf[w] -> Nat])
               /\ Deploying!Found(packed[w], Entries(w)) \in Nat
               /\ packed[w][Deploying!Found(packed[w], Entries(w))] = Entries(w)
    <3>1. Entries(w) \in [NodesOf[w] -> Nat] /\ promptPacks[w] \in Seq([NodesOf[w] -> Nat])
      BY <2>3, <2>4 DEF PromptsOK
    <3>2. PICK e : e = Entries(w)
      OBVIOUS
    <3>3. packed[w] = Deploying!Added(promptPacks[w], e)
      BY <3>2
    <3> HIDE DEF packed, Entries
    <3> QED BY <3>1, <3>2, <3>3, FoundWhereAdded
  <2> HIDE DEF published, packed
  <2>6. prompts' \in [Deploying!Nodes -> Seq(Texts)]
    BY <2>1, <2>3 DEF published
  <2>7. /\ DOMAIN promptPacks' = Workflows
        /\ \A w \in Workflows : promptPacks'[w] \in Seq([NodesOf[w] -> Nat])
    BY <2>1, <2>5 DEF packed
  <2>8. binding' \in [Workflows -> [pack : Nat, policy : Nat]]
    BY <2>1, <2>5 DEF PromptsOK
  <2>9. \A w \in Workflows : /\ binding'[w].pack = Deploying!Found(packed[w], Entries(w))
                             /\ binding'[w].policy = binding[w].policy
    BY <2>1 DEF PromptsOK
  <2>10. Deploying!Served'
    <3>0. served'.prompts = r /\ served'.policies = served.policies
      BY <2>1 DEF PromptsOK
    <3>a. \A w \in Workflows : policies'[w][binding'[w].policy] = policies[w][binding[w].policy]
      BY <2>1, <2>9
    <3>b. Deploying!Served
      BY DEF PromptsOK
    <3>1. SUFFICES ASSUME NEW w \in Workflows, NEW n \in NodesOf[w]
                   PROVE  prompts'[n][promptPacks'[w][binding'[w].pack][n]] = TextsOf[r][n]
      BY <3>0, <3>a, <3>b DEF Deploying!Served
    <3>2. promptPacks'[w][binding'[w].pack] = Entries(w)
      BY <2>1, <2>5, <2>9
    <3>3. Entries(w)[n] = Deploying!Found(published[n], TextsOf[r][n]) /\ n \in Deploying!Nodes
      BY <2>4
    <3> QED BY <2>1, <2>3, <3>2, <3>3
  <2> QED BY <2>1, <2>6, <2>7, <2>8, <2>10 DEF PromptsOK
<1>4. ASSUME Deploying!Preparing PROVE PromptsOK'
  <2>1. PICK t \in Tools :
          \/ Deploying!StartTool(t) \/ Deploying!FailTool(t) \/ Deploying!LookFor(t)
          \/ Deploying!MakeObject(t) \/ (\E d \in Bases : Deploying!MigrateOne(t, d))
          \/ Deploying!SeedPrompts(t) \/ Deploying!SeedPolicies(t)
    BY <1>4 DEF Deploying!Preparing, Bases
  <2> QED
    BY <1>1, <1>2, <1>3, <2>1
       DEF Deploying!StartTool, Deploying!FailTool, Deploying!LookFor, Deploying!MakeObject,
           Deploying!MigrateOne, Deploying!seeded
<1>5. ASSUME Deploying!Upgrading \/ UNCHANGED deployVars PROVE PromptsOK'
  BY <1>1, <1>5
     DEF Deploying!Upgrading, Deploying!StartUpgrade, Deploying!WriteFile, Deploying!StopUpgrade,
         Deploying!seeded, deployVars
<1> QED BY <1>4, <1>5 DEF Deploying!Next

\* The files as an upgrade under way finds them.
SecretsOK ==
  /\ secret \in [Bases -> Secrets \cup {None}]
  /\ upgrade.at \in {"ended", "write"}
  /\ upgrade.at = "write" =>
       /\ upgrade \in [at : {"write"}, d : Bases, key : Secrets]
       /\ \A d \in Bases : secret[d] \in {None, upgrade.key}
       /\ upgrade.d = "runtime" => secret["control"] = upgrade.key
  /\ Deploying!SecretsKept

LEMMA SecretsInitial == ToolInit => SecretsOK
<1>1. SUFFICES ASSUME Deploying!Init PROVE SecretsOK
  BY DEF ToolInit
<1>2. secret \in [Bases -> Secrets \cup {None}] /\ found = secret /\ upgrade.at = "ended"
  BY <1>1 DEF Deploying!Init, Deploying!Ended, Bases
<1> QED
  BY <1>2 DEF SecretsOK, Deploying!SecretsKept, Deploying!Disagree, Bases

LEMMA SecretsStep ==
  ASSUME SecretsOK, [Deploying!Next]_deployVars
  PROVE  SecretsOK'
<1>0. None \notin Secrets /\ Bases = {"control", "runtime"}
  BY ToolAssumption DEF Deploying!DeploymentAssumption, Bases, Deploying!Databases
<1>1. ASSUME UNCHANGED <<secret, found, upgrade>> PROVE SecretsOK'
  BY <1>1 DEF SecretsOK, Deploying!SecretsKept, Deploying!Disagree
<1>2. CASE Deploying!StartUpgrade
  <2>1. PICK k \in Secrets :
          upgrade' = [at |-> "write", d |-> "control", key |-> Deploying!KeyKept(k)]
    BY <1>2 DEF Deploying!StartUpgrade
  <2>2. UNCHANGED <<secret, found>> /\ ~ Deploying!Disagree
    BY <1>2 DEF Deploying!StartUpgrade
  <2>3. secret["control"] \in Secrets \cup {None} /\ secret["runtime"] \in Secrets \cup {None}
    BY <1>0 DEF SecretsOK
  <2>4. /\ Deploying!KeyKept(k) \in Secrets
        /\ secret["control"] \in {None, Deploying!KeyKept(k)}
        /\ secret["runtime"] \in {None, Deploying!KeyKept(k)}
    BY <2>2, <2>3 DEF Deploying!KeyKept, Deploying!Disagree
  <2>5. Deploying!SecretsKept'
    BY <2>2 DEF SecretsOK, Deploying!SecretsKept, Deploying!Disagree
  <2>6. upgrade' \in [at : {"write"}, d : Bases, key : Secrets] /\ upgrade'.d # "runtime"
    BY <1>0, <2>1, <2>4
  <2>7. \A d \in Bases : secret'[d] \in {None, upgrade'.key}
    BY <1>0, <2>1, <2>2, <2>4
  <2> QED BY <2>1, <2>2, <2>5, <2>6, <2>7 DEF SecretsOK
<1>3. CASE Deploying!WriteFile
  <2>1. /\ upgrade \in [at : {"write"}, d : Bases, key : Secrets]
        /\ \A d \in Bases : secret[d] \in {None, upgrade.key}
        /\ upgrade.d = "runtime" => secret["control"] = upgrade.key
    BY <1>3 DEF SecretsOK, Deploying!WriteFile
  <2>2. /\ UNCHANGED found /\ secret' = [secret EXCEPT ![upgrade.d] = upgrade.key]
        /\ upgrade' = IF upgrade.d = "control" THEN [upgrade EXCEPT !.d = "runtime"] ELSE Deploying!Ended
    BY <1>3 DEF Deploying!WriteFile
  <2>3. secret' \in [Bases -> Secrets \cup {None}] /\ \A d \in Bases : secret'[d] \in {None, upgrade.key}
    BY <2>1, <2>2 DEF SecretsOK
  <2>4. \A d \in Bases : found[d] # None => secret'[d] = found[d]
    <3>1. \A d \in Bases : found[d] # None => secret[d] = found[d]
      BY DEF SecretsOK, Deploying!SecretsKept, Bases
    <3> QED BY <2>1, <2>2, <3>1 DEF SecretsOK
  <2>5. ~ Deploying!Disagree'
    BY <1>0, <2>3 DEF Deploying!Disagree
  <2>6. upgrade'.at = "write" =>
          /\ upgrade' \in [at : {"write"}, d : Bases, key : Secrets] /\ upgrade'.key = upgrade.key
          /\ upgrade'.d = "runtime" => secret'["control"] = upgrade.key
    BY <1>0, <2>1, <2>2 DEF Deploying!Ended, SecretsOK
  <2>7. upgrade'.at \in {"ended", "write"}
    BY <2>1, <2>2 DEF Deploying!Ended
  <2> QED BY <2>2, <2>3, <2>4, <2>5, <2>6, <2>7 DEF SecretsOK, Deploying!SecretsKept, Bases
<1>4. CASE Deploying!StopUpgrade
  BY <1>4 DEF Deploying!StopUpgrade, Deploying!Ended, SecretsOK, Deploying!SecretsKept, Deploying!Disagree
<1>5. CASE Deploying!Preparing \/ UNCHANGED deployVars
  BY <1>1, <1>5
     DEF Deploying!Preparing, Deploying!StartTool, Deploying!FailTool, Deploying!LookFor,
         Deploying!MakeObject, Deploying!MigrateOne, Deploying!SeedPrompts, Deploying!SeedPolicies,
         Deploying!files, deployVars
<1> QED BY <1>2, <1>3, <1>4, <1>5 DEF Deploying!Next, Deploying!Upgrading

-----------------------------------------------------------------------------
(* Imports.                                                                *)

Copied == {"open", "records", "commit"}
Working == [at : {"check", "accounts", "project", "archive", "verify"} \cup Copied,
            bundle : Bundles, keys : BOOLEAN, left : SUBSET Novels, novel : Novels \cup {None}]
ImportTyped ==
  /\ import \in [Importers -> {Importing!Idle} \cup Working]
  /\ project \in [Novels -> Bundles \cup {None}] /\ history \in [Novels -> Bundles \cup {None}]
  /\ states \in [Novels -> Bundles \cup {None}]
  /\ record \in [Novels -> [Kinds -> Bundles \cup {None}]]
  /\ reported \subseteq Bundles \X BOOLEAN

\* All that is there of a project is of one export.
OneSource(n) ==
  history[n] \in {None, project[n]} /\ states[n] \in {None, project[n]}
  /\ \A r \in Kinds : record[n][r] \in {None, project[n]}
\* A project that an export has brought.
Brought(n, b) ==
  project[n] = b /\ history[n] = b /\ states[n] = b /\ \A r \in Kinds : record[n][r] = b
\* What a run has behind it: no other export's projects, and every project that it
\* neither has left nor is at.
RunsAt(i) ==
  LET m == import[i]
      b == m.bundle
  IN /\ m.left \subseteq NovelsOf[b]
     /\ m.at \in {"check", "accounts"} => m.left = NovelsOf[b]
     /\ m.at # "check" => \A n \in NovelsOf[b] : project[n] \in {None, b}
     /\ \A n \in NovelsOf[b] : n \in m.left \/ (m.at \in Copied /\ n = m.novel) \/ Brought(n, b)
     /\ m.at \in Copied => m.novel \in NovelsOf[b] /\ project[m.novel] = b
     /\ m.at = "commit" => /\ history[m.novel] = b
                           /\ \A r \in Kinds : record[m.novel][r] = b
     /\ m.at \in {"archive", "verify"} => m.left = {}
     /\ m.at = "verify" => b \in archived
Together ==
  \A i, j \in Importers :
    import[i] \in Working /\ import[j] \in Working => import[i].bundle = import[j].bundle
ImportOK ==
  /\ ImportTyped /\ Together
  /\ \A n \in Novels : OneSource(n)
  /\ \A i \in Importers : import[i] \in Working => RunsAt(i)
  /\ Importing!ImportWhole

\* Nothing that is there is replaced, and only what export b can be is added.
Adding(b) ==
  /\ \A n \in Novels :
       /\ project'[n] = project[n] \/ (project[n] = None /\ project'[n] = b)
       /\ history'[n] = history[n] \/ (history[n] = None /\ history'[n] = b)
       /\ states'[n] = states[n] \/ (states[n] = None /\ states'[n] = b)
       /\ \A r \in Kinds :
            record'[n][r] = record[n][r] \/ (record[n][r] = None /\ record'[n][r] = b)
  /\ archived \subseteq archived'

LEMMA Sources ==
  /\ None \notin Bundles /\ \A b \in Bundles : NovelsOf[b] \subseteq Novels
  /\ \A m \in Working : m # Importing!Idle /\ m.bundle \in Bundles
BY ToolAssumption DEF Importing!ImportAssumption, Importing!Idle, Working, Copied

LEMMA BroughtStays ==
  ASSUME NEW b, Adding(b), NEW c \in Bundles, NEW n \in Novels, Brought(n, c)
  PROVE  Brought(n, c)'
BY Sources DEF Brought, Adding

\* A run that does nothing, while one of the same export goes on.
LEMMA RunRests ==
  ASSUME ImportTyped, NEW b, Adding(b), NEW i \in Importers, import[i] \in Working,
         import[i].bundle = b, RunsAt(i), import'[i] = import[i]
  PROVE  RunsAt(i)'
<1> DEFINE m == import[i]
<1>1. b \in Bundles /\ NovelsOf[b] \subseteq Novels /\ b # None
  BY Sources
<1>2. m.at # "check" => \A n \in NovelsOf[b] : project'[n] \in {None, b}
  BY <1>1 DEF RunsAt, Adding
<1>3. \A n \in NovelsOf[b] : n \in m.left \/ (m.at \in Copied /\ n = m.novel) \/ Brought(n, b)'
  BY <1>1, BroughtStays DEF RunsAt
<1>4. m.at \in Copied => m.novel \in NovelsOf[b] /\ project'[m.novel] = b
  BY <1>1 DEF RunsAt, Adding
<1>5. m.at = "commit" => /\ history'[m.novel] = b
                         /\ \A r \in Kinds : record'[m.novel][r] = b
  BY <1>1, <1>4 DEF RunsAt, Adding, Copied
<1>6. m.at = "verify" => b \in archived'
  BY DEF RunsAt, Adding
<1> QED BY <1>2, <1>3, <1>4, <1>5, <1>6 DEF RunsAt, Brought

LEMMA WholeRests ==
  ASSUME ImportTyped, NEW b, Adding(b), Importing!ImportWhole, UNCHANGED reported
  PROVE  Importing!ImportWhole'
<1>1. SUFFICES ASSUME NEW c \in {x[1] : x \in reported}
               PROVE  /\ c \in archived'
                      /\ \A n \in NovelsOf[c] : Brought(n, c)'
  BY DEF Importing!ImportWhole, Brought
<1>2. c \in Bundles /\ NovelsOf[c] \subseteq Novels
  BY Sources DEF ImportTyped
<1>3. c \in archived /\ \A n \in NovelsOf[c] : Brought(n, c)
  BY DEF Importing!ImportWhole, Brought
<1> QED BY <1>2, <1>3, BroughtStays DEF Adding

\* What a run's step has to show.
LEMMA ImportsOn ==
  ASSUME ImportOK, NEW i \in Importers, import[i] \in Working, NEW b, b = import[i].bundle,
         Adding(b), ImportTyped', \A n \in Novels : OneSource(n)', Importing!ImportWhole',
         \A j \in Importers \ {i} : import'[j] = import[j],
         import'[i] = Importing!Idle \/ (import'[i] \in Working /\ import'[i].bundle = b /\ RunsAt(i)')
  PROVE  ImportOK'
<1>1. \A j \in Importers : import[j] \in Working => import[j].bundle = b /\ RunsAt(j)
  BY DEF ImportOK, Together
<1>2. \A j \in Importers \ {i} : import'[j] \in Working => RunsAt(j)'
  BY <1>1, RunRests DEF ImportOK
<1>3. \A j \in Importers : import'[j] \in Working => import'[j].bundle = b
  BY <1>1, Sources
<1>4. Together'
  BY <1>3 DEF Together
<1>5. \A j \in Importers : import'[j] \in Working => RunsAt(j)'
  BY <1>2, Sources
<1> QED BY <1>4, <1>5 DEF ImportOK

\* A step that leaves the rows: only the run's own place is new.
LEMMA PlacesOn ==
  ASSUME ImportOK, NEW i \in Importers, import[i] \in Working, NEW b, b = import[i].bundle,
         UNCHANGED <<project, history, record, states, archived, reported>>,
         NEW new, import' = [import EXCEPT ![i] = new],
         new = Importing!Idle \/ (new \in Working /\ new.bundle = b /\ RunsAt(i)')
  PROVE  ImportOK'
<1>1. Adding(b)
  BY DEF Adding
<1>2. ImportTyped' /\ import'[i] = new /\ \A j \in Importers \ {i} : import'[j] = import[j]
  BY DEF ImportOK, ImportTyped
<1>3. \A n \in Novels : OneSource(n)'
  BY DEF ImportOK, OneSource
<1>4. Importing!ImportWhole'
  BY <1>1, WholeRests DEF ImportOK
<1> QED BY <1>1, <1>2, <1>3, <1>4, ImportsOn

LEMMA ImportInitial == ToolInit => ImportOK
<1>1. SUFFICES ASSUME Importing!Init PROVE ImportOK
  BY DEF ToolInit
<1>2. ImportTyped
  BY <1>1 DEF Importing!Init, ImportTyped
<1>3. Together /\ \A i \in Importers : import[i] \in Working => RunsAt(i)
  BY <1>1, Sources DEF Importing!Init, Together
<1>4. \A n \in Novels : OneSource(n)
  BY <1>1 DEF Importing!Init, OneSource
<1>5. Importing!ImportWhole
  BY <1>1 DEF Importing!Init, Importing!ImportWhole
<1> QED BY <1>2, <1>3, <1>4, <1>5 DEF ImportOK

LEMMA ImportStep ==
  ASSUME ImportOK, [Importing!Next]_importVars
  PROVE  ImportOK'
<1>0. None \notin Bundles /\ \A b \in Bundles : NovelsOf[b] \subseteq Novels
  BY Sources
<1>a. ImportTyped
  BY DEF ImportOK
<1>b. ASSUME NEW i \in Importers, import[i].at # "idle"
      PROVE  /\ import[i] \in Working /\ RunsAt(i) /\ import[i].bundle \in Bundles
             /\ NovelsOf[import[i].bundle] \subseteq Novels
  <2>1. import[i] \in Working
    BY <1>a, <1>b DEF ImportTyped, Importing!Idle
  <2> QED BY <1>0, <2>1 DEF ImportOK, Working
<1>c. ASSUME NEW i \in Importers, import[i] # Importing!Idle PROVE import[i] \in Working
  BY <1>a, <1>c DEF ImportTyped
<1>1. CASE UNCHANGED importVars
  BY <1>1
     DEF importVars, ImportOK, ImportTyped, Together, OneSource, RunsAt, Brought, Importing!ImportWhole
<1>2. ASSUME NEW i \in Importers, Importing!StartImport(i) PROVE ImportOK'
  <2>1. PICK b \in Bundles, keys \in BOOLEAN :
          /\ \A j \in Importers : import[j] # Importing!Idle => import[j].bundle = b
          /\ import' = [import EXCEPT ![i] = [at |-> "check", bundle |-> b, keys |-> keys,
                                              left |-> NovelsOf[b], novel |-> None]]
    BY <1>2 DEF Importing!StartImport
  <2>2. UNCHANGED <<project, history, record, states, archived, reported>>
    BY <1>2 DEF Importing!StartImport, Importing!rows
  <2>3. /\ import'[i] = [at |-> "check", bundle |-> b, keys |-> keys, left |-> NovelsOf[b], novel |-> None]
        /\ \A j \in Importers \ {i} : import'[j] = import[j]
    BY <1>a, <2>1 DEF ImportTyped
  <2>4. import'[i] \in Working
    BY <1>0, <2>3 DEF Working
  <2>5. ImportTyped'
    BY <1>a, <2>1, <2>2, <2>3, <2>4 DEF ImportTyped
  <2>6. Adding(b)
    BY <2>2 DEF Adding
  <2>7. RunsAt(i)'
    BY <2>3 DEF RunsAt, Copied
  <2>8. \A j \in Importers \ {i} : import'[j] \in Working => RunsAt(j)'
    BY <1>a, <2>1, <2>3, <2>6, RunRests, Sources DEF ImportOK
  <2>9. Together'
    <3>1. \A j \in Importers : import'[j] \in Working => import'[j].bundle = b
      BY <2>1, <2>3, Sources
    <3> QED BY <3>1 DEF Together
  <2>10. \A n \in Novels : OneSource(n)'
    BY <2>2 DEF ImportOK, OneSource
  <2>11. Importing!ImportWhole'
    BY <1>a, <2>2, <2>6, WholeRests DEF ImportOK
  <2> QED BY <2>5, <2>7, <2>8, <2>9, <2>10, <2>11 DEF ImportOK
<1>3. ASSUME NEW i \in Importers, Importing!StopImport(i) PROVE ImportOK'
  BY <1>3, <1>c, PlacesOn DEF Importing!StopImport, Importing!rows
<1>5. ASSUME NEW i \in Importers, Importing!CheckTarget(i) PROVE ImportOK'
  <2> DEFINE new == [import[i] EXCEPT !.at = "accounts"]
  <2>1. import' = [import EXCEPT ![i] = new] /\ import[i].at = "check"
        /\ UNCHANGED <<project, history, record, states, archived, reported>>
    BY <1>5 DEF Importing!CheckTarget, Importing!Goes, Importing!rows
  <2>2. import[i] \in Working /\ RunsAt(i)
    BY <1>b, <2>1
  <2>3. new \in Working /\ new.bundle = import[i].bundle /\ import'[i] = new
    BY <1>a, <2>1, <2>2 DEF Working, ImportTyped
  <2>4. \A n \in NovelsOf[import[i].bundle] : project[n] \in {None, import[i].bundle}
    BY <1>5 DEF Importing!CheckTarget, Importing!FreeTarget
  <2>5. RunsAt(i)'
    BY <2>1, <2>2, <2>3, <2>4 DEF RunsAt, Working, Copied, Brought
  <2> HIDE DEF new
  <2> QED BY <2>1, <2>2, <2>3, <2>5, PlacesOn
<1>6. ASSUME NEW i \in Importers, Importing!ImportAccounts(i) PROVE ImportOK'
  <2> DEFINE new == [import[i] EXCEPT !.at = "project"]
  <2>1. import' = [import EXCEPT ![i] = new] /\ import[i].at = "accounts"
        /\ UNCHANGED <<project, history, record, states, archived, reported>>
    BY <1>6 DEF Importing!ImportAccounts, Importing!Goes, Importing!rows
  <2>2. import[i] \in Working /\ RunsAt(i)
    BY <1>b, <2>1
  <2>3. new \in Working /\ new.bundle = import[i].bundle /\ import'[i] = new
    BY <1>a, <2>1, <2>2 DEF Working, ImportTyped
  <2>4. RunsAt(i)'
    BY <2>1, <2>2, <2>3 DEF RunsAt, Working, Copied, Brought
  <2> HIDE DEF new
  <2> QED BY <2>1, <2>2, <2>3, <2>4, PlacesOn
<1>7. ASSUME NEW i \in Importers, Importing!ImportProject(i) PROVE ImportOK'
  <2>0. PICK b : b = import[i].bundle
    OBVIOUS
  <2>1. import[i].at = "project" /\ UNCHANGED <<history, record, states, archived, reported>>
    BY <1>7 DEF Importing!ImportProject
  <2>2. import[i] \in Working /\ RunsAt(i) /\ b \in Bundles /\ NovelsOf[b] \subseteq Novels
    BY <1>b, <2>0, <2>1
  <2>3. CASE import[i].left = {}
    <3> DEFINE new == [import[i] EXCEPT !.at = "archive"]
    <3>1. import' = [import EXCEPT ![i] = new] /\ UNCHANGED project
      BY <1>7, <2>3 DEF Importing!ImportProject, Importing!Goes
    <3>2. new \in Working /\ new.bundle = b /\ import'[i] = new
      BY <1>a, <2>0, <2>2, <3>1 DEF Working, ImportTyped
    <3>3. RunsAt(i)'
      BY <2>0, <2>1, <2>2, <2>3, <3>1, <3>2 DEF RunsAt, Working, Copied, Brought
    <3> HIDE DEF new
    <3> QED BY <2>0, <2>1, <2>2, <3>1, <3>2, <3>3, PlacesOn
  <2>4. ASSUME NEW n \in import[i].left, project' = [project EXCEPT ![n] = Importing!Kept(@, b)],
               import' = [import EXCEPT ![i].at = "open", ![i].novel = n, ![i].left = @ \ {n}]
        PROVE  ImportOK'
    <3>1. n \in NovelsOf[b] /\ n \in Novels /\ project[n] \in {None, b}
      BY <2>0, <2>1, <2>2 DEF RunsAt
    <3>2. project'[n] = b /\ \A k \in Novels \ {n} : project'[k] = project[k]
      BY <1>a, <2>4, <3>1 DEF ImportTyped, Importing!Kept
    <3>3. /\ import'[i] = [import[i] EXCEPT !.at = "open", !.novel = n, !.left = import[i].left \ {n}]
          /\ \A j \in Importers \ {i} : import'[j] = import[j]
      BY <1>a, <2>4 DEF ImportTyped
    <3>4. import'[i] \in Working /\ import'[i].bundle = b /\ import'[i].at = "open"
          /\ import'[i].novel = n /\ import'[i].left = import[i].left \ {n}
      BY <2>0, <2>2, <3>1, <3>3 DEF Working, Copied
    <3>5. Adding(b)
      BY <2>1, <3>1, <3>2 DEF Adding
    <3>6. ImportTyped'
      BY <1>a, <2>0, <2>1, <2>2, <2>4, <3>1, <3>2, <3>3, <3>4 DEF ImportTyped
    <3>7. \A k \in Novels : OneSource(k)'
      <4>1. \A k \in Novels \ {n} : OneSource(k)'
        BY <2>1, <3>2 DEF ImportOK, OneSource
      <4>2. OneSource(n)'
        BY <2>1, <3>1, <3>2 DEF ImportOK, OneSource
      <4> QED BY <4>1, <4>2
    <3>8. Importing!ImportWhole'
      BY <1>a, <2>1, <3>5, WholeRests DEF ImportOK
    <3>9. RunsAt(i)'
      <4>1. \A k \in NovelsOf[b] : k \in import[i].left \/ Brought(k, b)'
        BY <2>0, <2>1, <2>2, <3>5, BroughtStays DEF RunsAt, Copied
      <4>2. \A k \in NovelsOf[b] : project'[k] \in {None, b}
        BY <2>0, <2>1, <2>2, <3>2 DEF RunsAt
      <4> QED BY <2>0, <2>1, <2>2, <3>1, <3>2, <3>4, <4>1, <4>2 DEF RunsAt, Copied, Brought
    <3> QED BY <2>0, <2>2, <3>3, <3>4, <3>5, <3>6, <3>7, <3>8, <3>9, ImportsOn
  <2> QED BY <1>7, <2>0, <2>3, <2>4 DEF Importing!ImportProject
<1>8. ASSUME NEW i \in Importers, Importing!OpenRuntime(i) PROVE ImportOK'
  <2> DEFINE new == [import[i] EXCEPT !.at = "records"]
  <2>1. import' = [import EXCEPT ![i] = new] /\ import[i].at = "open"
        /\ UNCHANGED <<project, history, record, states, archived, reported>>
    BY <1>8 DEF Importing!OpenRuntime, Importing!Goes, Importing!rows
  <2>2. import[i] \in Working /\ RunsAt(i)
    BY <1>b, <2>1
  <2>3. new \in Working /\ new.bundle = import[i].bundle /\ import'[i] = new
    BY <1>a, <2>1, <2>2 DEF Working, ImportTyped, Copied
  <2>4. RunsAt(i)'
    BY <2>1, <2>2, <2>3 DEF RunsAt, Working, Copied, Brought
  <2> HIDE DEF new
  <2> QED BY <2>1, <2>2, <2>3, <2>4, PlacesOn
<1>9. ASSUME NEW i \in Importers, NEW r \in Kinds, Importing!ImportRecord(i, r) PROVE ImportOK'
  <2> DEFINE b == import[i].bundle
             n == import[i].novel
  <2>1. /\ import[i].at = "records" /\ record[n][r] = None
        /\ record' = [record EXCEPT ![n][r] = b]
        /\ UNCHANGED <<project, history, states, archived, import, reported>>
    BY <1>9 DEF Importing!ImportRecord, Importing!Novel
  <2>2. import[i] \in Working /\ RunsAt(i) /\ b \in Bundles /\ NovelsOf[b] \subseteq Novels
    BY <1>b, <2>1
  <2>3. n \in NovelsOf[b] /\ n \in Novels /\ project[n] = b
    BY <2>1, <2>2 DEF RunsAt, Copied
  <2>4. /\ record'[n][r] = b
        /\ \A k \in Novels, q \in Kinds : record'[k][q] = record[k][q] \/ (k = n /\ q = r)
    BY <1>a, <2>1, <2>3 DEF ImportTyped
  <2>5. Adding(b)
    BY <2>1, <2>4 DEF Adding
  <2>6. ImportTyped'
    BY <1>a, <2>1, <2>2, <2>3 DEF ImportTyped
  <2>7. \A k \in Novels : OneSource(k)'
    BY <2>1, <2>3, <2>4 DEF ImportOK, OneSource
  <2>8. Importing!ImportWhole'
    BY <1>a, <2>1, <2>5, WholeRests DEF ImportOK
  <2>9. RunsAt(i)'
    BY <1>a, <2>1, <2>2, <2>5, RunRests
  <2> QED BY <2>1, <2>2, <2>5, <2>6, <2>7, <2>8, <2>9, ImportsOn
<1>10. ASSUME NEW i \in Importers, Importing!ImportHistory(i) PROVE ImportOK'
  <2>0. PICK b, n : b = import[i].bundle /\ n = import[i].novel
    OBVIOUS
  <2> DEFINE new == [import[i] EXCEPT !.at = "commit"]
  <2>1. /\ import[i].at = "records" /\ \A r \in Kinds : record[n][r] # None
        /\ history' = [history EXCEPT ![n] = Importing!Kept(@, b)]
        /\ import' = [import EXCEPT ![i] = new]
        /\ UNCHANGED <<project, record, states, archived, reported>>
    BY <1>10, <2>0 DEF Importing!ImportHistory, Importing!Novel, Importing!Goes
  <2>2. import[i] \in Working /\ RunsAt(i) /\ b \in Bundles /\ NovelsOf[b] \subseteq Novels
    BY <1>b, <2>0, <2>1
  <2>3. n \in NovelsOf[b] /\ n \in Novels /\ project[n] = b /\ b # None
    BY <1>0, <2>0, <2>1, <2>2 DEF RunsAt, Copied
  <2>4. history[n] \in {None, b} /\ \A r \in Kinds : record[n][r] = b
    BY <2>1, <2>3 DEF ImportOK, OneSource
  <2>5. history'[n] = b /\ \A k \in Novels \ {n} : history'[k] = history[k]
    BY <1>a, <2>1, <2>3, <2>4 DEF ImportTyped, Importing!Kept
  <2>6. Adding(b)
    BY <2>1, <2>4, <2>5 DEF Adding
  <2>7. new \in Working /\ new.bundle = b /\ import'[i] = new /\ new.at = "commit"
        /\ new.novel = n /\ new.left = import[i].left
    BY <1>a, <2>0, <2>1, <2>2 DEF Working, ImportTyped, Copied
  <2> HIDE DEF new
  <2>8. \A j \in Importers \ {i} : import'[j] = import[j]
    BY <1>a, <2>1 DEF ImportTyped
  <2>9. ImportTyped'
    BY <1>a, <2>1, <2>2, <2>3, <2>5, <2>7 DEF ImportTyped
  <2>10. \A k \in Novels : OneSource(k)'
    BY <2>1, <2>3, <2>5 DEF ImportOK, OneSource
  <2>11. Importing!ImportWhole'
    BY <1>a, <2>1, <2>6, WholeRests DEF ImportOK
  <2>12. RunsAt(i)'
    <3>1. \A k \in NovelsOf[b] : k \in import[i].left \/ k = n \/ Brought(k, b)'
      BY <2>0, <2>2, <2>6, BroughtStays DEF RunsAt
    <3> QED BY <2>0, <2>1, <2>2, <2>3, <2>4, <2>5, <2>7, <3>1 DEF RunsAt, Copied, Brought
  <2> QED BY <2>0, <2>2, <2>6, <2>7, <2>8, <2>9, <2>10, <2>11, <2>12, ImportsOn
<1>11. ASSUME NEW i \in Importers, Importing!CommitRuntime(i) PROVE ImportOK'
  <2>0. PICK b, n : b = import[i].bundle /\ n = import[i].novel
    OBVIOUS
  <2> DEFINE new == [import[i] EXCEPT !.at = "project"]
  <2>1. /\ import[i].at = "commit"
        /\ states' = [states EXCEPT ![n] = Importing!Kept(@, b)]
        /\ import' = [import EXCEPT ![i] = new]
        /\ UNCHANGED <<project, record, history, archived, reported>>
    BY <1>11, <2>0 DEF Importing!CommitRuntime, Importing!Novel, Importing!Goes
  <2>2. import[i] \in Working /\ RunsAt(i) /\ b \in Bundles /\ NovelsOf[b] \subseteq Novels
    BY <1>b, <2>0, <2>1
  <2>3. n \in NovelsOf[b] /\ n \in Novels /\ project[n] = b /\ b # None
        /\ history[n] = b /\ \A r \in Kinds : record[n][r] = b
    BY <1>0, <2>0, <2>1, <2>2 DEF RunsAt, Copied
  <2>4. states[n] \in {None, b}
    BY <2>3 DEF ImportOK, OneSource
  <2>5. states'[n] = b /\ \A k \in Novels \ {n} : states'[k] = states[k]
    BY <1>a, <2>1, <2>3, <2>4 DEF ImportTyped, Importing!Kept
  <2>6. Adding(b)
    BY <2>1, <2>4, <2>5 DEF Adding
  <2>7. new \in Working /\ new.bundle = b /\ import'[i] = new /\ new.at = "project"
        /\ new.left = import[i].left
    BY <1>a, <2>0, <2>1, <2>2 DEF Working, ImportTyped
  <2> HIDE DEF new
  <2>8. \A j \in Importers \ {i} : import'[j] = import[j]
    BY <1>a, <2>1 DEF ImportTyped
  <2>9. ImportTyped'
    BY <1>a, <2>1, <2>2, <2>3, <2>5, <2>7 DEF ImportTyped
  <2>10. \A k \in Novels : OneSource(k)'
    BY <2>1, <2>3, <2>5 DEF ImportOK, OneSource
  <2>11. Importing!ImportWhole'
    BY <1>a, <2>1, <2>6, WholeRests DEF ImportOK
  <2>12. RunsAt(i)'
    <3>1. \A k \in NovelsOf[b] : k \in import[i].left \/ k = n \/ Brought(k, b)'
      BY <2>0, <2>2, <2>6, BroughtStays DEF RunsAt
    <3>2. Brought(n, b)'
      BY <2>1, <2>3, <2>5 DEF Brought
    <3> QED BY <2>0, <2>1, <2>2, <2>7, <3>1, <3>2 DEF RunsAt, Copied
  <2> QED BY <2>0, <2>2, <2>6, <2>7, <2>8, <2>9, <2>10, <2>11, <2>12, ImportsOn
<1>12. ASSUME NEW i \in Importers, Importing!ArchiveRows(i) PROVE ImportOK'
  <2> DEFINE b == import[i].bundle
             new == [import[i] EXCEPT !.at = "verify"]
  <2>1. /\ import[i].at = "archive" /\ archived' = archived \cup {b}
        /\ import' = [import EXCEPT ![i] = new]
        /\ UNCHANGED <<project, record, history, states, reported>>
    BY <1>12 DEF Importing!ArchiveRows, Importing!Goes, Importing!rows
  <2>2. import[i] \in Working /\ RunsAt(i) /\ b \in Bundles
    BY <1>b, <2>1
  <2>3. Adding(b)
    BY <2>1 DEF Adding
  <2>4. new \in Working /\ new.bundle = b /\ import'[i] = new /\ new.at = "verify"
        /\ new.left = import[i].left
    BY <1>a, <2>1, <2>2 DEF Working, ImportTyped
  <2> HIDE DEF new
  <2>5. ImportTyped' /\ \A j \in Importers \ {i} : import'[j] = import[j]
    BY <1>a, <2>1, <2>4 DEF ImportTyped
  <2>6. \A k \in Novels : OneSource(k)'
    BY <2>1 DEF ImportOK, OneSource
  <2>7. Importing!ImportWhole'
    BY <1>a, <2>1, <2>3, WholeRests DEF ImportOK
  <2>8. RunsAt(i)'
    BY <2>1, <2>2, <2>4 DEF RunsAt, Copied, Brought
  <2> QED BY <2>2, <2>3, <2>4, <2>5, <2>6, <2>7, <2>8, ImportsOn
<1>13. ASSUME NEW i \in Importers, Importing!VerifyImport(i) PROVE ImportOK'
  <2> DEFINE b == import[i].bundle
  <2>1. /\ import[i].at = "verify" /\ import' = [import EXCEPT ![i] = Importing!Idle]
        /\ reported' = reported \cup {<<b, import[i].keys>>}
        /\ UNCHANGED <<project, record, history, states, archived>>
    BY <1>13 DEF Importing!VerifyImport, Importing!rows
  <2>2. import[i] \in Working /\ RunsAt(i) /\ b \in Bundles /\ import[i].keys \in BOOLEAN
    BY <1>b, <2>1 DEF Working
  <2>3. Adding(b)
    BY <2>1 DEF Adding
  <2>4. /\ ImportTyped' /\ import'[i] = Importing!Idle
        /\ \A j \in Importers \ {i} : import'[j] = import[j]
    BY <1>a, <2>1, <2>2 DEF ImportTyped
  <2>5. \A k \in Novels : OneSource(k)'
    BY <2>1 DEF ImportOK, OneSource
  <2>6. b \in archived /\ \A n \in NovelsOf[b] : Brought(n, b)
    BY <2>1, <2>2 DEF RunsAt, Copied
  <2>7. Importing!ImportWhole'
    <3>1. \A c \in {x[1] : x \in reported'} : c = b \/ c \in {x[1] : x \in reported}
      BY <2>1
    <3> QED BY <2>1, <2>6, <3>1 DEF ImportOK, Importing!ImportWhole, Brought
  <2> QED BY <2>2, <2>3, <2>4, <2>5, <2>7, ImportsOn
<1> QED
  BY <1>1, <1>2, <1>3, <1>5, <1>6, <1>7, <1>8, <1>9, <1>10, <1>11, <1>12, <1>13 DEF Importing!Next

-----------------------------------------------------------------------------
(* The tools together.                                                     *)

\* A step of the tools is a step or a stutter of each kind of tool.
LEMMA OneTool ==
  ASSUME [ToolNext]_toolVars
  PROVE  /\ [Restoring!Next]_restoreVars
         /\ [Deploying!Next]_deployVars
         /\ [Importing!Next]_importVars
BY DEF ToolNext, toolVars

\* A restore that is done, or noted as complete, is one archive, both databases and
\* every object, although runs of the tool stop anywhere and others try (restore).
THEOREM RestoresWhole == ToolSpec => []TargetWhole
<1>1. RestoreOK /\ [ToolNext]_toolVars => RestoreOK'
  BY OneTool, RestoreStep
<1> QED BY <1>1, RestoreInitial, RestoredWhole, PTL DEF ToolSpec

\* However releases are installed, a database is what a release makes it, every
\* workflow gets the prompts seeded last, and no key is replaced (apply_database,
\* seed, upgrade).
THEOREM InstallsSound == ToolSpec => []Deployed
<1> DEFINE Sound == MigrationsOK /\ PromptsOK /\ SecretsOK
<1>1. ToolInit => Sound
  BY MigrationsInitial, PromptsInitial, SecretsInitial
<1>2. Sound /\ [ToolNext]_toolVars => Sound'
  BY OneTool, MigrationsStep, PromptsStep, SecretsStep
<1>3. Sound => Deployed
  BY MigratedInTurn DEF PromptsOK, SecretsOK, Deployed, Deploying!Deployed
<1> QED BY <1>1, <1>2, <1>3, PTL DEF ToolSpec

\* What an import reports is one export's in both databases, although its projects
\* are written in many transactions and runs stop in between (import_bundle).
THEOREM ImportsWhole == ToolSpec => []ImportWhole
<1>1. ImportOK /\ [ToolNext]_toolVars => ImportOK'
  BY OneTool, ImportStep
<1>2. ImportOK => ImportWhole
  BY DEF ImportOK, ImportWhole
<1> QED BY <1>1, <1>2, ImportInitial, PTL DEF ToolSpec
=============================================================================
