----------------------------- MODULE Knowledge -----------------------------
(***************************************************************************)
(* What projects remember and share.  Each version a creation commits makes  *)
(* one memory job; creations read the memory they require, and the packs     *)
(* bound to their project; users publish a project's memory as a frozen pack *)
(* and bind packs to projects through jobs that stage a request and commit   *)
(* it where they finish.  Control shows the bindings that completion events  *)
(* tell it, in whatever order the events of different jobs arrive.  Facts,    *)
(* summaries and the nodes of a pack are read with a LIMIT each.             *)
(***************************************************************************)
EXTENDS Naturals, FiniteSets

CONSTANTS
  Workers,
  Creations,    \* jobs that create a document; each stands for its version too
  Operations,   \* knowledge jobs
  HomeOf,       \* the project of each of them
  RequiredOf,   \* the versions a creation requires the memory of
  OperationOf,  \* [kind, pack]: a pack goes by the job that publishes it
  Remembered,   \* versions that may have been created and remembered before we look
  FactLimit, SummaryLimit, PackLimit,             \* of the queries: 40, 20 and 1000
  MaxFacts, MaxAttempts, MaxCancels, MaxReclaims  \* bounds

VARIABLES
  rows,      \* runtime_jobs: [status, fence, live]
  hand,      \* per process its job, token, how far it is and what it has read
  memory,    \* memory_nodes and canonical_facts of each version
  ready,     \* memory_version_status
  requests,  \* operations with a staged request
  packs,     \* the frozen nodes of each pack, {} before it is published
  bound,     \* knowledge_pack_bindings: pairs <<project, pack>>
  contexts,  \* what each creation last read for its context pack
  applied,   \* operations whose end Control has projected
  shown,     \* the bindings Control shows
  after      \* history: what had been projected when an operation was submitted

vars == <<rows, hand, memory, ready, requests, packs, bound, contexts, applied, shown, after>>
stored == <<memory, ready, requests, packs, bound, contexts>>
control == <<applied, shown, after>>

\* uuid5 of the version: one memory job for it, whatever tells of it.
Refresh(c) == <<"memory", c>>
AllJobs == Creations \cup Operations \cup {Refresh(c) : c \in Creations}
Kind(o) == OperationOf[o].kind
Target(o) == <<HomeOf[o], OperationOf[o].pack>>
Pairs == {Target(o) : o \in {x \in Operations : Kind(x) # "publish"}}

\* Node at of a reading of `of` facts: 0 is the summary; by is the claim.
Reading(by, of) == {[at |-> i, by |-> by, of |-> of] : i \in 0 .. of}
Local(p) == UNION {{c} \X memory[c] : c \in {x \in Creations : HomeOf[x] = p}}
Facts(S) == {x \in S : x[2].at > 0}
Summaries(S) == {x \in S : x[2].at = 0}
\* What a query with a LIMIT returns of the rows S: all, or as many as it may.  Which
\* is left open: rows are ordered by when transactions began, by numbers of document
\* versions and by hashed ids.
Limited(limit, S) ==
  {T \in SUBSET S : Cardinality(T) = limit \/ (T = S /\ Cardinality(S) =< limit)}
Idle == [job |-> <<>>, fence |-> 0, pc |-> "idle", got |-> {}, packs |-> {}]
NoContext == [got |-> {}, packs |-> {}]
Ends == {"completed", "failed", "cancelled"}

Init ==
  /\ ready \in SUBSET Remembered
  /\ rows = [j \in AllJobs |->
       IF j \in ready \cup {Refresh(c) : c \in ready}
       THEN [status |-> "completed", fence |-> 1, live |-> FALSE]
       ELSE [status |-> "none", fence |-> 0, live |-> FALSE]]
  /\ memory \in [Creations -> {{}} \cup {Reading(1, of) : of \in 0 .. MaxFacts}]
  /\ \A c \in Creations : memory[c] # {} <=> c \in ready
  /\ hand = [w \in Workers |-> Idle]
  /\ requests = {} /\ packs = [o \in Operations |-> {}] /\ bound = {}
  /\ contexts = [c \in Creations |-> NoContext]
  /\ applied = {} /\ shown = {} /\ after = [o \in Operations |-> {}]

-----------------------------------------------------------------------------
(* The jobs: submitted, scheduled, claimed, taken away, ended.              *)

\* SubmitOperation and generation: no index keeps two knowledge jobs of one
\* project apart.  Claims take jobs in any order, so acceptance is not a step.
Submit(j) ==
  /\ j \in Creations \cup Operations /\ rows[j].status = "none"
  /\ rows' = [rows EXCEPT ![j].status = "accepted"]
  /\ after' = IF j \in Operations THEN [after EXCEPT ![j] = applied] ELSE after
  /\ UNCHANGED <<hand, stored, applied, shown>>

\* schedule_memory, the relay and accept_task: whatever content event of the
\* version comes first, and however often.
Schedule(c) ==
  /\ rows[c].status = "completed" /\ rows[Refresh(c)].status = "none"
  /\ rows' = [rows EXCEPT ![Refresh(c)].status = "accepted"]
  /\ UNCHANGED <<hand, stored, control>>

\* creation_context and the worker of the job hold its row's lock.
Held(j) == \E w \in Workers : hand[w].job = j /\ hand[w].pc \in {"checked", "facts", "summaries"}

AskCancel(j) ==
  /\ j \in Creations \cup Operations /\ ~Held(j)
  /\ rows[j].status \in {"accepted", "running"}
  /\ Cardinality({i \in AllJobs : rows[i].status \in {"cancel_requested", "cancelled"}}) < MaxCancels
  /\ rows' = [rows EXCEPT ![j].status = IF @ = "running" THEN "cancel_requested" ELSE "cancelled"]
  /\ UNCHANGED <<hand, stored, control>>

Abandoned == {i \in AllJobs : rows[i].status = "running" /\ ~rows[i].live}
\* A lease runs out; the sweep of claim_next ends what was being cancelled.
Expire(j) ==
  /\ rows[j].live
  /\ Cardinality({i \in AllJobs : rows[i].fence > 1} \cup Abandoned) < MaxReclaims
  /\ rows' = [rows EXCEPT ![j].live = FALSE,
                          ![j].status = IF @ = "cancel_requested" THEN "cancelled" ELSE @]
  /\ UNCHANGED <<hand, stored, control>>

Claim(w, j) ==
  /\ hand[w] = Idle /\ ~Held(j)
  /\ \/ rows[j].status = "accepted"
     \/ rows[j].status = "running" /\ ~rows[j].live
  /\ rows[j].fence < MaxAttempts
  /\ rows' = [rows EXCEPT ![j] = [status |-> "running", fence |-> @.fence + 1, live |-> TRUE]]
  /\ hand' = [hand EXCEPT ![w] = [Idle EXCEPT !.job = j, !.fence = rows[j].fence + 1,
                                              !.pc = "claimed"]]
  /\ UNCHANGED <<stored, control>>

\* A crash, a shutdown, a lost lease, an error of finish itself.
Leave(w) ==
  /\ hand[w] # Idle
  /\ hand' = [hand EXCEPT ![w] = Idle]
  /\ UNCHANGED <<rows, stored, control>>

Row(w) == rows[hand[w].job]
Owns(w) == Row(w).fence = hand[w].fence /\ Row(w).live
At(w, pc) == hand[w].pc = pc /\ Owns(w)

\* finish: a pending cancellation overrides how the handler ended.
Finish(w, status) ==
  /\ rows' = [rows EXCEPT ![hand[w].job].status =
                IF @ = "cancel_requested" THEN "cancelled" ELSE status,
                ![hand[w].job].live = FALSE]
  /\ hand' = [hand EXCEPT ![w] = Idle]
Stop(w, status) == Finish(w, status) /\ UNCHANGED <<stored, control>>

\* A heartbeat that finds the cancellation.
Cancelled(w) ==
  /\ hand[w].pc \in {"claimed", "read", "staged", "planned"} /\ Owns(w)
  /\ Row(w).status = "cancel_requested"
  /\ Stop(w, "cancelled")
\* A model, the object store or a frozen binding fails for good, or for now.
Fail(w) == At(w, "claimed") /\ Stop(w, "failed")
Retry(w) ==
  /\ At(w, "claimed")
  /\ Stop(w, IF hand[w].fence < MaxAttempts THEN "accepted" ELSE "failed")

-----------------------------------------------------------------------------
(* Memory: refresh_memory and _commit_memory.                               *)

\* What the model makes of the text of the version, and the embeddings.
ReadVersion(w, c) ==
  /\ At(w, "claimed") /\ hand[w].job = Refresh(c)
  /\ \E of \in 0 .. MaxFacts :
       hand' = [hand EXCEPT ![w].pc = "read", ![w].got = Reading(hand[w].fence, of)]
  /\ UNCHANGED <<rows, stored, control>>

\* Every insert leaves a row of the same id alone.
Inserted(old, new) == old \cup {n \in new : \A m \in old : m.at # n.at}
MayCommitLate(w) == TRUE                \* mutant: memory is stored without the lease
MayCommit(w) == Owns(w)
CommitMemory(w, c) ==
  /\ hand[w].pc = "read" /\ hand[w].job = Refresh(c) /\ MayCommit(w)
  /\ memory' = [memory EXCEPT ![c] = Inserted(@, hand[w].got)]
  /\ ready' = ready \cup {c}
  /\ Finish(w, "completed")
  /\ UNCHANGED <<requests, packs, bound, contexts, control>>

-----------------------------------------------------------------------------
(* Creations: creation_context, one transaction that holds the job's row and *)
(* sees what others commit between its statements, and save_execution_plan.  *)

Creating(w, pc) == hand[w].pc = pc /\ hand[w].job \in Creations
CheckRequired(w) ==
  /\ Creating(w, "claimed") /\ Owns(w)
  /\ IF RequiredOf[hand[w].job] \subseteq ready
     THEN hand' = [hand EXCEPT ![w].pc = "checked"] /\ UNCHANGED <<rows, stored, control>>
     ELSE Stop(w, IF hand[w].fence < MaxAttempts THEN "accepted" ELSE "failed")

Recall(w, from, to, limit, found) ==
  /\ Creating(w, from)
  /\ \E got \in Limited(limit, found) :
       hand' = [hand EXCEPT ![w].pc = to, ![w].got = @ \cup got]
  /\ UNCHANGED <<rows, stored, control>>
Home(w) == HomeOf[hand[w].job]
RecallFacts(w) == Recall(w, "checked", "facts", FactLimit, Facts(Local(Home(w))))
RecallSummaries(w) == Recall(w, "facts", "summaries", SummaryLimit, Summaries(Local(Home(w))))
RecallPacks(w) ==
  /\ Creating(w, "summaries")
  /\ hand' = [hand EXCEPT ![w].pc = "recalled",
                 ![w].packs = {<<k, packs[k]>> : k \in {o \in Operations : <<Home(w), o>> \in bound}}]
  /\ UNCHANGED <<rows, stored, control>>
SavePlan(w) ==
  /\ Creating(w, "recalled") /\ Owns(w)
  /\ contexts' = [contexts EXCEPT ![hand[w].job] = [got |-> hand[w].got, packs |-> hand[w].packs]]
  /\ hand' = [hand EXCEPT ![w].pc = "planned", ![w].got = {}, ![w].packs = {}]
  /\ UNCHANGED <<rows, memory, ready, requests, packs, bound, control>>
Create(w) == Creating(w, "planned") /\ Owns(w) /\ Stop(w, "completed")

-----------------------------------------------------------------------------
(* Operations: stage_knowledge_operation and _finish_knowledge_operation.   *)

\* validate_knowledge_operation, and again what commit_knowledge_operation needs.
Possible(o) ==
  IF Kind(o) = "publish" THEN Local(HomeOf[o]) # {} ELSE packs[OperationOf[o].pack] # {}
ValidLater(o) == TRUE                   \* mutant: what is asked is checked at the end only
Valid(o) == Possible(o)
Stage(w) ==
  /\ At(w, "claimed") /\ hand[w].job \in Operations /\ Row(w).status = "running"
  /\ IF Valid(hand[w].job)
     THEN /\ requests' = requests \cup {hand[w].job}
          /\ hand' = [hand EXCEPT ![w].pc = "staged"]
          /\ UNCHANGED <<rows, memory, ready, packs, bound, contexts, control>>
     ELSE Stop(w, "failed")

DoneAnyhow(w) == TRUE                   \* mutant: a cancelled operation takes effect
Done(w) == Row(w).status = "running"    \* not overtaken by a cancellation
CommitOperation(w, o) ==
  /\ At(w, "staged") /\ hand[w].job = o
  /\ IF Done(w)
     THEN /\ o \in requests /\ Possible(o)
          /\ IF Kind(o) = "publish"
             THEN \E nodes \in Limited(PackLimit, Local(HomeOf[o])) :
                    packs' = [packs EXCEPT ![o] = IF @ = {} THEN nodes ELSE @]
             ELSE packs' = packs
          /\ bound' = CASE Kind(o) = "bind" -> bound \cup {Target(o)}
                       [] Kind(o) = "unbind" -> bound \ {Target(o)}
                       [] OTHER -> bound
     ELSE UNCHANGED <<packs, bound>>
  /\ Finish(w, "completed")
  /\ UNCHANGED <<memory, ready, requests, contexts, control>>

-----------------------------------------------------------------------------
(* Control: Project and ProjectOperationEvent, one end at a time.           *)

ShownAnyEnd(o) == TRUE                  \* mutant: whatever the end, the operation is shown
Shown(o) == rows[o].status = "completed"
Project(o) ==
  /\ rows[o].status \in Ends /\ o \notin applied
  /\ applied' = applied \cup {o}
  /\ shown' = CASE Shown(o) /\ Kind(o) = "bind" -> shown \cup {Target(o)}
               [] Shown(o) /\ Kind(o) = "unbind" -> shown \ {Target(o)}
               [] OTHER -> shown
  /\ UNCHANGED <<rows, hand, stored, after>>

Next ==
  \/ \E j \in Creations \cup Operations : Submit(j) \/ AskCancel(j)
  \/ \E c \in Creations : Schedule(c)
  \/ \E o \in Operations : Project(o)
  \/ \E j \in AllJobs : Expire(j)
  \/ \E w \in Workers :
       \/ \E j \in AllJobs : Claim(w, j)
       \/ Leave(w) \/ Cancelled(w) \/ Fail(w) \/ Retry(w)
       \/ \E c \in Creations : ReadVersion(w, c) \/ CommitMemory(w, c)
       \/ CheckRequired(w) \/ RecallFacts(w) \/ RecallSummaries(w) \/ RecallPacks(w)
       \/ SavePlan(w) \/ Create(w)
       \/ Stage(w) \/ \E o \in Operations : CommitOperation(w, o)

Spec == Init /\ [][Next]_vars

-----------------------------------------------------------------------------
(* Properties.                                                              *)

OneReading(S) == \E by \in 1 .. MaxAttempts, of \in 0 .. MaxFacts : S = Reading(by, of)
\* All of S is remembered as it is there.
AsRead(S) == \A x \in S : x[1] \in Creations /\ x[2] \in memory[x[1]]
\* S lacks nothing of what was wanted, or its LIMIT had no room for it.
Has(S, limit, wanted) == wanted \subseteq S \/ Cardinality(S) = limit
MemoryOf(c) == {c} \X memory[c]
Required(c) == {r \in RequiredOf[c] : HomeOf[r] = HomeOf[c]}

\* A version is remembered by all that one claim of its memory job made of it, or
\* not at all, however often that job was taken over.  What a pack freezes, and what
\* a creation reads although others commit between its statements, is of these
\* readings and of no other; and of a version in the pack, or one that the creation
\* requires, it is all, except for what is beyond a full LIMIT.  Packs are read as
\* they were published.
RememberedAsRead ==
  /\ \A c \in Creations : IF c \in ready THEN OneReading(memory[c]) ELSE memory[c] = {}
  /\ \A o \in Operations :
       /\ AsRead(packs[o])
       /\ \A x \in packs[o] : Has(packs[o], PackLimit, MemoryOf(x[1]))
  /\ \A c \in Creations :
       /\ AsRead(contexts[c].got)
       /\ contexts[c] # NoContext => \A r \in Required(c) :
            /\ Has(Facts(contexts[c].got), FactLimit, Facts(MemoryOf(r)))
            /\ Has(Summaries(contexts[c].got), SummaryLimit, Summaries(MemoryOf(r)))
       /\ \A x \in contexts[c].packs : x[2] # {} /\ x[2] = packs[x[1]]

Acted(p) == {o \in Operations : Kind(o) # "publish" /\ Target(o) = p /\ rows[o].status = "completed"}
\* An operation takes effect exactly if its job completes: not when it was staged
\* and then cancelled or taken over.  And what was found possible when it was
\* staged still is when it is committed, so that finish does not fail on it for ever.
EffectWithCompletion ==
  /\ \A o \in Operations : Kind(o) = "publish" =>
       (packs[o] # {} <=> rows[o].status = "completed")
  /\ \A p \in Pairs : \A kind \in {"bind", "unbind"} :
       (\A o \in Acted(p) : Kind(o) = kind) =>
         (p \in bound <=> Acted(p) # {} /\ kind = "bind")
  /\ \A w \in Workers : At(w, "staged") => hand[w].job \in requests /\ Possible(hand[w].job)

\* Operations on one binding that were asked for one after the other, each after the
\* end of the one before was shown, leave Control showing what the Runtime has.
ShownInOrder ==
  \A p \in Pairs :
    (/\ Acted(p) \subseteq applied
     /\ \A a, b \in Acted(p) : a = b \/ a \in after[b] \/ b \in after[a])
    => (p \in shown <=> p \in bound)
=============================================================================
