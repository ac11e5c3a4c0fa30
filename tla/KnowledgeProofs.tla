-------------------------- MODULE KnowledgeProofs --------------------------
(***************************************************************************)
(* Theorems of Knowledge for every set of processes, creations and           *)
(* operations: what is remembered of a version is one reading of it, packs   *)
(* and creations, which read in several statements, have of it what is       *)
(* remembered and lack only what a LIMIT had no room for, an operation takes *)
(* effect exactly where its job completes, and Control shows what the        *)
(* Runtime has wherever operations were asked for in turn.  Memories, packs  *)
(* and completed rows only grow (Grown), so what a process has read or       *)
(* staged stays true after it.                                               *)
(***************************************************************************)
EXTENDS Knowledge, FiniteSetTheorems, TLAPS

\* Creations, operations and memory jobs are jobs of their own; a binding is of a
\* pack that some operation publishes.
KnowledgeAssumption ==
  /\ Creations \cap Operations = {}
  /\ \A c \in Creations : Refresh(c) \notin Creations \cup Operations
  /\ Remembered \subseteq Creations
  /\ \A o \in Operations : Kind(o) \in {"publish", "bind", "unbind"}
  /\ \A o \in Operations : Kind(o) # "publish" => OperationOf[o].pack \in Operations
  /\ RequiredOf \in [Creations -> SUBSET Creations]
  /\ MaxFacts \in Nat /\ MaxAttempts \in Nat \ {0}
  /\ FactLimit \in Nat \ {0} /\ SummaryLimit \in Nat \ {0} /\ PackLimit \in Nat \ {0}

-----------------------------------------------------------------------------
(* The invariant.                                                          *)

Statuses == Ends \cup {"none", "accepted", "running", "cancel_requested"}
RowT == [status : Statuses, fence : Nat, live : BOOLEAN]
Fields == {"job", "fence", "pc", "got", "packs"}

Typed ==
  /\ rows \in [AllJobs -> RowT]
  /\ DOMAIN hand = Workers
  /\ \A w \in Workers : DOMAIN hand[w] = Fields
  /\ \A w \in Workers : hand[w] # Idle => hand[w].job \in AllJobs /\ hand[w].fence \in 1 .. MaxAttempts
  /\ DOMAIN memory = Creations
  /\ ready \subseteq Creations /\ requests \subseteq Operations
  /\ DOMAIN packs = Operations /\ DOMAIN contexts = Creations
  /\ bound \subseteq Pairs
  /\ applied \subseteq Operations
  /\ after \in [Operations -> SUBSET Operations]

\* A row that ended is nobody's.
RowsOK == \A j \in AllJobs : rows[j].live => rows[j].status \in {"running", "cancel_requested"}
\* What is remembered is one reading, which its memory job stored as it ended.
RememberedOK == \A c \in Creations :
  IF c \in ready THEN OneReading(memory[c]) /\ rows[Refresh(c)].status \in Ends
  ELSE memory[c] = {}
\* Packs freeze what is remembered, whole versions as long as there is room; what is
\* bound is published.
PacksOK == \A o \in Operations :
  /\ AsRead(packs[o])
  /\ \A x \in packs[o] : Has(packs[o], PackLimit, MemoryOf(x[1]))
  /\ Kind(o) = "publish" => (packs[o] # {} <=> rows[o].status = "completed")
BoundOK == \A p \in bound : packs[p[2]] # {}

\* A creation has been told what is remembered of what it requires, as far as there
\* was room, and packs as they are.
FactsHad(r, S) == Has(Facts(S), FactLimit, Facts(MemoryOf(r)))
SummariesHad(r, S) == Has(Summaries(S), SummaryLimit, Summaries(MemoryOf(r)))
Published(S) == \A x \in S : x[1] \in Operations /\ x[2] # {} /\ x[2] = packs[x[1]]
ContextsOK == \A c \in Creations :
  /\ AsRead(contexts[c].got)
  /\ contexts[c] # NoContext => \A r \in Required(c) :
       r \in ready /\ FactsHad(r, contexts[c].got) /\ SummariesHad(r, contexts[c].got)
  /\ Published(contexts[c].packs)

\* What a process has read or staged is still so.
Read(h) ==
  /\ h.pc \in {"claimed", "checked"} => h.got = {}
  /\ h.pc = "read" => \E of \in 0 .. MaxFacts : h.got = Reading(h.fence, of)
  /\ h.pc \in {"checked", "facts", "summaries", "recalled"} =>
       h.job \in Creations /\ RequiredOf[h.job] \subseteq ready
  /\ h.pc \in {"facts", "summaries", "recalled"} =>
       AsRead(h.got) /\ \A r \in Required(h.job) : FactsHad(r, h.got)
  /\ h.pc = "facts" => Summaries(h.got) = {}
  /\ h.pc \in {"summaries", "recalled"} => \A r \in Required(h.job) : SummariesHad(r, h.got)
  /\ h.pc = "recalled" => Published(h.packs)
  /\ h.pc = "staged" => h.job \in requests /\ Possible(h.job)
HandsOK == \A w \in Workers : Read(hand[w])

\* As long as all of the operations on a binding are of one kind, so is it.
OneKind == \A p \in Pairs : \A kind \in {"bind", "unbind"} :
  (\A o \in Acted(p) : Kind(o) = kind) => (p \in bound <=> Acted(p) # {} /\ kind = "bind")
\* The last of the completed operations on a binding decides it, here and where
\* it is shown: no other was asked for after that one was shown.
Decides(m, S, is) == is = (Kind(m) = "bind") /\ \A a \in S : m \notin after[a]
BoundLast == \A p \in Pairs :
  IF Acted(p) = {} THEN p \notin bound
  ELSE \E m \in Acted(p) : Decides(m, Acted(p), p \in bound)
ShownLast == \A p \in Pairs :
  IF Acted(p) \cap applied = {} THEN p \notin shown
  ELSE \E m \in Acted(p) \cap applied : Decides(m, Acted(p) \cap applied, p \in shown)
\* What was shown had ended, and what was asked for knew of no more.
AppliedOK == \A o \in Operations :
  /\ o \in applied => rows[o].status \in Ends
  /\ after[o] \subseteq applied

Stores == RememberedOK /\ PacksOK /\ BoundOK /\ ContextsOK
Shows == OneKind /\ BoundLast /\ ShownLast /\ AppliedOK
IInv == Typed /\ RowsOK /\ Stores /\ HandsOK /\ Shows

-----------------------------------------------------------------------------
(* What every step keeps.                                                  *)

\* Memories, packs, requests and ends, once there, stay.
Grown ==
  /\ \A c \in ready : c \in ready' /\ memory'[c] = memory[c]
  /\ \A o \in Operations : packs[o] # {} => packs'[o] = packs[o]
  /\ requests \subseteq requests'

LEMMA LocalParts ==
  ASSUME NEW p
  PROVE  /\ \A x \in Local(p) : /\ x[1] \in Creations /\ HomeOf[x[1]] = p
                                /\ x[2] \in memory[x[1]] /\ x = <<x[1], x[2]>>
         /\ \A c \in Creations : HomeOf[c] = p => \A n \in memory[c] : <<c, n>> \in Local(p)
BY DEF Local

LEMMA StillPossible ==
  ASSUME KnowledgeAssumption, Typed, RememberedOK, Grown, NEW o \in Operations, Possible(o)
  PROVE  Possible(o)'
<1>1. CASE Kind(o) = "publish"
  <2>1. PICK x \in Local(HomeOf[o]) : TRUE
    BY <1>1 DEF Possible
  <2>2. x[1] \in Creations /\ HomeOf[x[1]] = HomeOf[o] /\ x[2] \in memory[x[1]]
    BY LocalParts
  <2>3. x[1] \in ready
    BY <2>2 DEF RememberedOK
  <2>4. x[2] \in memory'[x[1]]
    BY <2>2, <2>3 DEF Grown
  <2>5. <<x[1], x[2]>> \in Local(HomeOf[o])'
    BY <2>2, <2>4 DEF Local
  <2> QED
    BY <1>1, <2>5 DEF Possible, Kind
<1>2. CASE Kind(o) # "publish"
  BY <1>2 DEF Possible, Kind, Grown, KnowledgeAssumption
<1> QED
  BY <1>1, <1>2

\* A query with a LIMIT returns all that was found unless it is full.
LEMMA LimitedHas ==
  ASSUME NEW S, NEW limit \in Nat \ {0}, NEW T \in Limited(limit, S)
  PROVE  T \subseteq S /\ (S # {} => T # {}) /\ \A W \in SUBSET S : Has(T, limit, W)
<1>1. T \subseteq S /\ (T = S \/ Cardinality(T) = limit)
  BY DEF Limited
<1>2. S # {} => T # {}
  BY <1>1, FS_EmptySet
<1> QED
  BY <1>1, <1>2 DEF Has

\* What is remembered stays as it was read, and of what is ready nothing is added.
LEMMA ReadingsKept ==
  ASSUME RememberedOK, Grown
  PROVE  /\ \A S : AsRead(S) => AsRead(S)'
         /\ \A r \in ready : MemoryOf(r)' = MemoryOf(r)
<1>1. ASSUME NEW S, AsRead(S), NEW x \in S PROVE x[1] \in Creations /\ x[2] \in memory'[x[1]]
  <2>1. x[1] \in Creations /\ x[2] \in memory[x[1]]
    BY <1>1 DEF AsRead
  <2>2. x[1] \in ready
    BY <2>1 DEF RememberedOK
  <2> QED
    BY <2>1, <2>2 DEF Grown
<1> QED
  BY <1>1 DEF AsRead, MemoryOf, Grown

\* What others do does not undo what a process has read.
LEMMA ReadKept ==
  ASSUME KnowledgeAssumption, Typed, RememberedOK, Grown, NEW h, Read(h)
  PROVE  Read(h)'
<1>1. /\ h.pc \in {"claimed", "checked"} => h.got = {}
      /\ h.pc = "read" => \E of \in 0 .. MaxFacts : h.got = Reading(h.fence, of)
      /\ h.pc = "facts" => Summaries(h.got) = {}
  BY DEF Read
<1>2. h.pc \in {"checked", "facts", "summaries", "recalled"} =>
        h.job \in Creations /\ RequiredOf[h.job] \subseteq ready'
  BY DEF Read, Grown
<1>3. h.pc \in {"facts", "summaries", "recalled"} => AsRead(h.got)'
  BY ReadingsKept DEF Read
<1>4. h.pc \in {"facts", "summaries", "recalled"} =>
        \A r \in Required(h.job) : MemoryOf(r)' = MemoryOf(r)
  BY ReadingsKept DEF Read, Required
<1>5. h.pc \in {"facts", "summaries", "recalled"} => \A r \in Required(h.job) : FactsHad(r, h.got)'
  BY <1>4 DEF Read, FactsHad, Has, Facts
<1>6. h.pc \in {"summaries", "recalled"} => \A r \in Required(h.job) : SummariesHad(r, h.got)'
  BY <1>4 DEF Read, SummariesHad, Has, Summaries
<1>7. h.pc = "recalled" => Published(h.packs)'
  BY DEF Read, Grown, Published
<1>8. h.pc = "staged" => h.job \in requests' /\ Possible(h.job)'
  BY StillPossible DEF Read, Grown, Typed
<1> QED
  BY <1>1, <1>2, <1>3, <1>5, <1>6, <1>7, <1>8 DEF Read, Required, Summaries

\* Nobody takes what has ended further.
RowsMoved ==
  /\ rows' \in [AllJobs -> RowT] /\ RowsOK'
  /\ \A j \in AllJobs : rows[j].status \in Ends => rows'[j].status = rows[j].status
\* No operation completes.
NoneDone == \A o \in Operations : rows'[o].status = "completed" <=> rows[o].status = "completed"
\* One process has moved; what it holds is right.
HandMoved(w) ==
  /\ hand' = [hand EXCEPT ![w] = hand'[w]]
  /\ DOMAIN hand'[w] = Fields
  /\ hand'[w] # Idle => hand'[w].job \in AllJobs /\ hand'[w].fence \in 1 .. MaxAttempts

LEMMA HandsKept ==
  ASSUME KnowledgeAssumption, Typed, RememberedOK, HandsOK, Grown, NEW w \in Workers, HandMoved(w),
         NEW h, h = hand'[w], Read(h)'
  PROVE  HandsOK'
<1>1. SUFFICES ASSUME NEW v \in Workers, NEW k, k = hand'[v] PROVE Read(k)'
  BY DEF HandsOK
<1>2. CASE v = w
  BY <1>1, <1>2
<1>3. CASE v # w
  <2>1. k = hand[v]
    BY <1>1, <1>3 DEF HandMoved, Typed
  <2> QED
    BY <2>1, ReadKept DEF HandsOK
<1> QED
  BY <1>2, <1>3

LEMMA HandTyped ==
  ASSUME Typed, NEW w \in Workers, HandMoved(w)
  PROVE  /\ DOMAIN hand' = Workers
         /\ \A v \in Workers : DOMAIN hand'[v] = Fields
         /\ \A v \in Workers : hand'[v] # Idle =>
              hand'[v].job \in AllJobs /\ hand'[v].fence \in 1 .. MaxAttempts
<1>1. DOMAIN hand' = Workers /\ \A v \in Workers \ {w} : hand'[v] = hand[v]
  BY DEF Typed, HandMoved
<1> QED
  BY <1>1 DEF Typed, HandMoved

\* Nothing is remembered, published, bound, completed or shown.
Quiet ==
  /\ RowsMoved /\ NoneDone
  /\ UNCHANGED <<memory, ready, packs, bound, applied, shown>>

LEMMA ShowsKept ==
  ASSUME KnowledgeAssumption, Typed, Shows, NoneDone, UNCHANGED <<bound, applied, shown>>,
         \A o \in Operations : rows[o].status \in Ends => rows'[o].status = rows[o].status,
         \A o \in Operations : /\ after'[o] \subseteq applied
                               /\ rows[o].status = "completed" => after'[o] = after[o]
  PROVE  Shows'
<1>1. ASSUME NEW p \in Pairs PROVE Acted(p)' = Acted(p)
  BY DEF NoneDone, Acted, Kind, Target
<1>2. \A p \in Pairs : \A o \in Acted(p) : o \in Operations /\ after'[o] = after[o]
  BY DEF Acted
<1>3. OneKind'
  BY <1>1 DEF Shows, OneKind, Kind
<1>4. BoundLast'
  <2> SUFFICES ASSUME NEW p \in Pairs, Acted(p) # {}
               PROVE  \E m \in Acted(p) : Decides(m, Acted(p), p \in bound)'
    BY <1>1 DEF Shows, BoundLast
  <2> QED
    BY <1>1, <1>2 DEF Shows, BoundLast, Decides, Kind
<1>5. ShownLast'
  <2> SUFFICES ASSUME NEW p \in Pairs, Acted(p) \cap applied # {}
               PROVE  \E m \in Acted(p) \cap applied : Decides(m, Acted(p) \cap applied, p \in shown)'
    BY <1>1 DEF Shows, ShownLast
  <2> QED
    BY <1>1, <1>2 DEF Shows, ShownLast, Decides, Kind
<1>6. AppliedOK'
  BY DEF Shows, AppliedOK
<1> QED
  BY <1>3, <1>4, <1>5, <1>6 DEF Shows

\* Packs and contexts that nobody writes stay right while memories grow.
LEMMA RecordsKept ==
  ASSUME RememberedOK, PacksOK, ContextsOK, Grown, NoneDone, UNCHANGED <<packs, contexts>>
  PROVE  PacksOK' /\ ContextsOK'
<1>1. ASSUME NEW o \in Operations, NEW x \in packs[o] PROVE MemoryOf(x[1])' = MemoryOf(x[1])
  <2>1. x[1] \in Creations /\ x[2] \in memory[x[1]]
    BY <1>1 DEF PacksOK, AsRead
  <2> QED
    BY <2>1, ReadingsKept DEF RememberedOK
<1>2. PacksOK'
  <2>1. \A o \in Operations : AsRead(packs[o])'
    <3>1. \A o \in Operations : \A S : S = packs[o] => AsRead(S)'
      BY ReadingsKept DEF PacksOK
    <3> QED
      BY <3>1 DEF AsRead
  <2> QED
    BY <1>1, <2>1 DEF PacksOK, Has, NoneDone, Kind
<1>3. ContextsOK'
  <2>1. \A c \in Creations : AsRead(contexts[c].got)' /\ Published(contexts[c].packs)'
    <3>1. \A c \in Creations : \A S : S = contexts[c].got => AsRead(S)'
      BY ReadingsKept DEF ContextsOK
    <3> QED
      BY <3>1 DEF AsRead, ContextsOK, Published
  <2>2. ASSUME NEW c \in Creations, contexts[c] # NoContext, NEW r \in Required(c)
        PROVE  (r \in ready /\ FactsHad(r, contexts[c].got) /\ SummariesHad(r, contexts[c].got))'
    <3>1. r \in ready /\ FactsHad(r, contexts[c].got) /\ SummariesHad(r, contexts[c].got)
      BY <2>2 DEF ContextsOK
    <3>2. r \in ready' /\ MemoryOf(r)' = MemoryOf(r)
      BY <3>1, ReadingsKept DEF Grown
    <3> QED
      BY <3>1, <3>2 DEF FactsHad, SummariesHad, Has, Facts, Summaries
  <2> QED
    BY <2>1, <2>2 DEF ContextsOK, Required, NoContext
<1> QED
  BY <1>2, <1>3

LEMMA QuietStores ==
  ASSUME KnowledgeAssumption, Typed, Stores, Quiet, UNCHANGED contexts
  PROVE  Stores'
<1>1. RememberedOK'
  <2>1. \A c \in Creations : Refresh(c) \in AllJobs
    BY DEF AllJobs
  <2> QED
    BY <2>1 DEF Stores, RememberedOK, Quiet, RowsMoved, OneReading, Ends
<1>2. PacksOK' /\ ContextsOK'
  BY DEF Stores, PacksOK, ContextsOK, Quiet, NoneDone, Kind, AsRead, Has, MemoryOf, FactsHad,
         SummariesHad, Facts, Summaries, Required, Published, NoContext
<1>3. BoundOK'
  BY DEF Stores, BoundOK, Quiet
<1> QED
  BY <1>1, <1>2, <1>3 DEF Stores

\* Steps of the store and of Control that no process takes.
LEMMA IdleKept ==
  ASSUME KnowledgeAssumption, IInv, Quiet, UNCHANGED <<hand, requests, contexts>>,
         after' \in [Operations -> SUBSET Operations],
         \A o \in Operations : /\ after'[o] \subseteq applied
                               /\ rows[o].status = "completed" => after'[o] = after[o]
  PROVE  IInv'
<1>1. Typed'
  BY DEF IInv, Typed, Quiet, RowsMoved
<1>2. HandsOK'
  <2>1. Grown
    BY DEF Quiet, Grown
  <2>2. SUFFICES ASSUME NEW v \in Workers, NEW k, k = hand'[v] PROVE Read(k)'
    BY DEF HandsOK
  <2> QED
    BY <2>1, <2>2, ReadKept DEF IInv, Stores, HandsOK
<1>3. Stores' /\ RowsOK'
  BY QuietStores DEF IInv, Quiet, RowsMoved
<1>4. Shows'
  <2>1. Operations \subseteq AllJobs
    BY DEF AllJobs
  <2> QED
    BY <2>1, ShowsKept DEF IInv, Quiet, RowsMoved
<1> QED
  BY <1>1, <1>2, <1>3, <1>4 DEF IInv

\* Steps of a process that change no store.
LEMMA MovedKept ==
  ASSUME KnowledgeAssumption, IInv, Quiet, UNCHANGED <<contexts, after>>,
         requests \subseteq requests', requests' \subseteq Operations,
         NEW w \in Workers, HandMoved(w), NEW h, h = hand'[w], Read(h)'
  PROVE  IInv'
<1>1. Grown
  BY DEF Quiet, Grown
<1>2. Typed'
  BY HandTyped DEF IInv, Typed, Quiet, RowsMoved
<1>3. HandsOK'
  BY <1>1, HandsKept DEF IInv, Stores
<1>4. Stores' /\ RowsOK'
  BY QuietStores DEF IInv, Quiet, RowsMoved
<1>5. Shows'
  <2>1. Operations \subseteq AllJobs
    BY DEF AllJobs
  <2> QED
    BY <2>1, ShowsKept DEF IInv, Quiet, RowsMoved, Shows, AppliedOK
<1> QED
  BY <1>2, <1>3, <1>4, <1>5 DEF IInv

-----------------------------------------------------------------------------
(* Rows: submitted, scheduled, cancelled, claimed, ended.                     *)

\* One row is written, and it had not ended.
LEMMA RowWritten ==
  ASSUME Typed, RowsOK, NEW j \in AllJobs, rows[j].status \notin Ends, NEW r \in RowT,
         r.live => r.status \in {"running", "cancel_requested"},
         rows' = [rows EXCEPT ![j] = r]
  PROVE  RowsMoved /\ (j \notin Operations \/ r.status # "completed" => NoneDone)
<1>1. rows' \in [AllJobs -> RowT] /\ \A i \in AllJobs : rows'[i] = IF i = j THEN r ELSE rows[i]
  BY DEF Typed
<1>2. Operations \subseteq AllJobs
  BY DEF AllJobs
<1>3. RowsMoved
  BY <1>1 DEF RowsMoved, RowsOK
<1> QED
  BY <1>1, <1>2, <1>3 DEF NoneDone, Ends

LEMMA SubmitStep ==
  ASSUME KnowledgeAssumption, IInv, NEW j \in Creations \cup Operations, Submit(j) PROVE IInv'
<1>1. j \in AllJobs /\ rows[j] \in RowT /\ rows[j].status = "none"
  BY DEF AllJobs, IInv, Typed, Submit
<1>2. [rows[j] EXCEPT !.status = "accepted"] \in RowT
      /\ rows' = [rows EXCEPT ![j] = [rows[j] EXCEPT !.status = "accepted"]]
  BY <1>1 DEF Submit, RowT, Statuses
<1>3. Quiet
  <2>1. rows[j].live = FALSE
    BY <1>1 DEF IInv, RowsOK, RowT
  <2> QED
    BY <1>1, <1>2, <2>1, RowWritten DEF IInv, RowT, Ends, Quiet, Submit, stored
<1>4. \A o \in Operations : /\ after'[o] \subseteq applied /\ after'[o] \subseteq Operations
                            /\ rows[o].status = "completed" => after'[o] = after[o]
  BY <1>1 DEF Submit, IInv, Typed, Shows, AppliedOK
<1>5. after' \in [Operations -> SUBSET Operations]
  BY <1>4 DEF Submit, IInv, Typed
<1> QED
  BY <1>3, <1>4, <1>5, IdleKept DEF Submit, stored

LEMMA StoreSteps ==
  ASSUME KnowledgeAssumption, IInv,
         \/ \E j \in Creations \cup Operations : AskCancel(j)
         \/ \E c \in Creations : Schedule(c)
         \/ \E j \in AllJobs : Expire(j)
  PROVE  IInv'
<1>1. ASSUME NEW j \in Creations \cup Operations, AskCancel(j) PROVE Quiet
  <2>1. j \in AllJobs /\ rows[j] \in RowT /\ rows[j].status \in {"accepted", "running"}
    BY <1>1 DEF AllJobs, IInv, Typed, AskCancel
  <2>2. PICK s \in {"cancel_requested", "cancelled"} :
          /\ rows' = [rows EXCEPT ![j] = [rows[j] EXCEPT !.status = s]]
          /\ rows[j].live => s = "cancel_requested"
    BY <1>1, <2>1 DEF AskCancel, IInv, RowsOK, RowT
  <2> DEFINE r == [rows[j] EXCEPT !.status = s]
  <2>3. r \in RowT /\ r.status = s /\ r.live = rows[j].live /\ rows' = [rows EXCEPT ![j] = r]
    BY <2>1, <2>2 DEF RowT, Statuses, Ends
  <2> HIDE DEF r
  <2> QED
    BY <1>1, <2>1, <2>2, <2>3, RowWritten DEF IInv, RowT, Ends, Quiet, AskCancel, stored, control
<1>2. ASSUME NEW c \in Creations, Schedule(c) PROVE Quiet
  <2>1. Refresh(c) \in AllJobs /\ rows[Refresh(c)] \in RowT /\ rows[Refresh(c)].status = "none"
    BY <1>2 DEF AllJobs, IInv, Typed, Schedule
  <2>2. /\ rows[Refresh(c)].live = FALSE
        /\ [rows[Refresh(c)] EXCEPT !.status = "accepted"] \in RowT
        /\ rows' = [rows EXCEPT ![Refresh(c)] = [rows[Refresh(c)] EXCEPT !.status = "accepted"]]
    BY <1>2, <2>1 DEF Schedule, IInv, RowsOK, RowT, Statuses
  <2> QED
    BY <1>2, <2>1, <2>2, RowWritten DEF IInv, RowT, Ends, Quiet, Schedule, stored, control
<1>3. ASSUME NEW j \in AllJobs, Expire(j) PROVE Quiet
  <2>1. rows[j] \in RowT /\ rows[j].status \in {"running", "cancel_requested"}
    BY <1>3 DEF IInv, Typed, Expire, RowsOK
  <2>2. PICK s \in {"running", "cancelled"} :
          rows' = [rows EXCEPT ![j] = [rows[j] EXCEPT !.live = FALSE, !.status = s]]
    BY <1>3, <2>1 DEF Expire, IInv, Typed, RowT
  <2> DEFINE r == [rows[j] EXCEPT !.live = FALSE, !.status = s]
  <2>3. r \in RowT /\ r.status = s /\ r.live = FALSE /\ rows' = [rows EXCEPT ![j] = r]
    BY <2>1, <2>2 DEF RowT, Statuses, Ends
  <2> HIDE DEF r
  <2> QED
    BY <1>3, <2>1, <2>2, <2>3, RowWritten DEF IInv, RowT, Ends, Quiet, Expire, stored, control
<1>4. UNCHANGED <<hand, requests, contexts, after>>
  BY DEF AskCancel, Schedule, Expire, stored, control
<1>5. after' \in [Operations -> SUBSET Operations] /\ \A o \in Operations : after'[o] \subseteq applied
  BY <1>4 DEF IInv, Typed, Shows, AppliedOK
<1> QED
  BY <1>1, <1>2, <1>3, <1>4, <1>5, IdleKept

LEMMA IdleReads == Read(Idle) /\ Idle.pc = "idle" /\ DOMAIN Idle = Fields
BY DEF Read, Idle, Fields

LEMMA ClaimStep ==
  ASSUME KnowledgeAssumption, IInv, NEW w \in Workers, NEW j \in AllJobs, Claim(w, j) PROVE IInv'
<1>1. rows[j] \in RowT /\ rows[j].status \in {"accepted", "running"} /\ rows[j].fence < MaxAttempts
  BY DEF IInv, Typed, Claim
<1>2. PICK fence \in 1 .. MaxAttempts : fence = rows[j].fence + 1
  BY <1>1 DEF RowT, KnowledgeAssumption
<1> DEFINE r == [status |-> "running", fence |-> fence, live |-> TRUE]
<1>3. r \in RowT /\ rows' = [rows EXCEPT ![j] = r] /\ r.status = "running"
  BY <1>1, <1>2 DEF Claim, RowT, Statuses, IInv, Typed
<1>4. Quiet
  <2> HIDE DEF r
  <2> QED
    BY <1>1, <1>3, RowWritten DEF IInv, Ends, Quiet, Claim, stored, control
<1>5. PICK h : h = [Idle EXCEPT !.job = j, !.fence = fence, !.pc = "claimed"]
  OBVIOUS
<1>6. h.job = j /\ h.fence = fence /\ h.pc = "claimed" /\ h.got = {} /\ DOMAIN h = Fields
  BY <1>5 DEF Idle, Fields
<1>7. hand'[w] = h /\ HandMoved(w)
  BY <1>2, <1>5, <1>6 DEF Claim, HandMoved, IInv, Typed
<1>8. Read(h)'
  BY <1>6 DEF Read
<1>9. requests \subseteq requests' /\ requests' \subseteq Operations
  BY DEF Claim, stored, IInv, Typed
<1> QED
  BY <1>4, <1>7, <1>8, <1>9, MovedKept DEF Claim, stored, control

\* finish, by a process whose lease is good.
LEMMA Finished ==
  ASSUME KnowledgeAssumption, IInv, NEW w \in Workers, hand[w].pc # "idle", Owns(w),
         NEW s \in {"accepted", "completed", "failed", "cancelled"}, Finish(w, s)
  PROVE  /\ hand[w].job \in AllJobs /\ Row(w) \in RowT
         /\ Row(w).status \in {"running", "cancel_requested"}
         /\ RowsMoved /\ (hand[w].job \notin Operations \/ s # "completed" => NoneDone)
         /\ \A j \in AllJobs \ {hand[w].job} : rows'[j] = rows[j]
         /\ rows'[hand[w].job].status = IF Row(w).status = "running" THEN s ELSE "cancelled"
         /\ hand'[w] = Idle /\ HandMoved(w)
<1>1. hand[w].job \in AllJobs /\ Row(w) \in RowT /\ Row(w).status \in {"running", "cancel_requested"}
  <2>1. hand[w] # Idle
    BY IdleReads
  <2> QED
    BY <2>1 DEF IInv, Typed, RowsOK, Owns, Row
<1> DEFINE t == IF Row(w).status = "running" THEN s ELSE "cancelled"
           r == [Row(w) EXCEPT !.status = t, !.live = FALSE]
<1>2. t \in Statuses \ {"running", "cancel_requested"} /\ (t = "completed" => s = "completed")
  BY DEF Statuses, Ends
<1>3. rows' = [rows EXCEPT ![hand[w].job] = r]
  BY <1>1 DEF Finish, Row, IInv, Typed, RowT
<1> HIDE DEF t
<1>4. r \in RowT /\ r.status = t /\ r.live = FALSE
  BY <1>1, <1>2 DEF RowT
<1> HIDE DEF r
<1>5. RowsMoved /\ (hand[w].job \notin Operations \/ s # "completed" => NoneDone)
  BY <1>1, <1>2, <1>3, <1>4, RowWritten DEF IInv, Row, Ends
<1>6. /\ \A j \in AllJobs \ {hand[w].job} : rows'[j] = rows[j]
      /\ rows'[hand[w].job].status = t
  BY <1>1, <1>3, <1>4 DEF IInv, Typed
<1>7. hand'[w] = Idle /\ HandMoved(w)
  BY IdleReads DEF Finish, IInv, Typed, HandMoved
<1> QED
  BY <1>1, <1>5, <1>6, <1>7 DEF t

LEMMA Stopped ==
  ASSUME KnowledgeAssumption, IInv, NEW w \in Workers, hand[w].pc # "idle", Owns(w),
         NEW s \in {"accepted", "completed", "failed", "cancelled"}, Stop(w, s),
         hand[w].job \notin Operations \/ s # "completed"
  PROVE  IInv'
<1>1. RowsMoved /\ NoneDone /\ hand'[w] = Idle /\ HandMoved(w)
  BY Finished DEF Stop
<1>2. UNCHANGED <<stored, control>> /\ Read(Idle)'
  BY IdleReads DEF Stop, Read, Idle
<1>3. requests \subseteq requests' /\ requests' \subseteq Operations
  BY <1>2 DEF stored, IInv, Typed
<1> QED
  BY <1>1, <1>2, <1>3, MovedKept DEF Quiet, stored, control

\* A heartbeat that sees a cancellation, errors, and the end of a creation.
LEMMA StopSteps ==
  ASSUME KnowledgeAssumption, IInv, NEW w \in Workers,
         Cancelled(w) \/ Fail(w) \/ Retry(w) \/ Create(w)
  PROVE  IInv'
<1>1. hand[w].pc # "idle" /\ Owns(w)
  BY DEF Cancelled, Fail, Retry, Create, At, Creating
<1>2. CASE Cancelled(w) \/ Fail(w) \/ Retry(w)
  BY <1>1, <1>2, Stopped DEF Cancelled, Fail, Retry
<1>3. CASE Create(w)
  <2>1. hand[w].job \notin Operations
    BY <1>3 DEF Create, Creating, KnowledgeAssumption
  <2> QED
    BY <1>1, <1>3, <2>1, Stopped DEF Create
<1> QED
  BY <1>2, <1>3

LEMMA LeaveStep ==
  ASSUME KnowledgeAssumption, IInv, NEW w \in Workers, Leave(w) PROVE IInv'
<1>1. hand'[w] = Idle /\ HandMoved(w) /\ Read(Idle)'
  BY IdleReads DEF Leave, IInv, Typed, HandMoved, Read, Idle
<1>2. Quiet
  BY DEF Leave, stored, control, Quiet, RowsMoved, NoneDone, IInv, Typed, RowsOK
<1>3. requests \subseteq requests' /\ requests' \subseteq Operations
  BY DEF Leave, stored, IInv, Typed
<1> QED
  BY <1>1, <1>2, <1>3, MovedKept DEF Leave, stored, control

-----------------------------------------------------------------------------
(* What a process reads, and what it stages.                               *)

\* Only what the process has in hand changes.
LEMMA HandOnly ==
  ASSUME KnowledgeAssumption, IInv, NEW w \in Workers, hand[w] # Idle,
         UNCHANGED <<rows, memory, ready, packs, bound, contexts, control>>,
         requests \subseteq requests', requests' \subseteq Operations,
         NEW h, hand' = [hand EXCEPT ![w] = h], DOMAIN h = Fields,
         h.job = hand[w].job, h.fence = hand[w].fence, Read(h)'
  PROVE  IInv'
<1>1. hand'[w] = h /\ HandMoved(w)
  BY DEF IInv, Typed, HandMoved
<1>2. Quiet
  BY DEF control, Quiet, RowsMoved, NoneDone, IInv, Typed, RowsOK
<1> QED
  BY <1>1, <1>2, MovedKept DEF control

LEMMA ReadVersionStep ==
  ASSUME KnowledgeAssumption, IInv, NEW w \in Workers, NEW c \in Creations, ReadVersion(w, c)
  PROVE  IInv'
<1>1. PICK of \in 0 .. MaxFacts :
        hand' = [hand EXCEPT ![w].pc = "read", ![w].got = Reading(hand[w].fence, of)]
  BY DEF ReadVersion
<1>2. PICK h : h = [hand[w] EXCEPT !.pc = "read", !.got = Reading(hand[w].fence, of)]
  OBVIOUS
<1>3. /\ h.job = hand[w].job /\ h.fence = hand[w].fence /\ h.pc = "read"
      /\ h.got = Reading(h.fence, of) /\ DOMAIN h = Fields
  BY <1>2 DEF IInv, Typed, Fields
<1>4. hand' = [hand EXCEPT ![w] = h]
  BY <1>1, <1>2 DEF IInv, Typed
<1>5. Read(h)'
  BY <1>3 DEF Read
<1>6. hand[w] # Idle /\ requests' = requests /\ requests \subseteq Operations
  BY IdleReads DEF ReadVersion, At, stored, IInv, Typed
<1> QED
  BY <1>3, <1>4, <1>5, <1>6, HandOnly DEF ReadVersion, stored

LEMMA CheckRequiredStep ==
  ASSUME KnowledgeAssumption, IInv, NEW w \in Workers, CheckRequired(w) PROVE IInv'
<1>1. /\ hand[w].pc = "claimed" /\ hand[w].job \in Creations /\ Owns(w) /\ hand[w] # Idle
      /\ hand[w].got = {}
  BY IdleReads DEF CheckRequired, Creating, IInv, HandsOK, Read
<1>2. CASE RequiredOf[hand[w].job] \subseteq ready
  <2>1. PICK h : h = [hand[w] EXCEPT !.pc = "checked"]
    OBVIOUS
  <2>2. /\ h.job = hand[w].job /\ h.fence = hand[w].fence /\ h.pc = "checked"
        /\ h.got = {} /\ DOMAIN h = Fields
    BY <1>1, <2>1 DEF IInv, Typed, Fields
  <2>3. hand' = [hand EXCEPT ![w] = h] /\ UNCHANGED <<rows, stored, control>>
    BY <1>2, <2>1 DEF CheckRequired, IInv, Typed
  <2>4. Read(h)'
    BY <1>1, <1>2, <2>2, <2>3 DEF Read, stored
  <2>5. requests' = requests /\ requests \subseteq Operations
    BY <2>3 DEF stored, IInv, Typed
  <2> QED
    BY <1>1, <2>2, <2>3, <2>4, <2>5, HandOnly DEF stored
<1>3. CASE ~(RequiredOf[hand[w].job] \subseteq ready)
  BY <1>1, <1>3, Stopped DEF CheckRequired, KnowledgeAssumption
<1> QED
  BY <1>2, <1>3

\* What is required is of the project, and remembered; what the project has is of
\* its memories.
LEMMA RequiredThere ==
  ASSUME KnowledgeAssumption, IInv, NEW w \in Workers, Read(hand[w]),
         hand[w].pc \in {"checked", "facts", "summaries", "recalled"}
  PROVE  /\ \A r \in Required(hand[w].job) : r \in ready /\ MemoryOf(r) \subseteq Local(Home(w))
         /\ AsRead(Local(Home(w)))
<1>1. ASSUME NEW r \in Required(hand[w].job)
      PROVE  r \in Creations /\ r \in ready /\ HomeOf[r] = Home(w)
  BY <1>1 DEF Read, Required, Home, IInv, Typed
<1>2. \A r \in Required(hand[w].job) : MemoryOf(r) \subseteq Local(Home(w))
  BY <1>1, LocalParts DEF MemoryOf
<1>3. AsRead(Local(Home(w)))
  BY LocalParts DEF AsRead
<1> QED
  BY <1>1, <1>2, <1>3

LEMMA RecallFactsStep ==
  ASSUME KnowledgeAssumption, IInv, NEW w \in Workers, RecallFacts(w) PROVE IInv'
<1>1. /\ hand[w].pc = "checked" /\ hand[w].job \in Creations /\ hand[w] # Idle
      /\ hand[w].got = {} /\ Read(hand[w])
  BY IdleReads DEF RecallFacts, Recall, Creating, IInv, HandsOK, Read
<1>2. PICK got \in Limited(FactLimit, Facts(Local(Home(w)))) :
        hand' = [hand EXCEPT ![w].pc = "facts", ![w].got = @ \cup got]
  BY DEF RecallFacts, Recall
<1>3. PICK h : h = [hand[w] EXCEPT !.pc = "facts", !.got = got]
  OBVIOUS
<1>4. /\ h.job = hand[w].job /\ h.fence = hand[w].fence /\ h.pc = "facts"
      /\ h.got = got /\ DOMAIN h = Fields
  BY <1>3 DEF IInv, Typed, Fields
<1>5. hand' = [hand EXCEPT ![w] = h] /\ UNCHANGED <<rows, stored, control>>
  <2>1. hand[w].got \cup got = got
    BY <1>1
  <2> QED
    BY <1>2, <1>3, <2>1 DEF RecallFacts, Recall, IInv, Typed
<1>6. /\ got \subseteq Facts(Local(Home(w)))
      /\ \A W \in SUBSET Facts(Local(Home(w))) : Has(got, FactLimit, W)
  BY LimitedHas DEF KnowledgeAssumption
<1>7. AsRead(h.got) /\ Summaries(h.got) = {} /\ Facts(got) = got
  BY <1>1, <1>4, <1>6, RequiredThere DEF AsRead, Facts, Summaries
<1>8. ASSUME NEW r \in Required(h.job) PROVE FactsHad(r, h.got)
  <2>1. Facts(MemoryOf(r)) \subseteq Facts(Local(Home(w)))
    BY <1>1, <1>4, RequiredThere DEF Facts
  <2> QED
    BY <1>4, <1>6, <1>7, <2>1 DEF FactsHad
<1>9. Read(h)
  BY <1>1, <1>4, <1>7, <1>8 DEF Read
<1>10. Read(h)'
  BY <1>5, <1>9, ReadKept DEF IInv, Stores, Grown, stored
<1>11. requests' = requests /\ requests \subseteq Operations
  BY <1>5 DEF stored, IInv, Typed
<1> QED
  BY <1>1, <1>4, <1>5, <1>10, <1>11, HandOnly DEF stored

LEMMA RecallSummariesStep ==
  ASSUME KnowledgeAssumption, IInv, NEW w \in Workers, RecallSummaries(w) PROVE IInv'
<1>1. /\ hand[w].pc = "facts" /\ hand[w].job \in Creations /\ hand[w] # Idle /\ Read(hand[w])
  BY IdleReads DEF RecallSummaries, Recall, Creating, IInv, HandsOK
<1>2. PICK more \in Limited(SummaryLimit, Summaries(Local(Home(w)))) :
        hand' = [hand EXCEPT ![w].pc = "summaries", ![w].got = @ \cup more]
  BY DEF RecallSummaries, Recall
<1>3. PICK h : h = [hand[w] EXCEPT !.pc = "summaries", !.got = hand[w].got \cup more]
  OBVIOUS
<1>4. /\ h.job = hand[w].job /\ h.fence = hand[w].fence /\ h.pc = "summaries"
      /\ h.got = hand[w].got \cup more /\ DOMAIN h = Fields
  BY <1>3 DEF IInv, Typed, Fields
<1>5. hand' = [hand EXCEPT ![w] = h] /\ UNCHANGED <<rows, stored, control>>
  BY <1>2, <1>3 DEF RecallSummaries, Recall, IInv, Typed
<1>6. /\ more \subseteq Summaries(Local(Home(w)))
      /\ \A W \in SUBSET Summaries(Local(Home(w))) : Has(more, SummaryLimit, W)
  BY LimitedHas DEF KnowledgeAssumption
<1>7. /\ AsRead(hand[w].got) /\ Summaries(hand[w].got) = {}
      /\ \A r \in Required(h.job) : FactsHad(r, hand[w].got)
  BY <1>1, <1>4 DEF Read
<1>8. AsRead(h.got) /\ Facts(h.got) = Facts(hand[w].got) /\ Summaries(h.got) = more
  BY <1>1, <1>4, <1>6, <1>7, RequiredThere DEF AsRead, Facts, Summaries
<1>9. ASSUME NEW r \in Required(h.job) PROVE FactsHad(r, h.got) /\ SummariesHad(r, h.got)
  <2>1. Summaries(MemoryOf(r)) \subseteq Summaries(Local(Home(w)))
    BY <1>1, <1>4, RequiredThere DEF Summaries
  <2> QED
    BY <1>6, <1>7, <1>8, <2>1 DEF FactsHad, SummariesHad
<1>10. Read(h)
  BY <1>1, <1>4, <1>8, <1>9 DEF Read
<1>11. Read(h)'
  BY <1>5, <1>10, ReadKept DEF IInv, Stores, Grown, stored
<1>12. requests' = requests /\ requests \subseteq Operations
  BY <1>5 DEF stored, IInv, Typed
<1> QED
  BY <1>1, <1>4, <1>5, <1>11, <1>12, HandOnly DEF stored

LEMMA RecallPacksStep ==
  ASSUME KnowledgeAssumption, IInv, NEW w \in Workers, RecallPacks(w) PROVE IInv'
<1> DEFINE found == {<<k, packs[k]>> : k \in {o \in Operations : <<Home(w), o>> \in bound}}
<1>1. /\ hand[w].pc = "summaries" /\ hand[w].job \in Creations /\ hand[w] # Idle /\ Read(hand[w])
  BY IdleReads DEF RecallPacks, Creating, IInv, HandsOK
<1>2. PICK h : h = [hand[w] EXCEPT !.pc = "recalled", !.packs = found]
  OBVIOUS
<1>3. /\ h.job = hand[w].job /\ h.fence = hand[w].fence /\ h.pc = "recalled"
      /\ h.got = hand[w].got /\ h.packs = found /\ DOMAIN h = Fields
  BY <1>2 DEF IInv, Typed, Fields
<1>4. hand' = [hand EXCEPT ![w] = h] /\ UNCHANGED <<rows, stored, control>>
  BY <1>2 DEF RecallPacks, IInv, Typed
<1>5. Published(h.packs)
  <2>1. ASSUME NEW k \in Operations, <<Home(w), k>> \in bound PROVE packs[k] # {}
    <3>1. packs[<<Home(w), k>>[2]] # {}
      BY <2>1 DEF IInv, Stores, BoundOK
    <3> QED
      BY <3>1
  <2>2. ASSUME NEW x \in found PROVE x[1] \in Operations /\ x[2] # {} /\ x[2] = packs[x[1]]
    <3>1. PICK k \in Operations : <<Home(w), k>> \in bound /\ x = <<k, packs[k]>>
      BY <2>2
    <3> QED
      BY <2>1, <3>1
  <2> QED
    BY <1>3, <2>2 DEF Published
<1>6. Read(h)
  BY <1>1, <1>3, <1>5 DEF Read
<1>7. Read(h)'
  BY <1>4, <1>6, ReadKept DEF IInv, Stores, Grown, stored
<1>8. requests' = requests /\ requests \subseteq Operations
  BY <1>4 DEF stored, IInv, Typed
<1> QED
  BY <1>1, <1>3, <1>4, <1>7, <1>8, HandOnly DEF stored

LEMMA StageStep ==
  ASSUME KnowledgeAssumption, IInv, NEW w \in Workers, Stage(w) PROVE IInv'
<1>1. hand[w].pc = "claimed" /\ Owns(w) /\ hand[w] # Idle /\ hand[w].job \in Operations
  BY IdleReads DEF Stage, At
<1>2. CASE ~Valid(hand[w].job)
  BY <1>1, <1>2, Stopped DEF Stage
<1>3. CASE Valid(hand[w].job)
  <2>1. PICK h : h = [hand[w] EXCEPT !.pc = "staged"]
    OBVIOUS
  <2>2. h.job = hand[w].job /\ h.fence = hand[w].fence /\ h.pc = "staged" /\ DOMAIN h = Fields
    BY <2>1 DEF IInv, Typed, Fields
  <2>3. /\ hand' = [hand EXCEPT ![w] = h] /\ requests' = requests \cup {hand[w].job}
        /\ UNCHANGED <<rows, memory, ready, packs, bound, contexts, control>>
    BY <1>3, <2>1 DEF Stage, IInv, Typed
  <2>4. ASSUME NEW o \in Operations, o = hand[w].job PROVE Possible(o)'
    BY <1>3, <2>3, <2>4 DEF Valid, Possible, Local
  <2>5. Read(h)'
    BY <1>1, <2>2, <2>3, <2>4 DEF Read
  <2>6. requests \subseteq requests' /\ requests' \subseteq Operations
    BY <1>1, <2>3 DEF IInv, Typed
  <2> QED
    BY <1>1, <2>2, <2>3, <2>5, <2>6, HandOnly
<1> QED
  BY <1>2, <1>3


LEMMA SavePlanStep ==
  ASSUME KnowledgeAssumption, IInv, NEW w \in Workers, SavePlan(w) PROVE IInv'
<1>1. PICK c \in Creations : c = hand[w].job
  BY DEF SavePlan, Creating
<1>2. hand[w].pc = "recalled" /\ hand[w] # Idle /\ Read(hand[w])
  BY IdleReads DEF SavePlan, Creating, IInv, HandsOK
<1>3. /\ AsRead(hand[w].got)
      /\ \A r \in Required(c) : r \in ready /\ FactsHad(r, hand[w].got) /\ SummariesHad(r, hand[w].got)
  BY <1>1, <1>2, RequiredThere DEF Read
<1>4. Published(hand[w].packs)
  BY <1>2 DEF Read
<1>5. PICK k : k = [got |-> hand[w].got, packs |-> hand[w].packs]
  OBVIOUS
<1>6. /\ contexts' = [contexts EXCEPT ![c] = k]
      /\ UNCHANGED <<rows, memory, ready, requests, packs, bound, control>>
      /\ k.got = hand[w].got /\ k.packs = hand[w].packs
  BY <1>1, <1>5 DEF SavePlan
<1>7. DOMAIN contexts' = Creations
      /\ \A d \in Creations : contexts'[d] = IF d = c THEN k ELSE contexts[d]
  BY <1>6 DEF IInv, Typed
<1>8. ContextsOK'
  <2> SUFFICES ASSUME NEW d \in Creations, NEW x, x = contexts'[d]
               PROVE  /\ AsRead(x.got) /\ Published(x.packs)
                      /\ x # NoContext => \A r \in Required(d) :
                           r \in ready /\ FactsHad(r, x.got) /\ SummariesHad(r, x.got)
    BY <1>6 DEF ContextsOK, AsRead, Published, Required, FactsHad, SummariesHad, Has, Facts,
                Summaries, MemoryOf, NoContext
  <2>1. CASE d = c
    BY <1>3, <1>4, <1>6, <1>7, <2>1
  <2>2. CASE d # c
    BY <1>7, <2>2 DEF IInv, Stores, ContextsOK
  <2> QED
    BY <2>1, <2>2
<1>9. Stores'
  BY <1>6, <1>8 DEF IInv, Stores, RememberedOK, OneReading, PacksOK, BoundOK, AsRead, Has, MemoryOf, Kind
<1>10. PICK h : h = [hand[w] EXCEPT !.pc = "planned", !.got = {}, !.packs = {}]
  OBVIOUS
<1>11. h.job = hand[w].job /\ h.fence = hand[w].fence /\ h.pc = "planned" /\ DOMAIN h = Fields
  BY <1>10 DEF IInv, Typed, Fields
<1>12. hand' = [hand EXCEPT ![w] = h]
  BY <1>10 DEF SavePlan, IInv, Typed
<1>13. hand'[w] = h /\ HandMoved(w) /\ Read(h)'
  BY <1>2, <1>11, <1>12 DEF IInv, Typed, HandMoved, Read
<1>14. HandsOK'
  <2>1. Grown
    BY <1>6 DEF Grown
  <2> QED
    BY <1>13, <2>1, HandsKept DEF IInv, Stores
<1>15. Typed'
  BY <1>6, <1>7, <1>13, HandTyped DEF IInv, Typed, control
<1>16. Shows' /\ RowsOK'
  <2>1. NoneDone
    BY <1>6 DEF NoneDone
  <2> QED
    BY <1>6, <2>1, ShowsKept DEF IInv, RowsOK, control, Shows, AppliedOK
<1> QED
  BY <1>9, <1>14, <1>15, <1>16 DEF IInv

-----------------------------------------------------------------------------
(* What is stored where a job completes.                                    *)

LEMMA CommitMemoryStep ==
  ASSUME KnowledgeAssumption, IInv, NEW w \in Workers, NEW c \in Creations, CommitMemory(w, c)
  PROVE  IInv'
<1>1. /\ hand[w].pc = "read" /\ hand[w].job = Refresh(c) /\ Owns(w) /\ hand[w] # Idle
      /\ Read(hand[w]) /\ Refresh(c) \in AllJobs /\ Refresh(c) \notin Creations \cup Operations
  BY IdleReads DEF CommitMemory, MayCommit, IInv, HandsOK, AllJobs, KnowledgeAssumption
<1>2. hand[w].fence \in 1 .. MaxAttempts
  BY <1>1 DEF IInv, Typed
<1>3. PICK of \in 0 .. MaxFacts : hand[w].got = Reading(hand[w].fence, of)
  BY <1>1 DEF Read
<1>4. /\ Row(w).status \in {"running", "cancel_requested"}
      /\ RowsMoved /\ NoneDone /\ hand'[w] = Idle /\ HandMoved(w)
      /\ rows'[Refresh(c)].status = IF Row(w).status = "running" THEN "completed" ELSE "cancelled"
  BY <1>1, Finished DEF CommitMemory
<1>5. c \notin ready /\ memory[c] = {}
  BY <1>1, <1>4 DEF IInv, Stores, RememberedOK, Row, Ends
<1>6. /\ memory' = [memory EXCEPT ![c] = Reading(hand[w].fence, of)]
      /\ ready' = ready \cup {c}
      /\ UNCHANGED <<requests, packs, bound, contexts, control>>
  <2>1. Inserted(memory[c], hand[w].got) = Reading(hand[w].fence, of)
    BY <1>3, <1>5 DEF Inserted
  <2> QED
    BY <2>1 DEF CommitMemory
<1>7. DOMAIN memory' = Creations /\ OneReading(memory'[c])
      /\ \A d \in Creations \ {c} : memory'[d] = memory[d]
  BY <1>2, <1>6 DEF OneReading, IInv, Typed
<1>8. Grown
  BY <1>5, <1>6, <1>7 DEF Grown, IInv, Typed
<1>9. HandsOK'
  <2>1. Read(Idle)'
    BY IdleReads DEF Read, Idle
  <2> QED
    BY <1>4, <1>8, <2>1, HandsKept DEF IInv, Stores
<1>10. Typed'
  BY <1>4, <1>6, <1>7, HandTyped DEF IInv, Typed, RowsMoved, control
<1>11. RememberedOK'
  <2> SUFFICES ASSUME NEW d \in Creations
               PROVE  IF d \in ready' THEN OneReading(memory'[d]) /\ rows'[Refresh(d)].status \in Ends
                      ELSE memory'[d] = {}
    BY DEF RememberedOK, OneReading, Refresh, Reading
  <2>1. CASE d = c
    BY <1>4, <1>6, <1>7, <2>1 DEF Ends
  <2>2. CASE d # c
    <3>1. Refresh(d) \in AllJobs /\ memory'[d] = memory[d] /\ (d \in ready' <=> d \in ready)
      BY <1>6, <1>7, <2>2 DEF AllJobs
    <3> QED
      BY <1>4, <3>1 DEF RowsMoved, IInv, Stores, RememberedOK
  <2> QED
    BY <2>1, <2>2
<1>12. PacksOK' /\ BoundOK' /\ ContextsOK'
  BY <1>4, <1>6, <1>8, RecordsKept DEF IInv, Stores, BoundOK
<1>13. Shows'
  <2>1. Operations \subseteq AllJobs
    BY DEF AllJobs
  <2> QED
    BY <1>4, <1>6, <2>1, ShowsKept DEF IInv, RowsMoved, control, Shows, AppliedOK
<1> QED
  BY <1>4, <1>9, <1>10, <1>11, <1>12, <1>13 DEF IInv, Stores, RowsMoved

\* One operation has taken effect, and nothing was shown of it yet.
LEMMA ActedShows ==
  ASSUME KnowledgeAssumption, Typed, Shows, NEW o \in Operations, rows[o].status = "running",
         rows' \in [AllJobs -> RowT], rows'[o].status = "completed",
         \A j \in AllJobs \ {o} : rows'[j] = rows[j], UNCHANGED control,
         bound' = CASE Kind(o) = "bind" -> bound \cup {Target(o)}
                    [] Kind(o) = "unbind" -> bound \ {Target(o)}
                    [] OTHER -> bound
  PROVE  Shows'
<1>1. o \in AllJobs /\ Operations \subseteq AllJobs /\ o \notin applied
      /\ Kind(o) \in {"publish", "bind", "unbind"}
  BY DEF AllJobs, Shows, AppliedOK, Ends, KnowledgeAssumption
<1>2. \A a \in Operations : o \notin after'[a] /\ after'[a] = after[a]
  BY <1>1 DEF Shows, AppliedOK, control
<1>3. applied' = applied /\ shown' = shown
  BY DEF control
<1>4. ASSUME NEW p \in Pairs, Kind(o) # "publish", Target(o) = p
      PROVE  Acted(p)' = Acted(p) \cup {o} /\ (p \in bound' <=> Kind(o) = "bind")
  <2>1. Acted(p)' = Acted(p) \cup {o}
    BY <1>1, <1>4 DEF Acted, Kind, Target
  <2> QED
    BY <1>1, <1>4, <2>1
<1>5. ASSUME NEW p \in Pairs, Kind(o) = "publish" \/ Target(o) # p
      PROVE  Acted(p)' = Acted(p) /\ (p \in bound' <=> p \in bound)
  <2>1. Acted(p)' = Acted(p)
    BY <1>1, <1>5 DEF Acted, Kind, Target
  <2> QED
    BY <1>1, <1>5, <2>1
<1>6. \A p \in Pairs : Acted(p) \subseteq Operations
  BY DEF Acted
<1>7. OneKind'
  <2> SUFFICES ASSUME NEW p \in Pairs, NEW kind \in {"bind", "unbind"},
                      \A x \in Acted(p)' : Kind(x) = kind
               PROVE  p \in bound' <=> Acted(p)' # {} /\ kind = "bind"
    BY DEF OneKind, Kind
  <2> QED
    BY <1>4, <1>5 DEF Shows, OneKind
<1>8. BoundLast'
  <2> SUFFICES ASSUME NEW p \in Pairs
               PROVE  IF Acted(p)' = {} THEN p \notin bound'
                      ELSE \E m \in Acted(p)' : Decides(m, Acted(p), p \in bound)'
    BY DEF BoundLast
  <2>1. CASE Kind(o) # "publish" /\ Target(o) = p
    <3>1. Decides(o, Acted(p), p \in bound)'
      BY <1>2, <1>4, <1>6, <2>1 DEF Decides, Kind
    <3> QED
      BY <1>4, <2>1, <3>1
  <2>2. CASE Kind(o) = "publish" \/ Target(o) # p
    BY <1>2, <1>5, <1>6, <2>2 DEF Shows, BoundLast, Decides, Kind
  <2> QED
    BY <2>1, <2>2
<1>9. ShownLast'
  <2>1. ASSUME NEW p \in Pairs PROVE Acted(p)' \cap applied' = Acted(p) \cap applied
    BY <1>1, <1>3, <1>4, <1>5
  <2> SUFFICES ASSUME NEW p \in Pairs
               PROVE  IF Acted(p)' \cap applied' = {} THEN p \notin shown'
                      ELSE \E m \in Acted(p)' \cap applied' :
                             Decides(m, Acted(p) \cap applied, p \in shown)'
    BY DEF ShownLast
  <2> QED
    BY <1>2, <1>3, <1>6, <2>1 DEF Shows, ShownLast, Decides, Kind
<1>10. AppliedOK'
  <2>1. \A x \in Operations : x \in applied => x # o
    BY <1>1
  <2> QED
    BY <1>1, <1>2, <1>3, <2>1 DEF Shows, AppliedOK
<1> QED
  BY <1>7, <1>8, <1>9, <1>10 DEF Shows

LEMMA CommitOperationStep ==
  ASSUME KnowledgeAssumption, IInv, NEW w \in Workers, NEW o \in Operations, CommitOperation(w, o)
  PROVE  IInv'
<1>1. /\ hand[w].pc = "staged" /\ hand[w].job = o /\ Owns(w) /\ Read(hand[w])
      /\ o \in AllJobs /\ Possible(o) /\ Kind(o) \in {"publish", "bind", "unbind"}
  BY DEF CommitOperation, At, IInv, HandsOK, Read, AllJobs, KnowledgeAssumption
<1>2. /\ Row(w).status \in {"running", "cancel_requested"} /\ Row(w) = rows[o]
      /\ RowsMoved /\ hand'[w] = Idle /\ HandMoved(w)
      /\ rows'[o].status = IF rows[o].status = "running" THEN "completed" ELSE "cancelled"
      /\ \A j \in AllJobs \ {o} : rows'[j] = rows[j]
  BY <1>1, Finished DEF CommitOperation, Row
<1>3. UNCHANGED <<memory, ready, requests, contexts, control>> /\ Read(Idle)'
  BY IdleReads DEF CommitOperation, Read, Idle
<1>4. requests \subseteq requests' /\ requests' \subseteq Operations
  BY <1>3 DEF IInv, Typed
<1>5. CASE ~Done(w)
  <2>1. NoneDone
    <3>1. Operations \subseteq AllJobs
      BY DEF AllJobs
    <3> QED
      BY <1>2, <1>5, <3>1 DEF NoneDone, Done
  <2>2. UNCHANGED <<packs, bound>>
    BY <1>5 DEF CommitOperation
  <2> QED
    BY <1>2, <1>3, <1>4, <2>1, <2>2, MovedKept DEF Quiet, control
<1>6. CASE Done(w)
  <2>1. rows[o].status = "running" /\ rows'[o].status = "completed"
    BY <1>2, <1>6 DEF Done
  <2>2. PICK nodes :
          /\ Kind(o) = "publish" => /\ nodes \in Limited(PackLimit, Local(HomeOf[o]))
                                   /\ packs' = [packs EXCEPT ![o] = IF @ = {} THEN nodes ELSE @]
          /\ Kind(o) # "publish" => packs' = packs
    BY <1>6 DEF CommitOperation
  <2>3. /\ DOMAIN packs' = Operations
        /\ \A k \in Operations \ {o} : packs'[k] = packs[k]
        /\ packs'[o] = IF Kind(o) = "publish" THEN nodes ELSE packs[o]
        /\ Kind(o) = "publish" => /\ packs[o] = {} /\ nodes # {} /\ nodes \subseteq Local(HomeOf[o])
                                 /\ \A W \in SUBSET Local(HomeOf[o]) : Has(nodes, PackLimit, W)
    <3>1. Kind(o) = "publish" => packs[o] = {} /\ Local(HomeOf[o]) # {}
      BY <1>1, <2>1 DEF IInv, Stores, PacksOK, Possible
    <3>2. Kind(o) = "publish" => /\ nodes # {} /\ nodes \subseteq Local(HomeOf[o])
                                 /\ \A W \in SUBSET Local(HomeOf[o]) : Has(nodes, PackLimit, W)
      BY <2>2, <3>1, LimitedHas DEF KnowledgeAssumption
    <3> QED
      BY <2>2, <3>1, <3>2 DEF IInv, Typed
  <2>4. Grown
    BY <1>3, <2>3 DEF Grown
  <2>5. HandsOK'
    BY <1>2, <1>3, <2>4, HandsKept DEF IInv, Stores
  <2>6. /\ bound' = CASE Kind(o) = "bind" -> bound \cup {Target(o)}
                      [] Kind(o) = "unbind" -> bound \ {Target(o)}
                      [] OTHER -> bound
        /\ bound' \subseteq Pairs
    <3>1. Kind(o) # "publish" => Target(o) \in Pairs
      BY DEF Pairs
    <3> QED
      BY <1>1, <1>6, <3>1 DEF CommitOperation, IInv, Typed
  <2>7. Typed'
    BY <1>2, <1>3, <2>3, <2>6, HandTyped DEF IInv, Typed, RowsMoved, control
  <2>8. RememberedOK'
    <3>1. \A c \in Creations : Refresh(c) \in AllJobs
      BY DEF AllJobs
    <3> QED
      BY <1>2, <1>3, <3>1 DEF IInv, Stores, RememberedOK, RowsMoved, OneReading, Ends
  <2>9. PacksOK'
    <3>1. \A k \in Operations : Kind(k) = "publish" =>
            (packs'[k] # {} <=> rows'[k].status = "completed")
      <4>1. Operations \subseteq AllJobs
        BY DEF AllJobs
      <4> QED
        BY <1>2, <2>1, <2>3, <4>1 DEF IInv, Stores, PacksOK
    <3>2. ASSUME NEW k \in Operations
          PROVE  AsRead(packs'[k]) /\ \A x \in packs'[k] : Has(packs'[k], PackLimit, MemoryOf(x[1]))
      <4>1. CASE k = o /\ Kind(o) = "publish"
        <5>1. AsRead(nodes)
          BY <2>3, <4>1, LocalParts DEF AsRead
        <5>2. \A x \in nodes : MemoryOf(x[1]) \subseteq Local(HomeOf[o])
          BY <2>3, <4>1, LocalParts DEF MemoryOf
        <5> QED
          BY <2>3, <4>1, <5>1, <5>2
      <4>2. CASE ~(k = o /\ Kind(o) = "publish")
        <5>1. packs'[k] = packs[k]
          BY <2>3, <4>2
        <5> QED
          BY <5>1 DEF IInv, Stores, PacksOK
      <4> QED
        BY <4>1, <4>2
    <3> QED
      BY <1>3, <3>1, <3>2 DEF PacksOK, AsRead, Has, MemoryOf, Kind
  <2>10. BoundOK'
    <3>1. \A k \in Operations : packs[k] # {} => packs'[k] # {}
      BY <2>4 DEF Grown
    <3>2. \A p \in Pairs : p[2] \in Operations
      BY DEF Pairs, Target, KnowledgeAssumption
    <3>3. ASSUME Kind(o) = "bind" PROVE packs[Target(o)[2]] # {}
      BY <1>1, <3>3 DEF Possible, Target
    <3>4. ASSUME NEW p \in bound' PROVE packs[p[2]] # {} /\ p[2] \in Operations
      BY <1>1, <2>6, <3>2, <3>3, <3>4 DEF IInv, Stores, BoundOK
    <3> QED
      BY <3>1, <3>4 DEF BoundOK
  <2>11. ContextsOK'
    <3>1. \A c \in Creations : Published(contexts[c].packs)'
      BY <1>3, <2>4 DEF IInv, Stores, ContextsOK, Grown, Published
    <3> QED
      BY <1>3, <3>1 DEF IInv, Stores, ContextsOK, AsRead, Required, FactsHad, SummariesHad, Has,
                        Facts, Summaries, MemoryOf, NoContext
  <2>12. Shows'
    BY <1>2, <1>3, <2>1, <2>6, ActedShows DEF IInv, RowsMoved
  <2> QED
    BY <1>2, <2>5, <2>7, <2>8, <2>9, <2>10, <2>11, <2>12 DEF IInv, Stores, RowsMoved
<1> QED
  BY <1>5, <1>6

-----------------------------------------------------------------------------
(* Control.                                                                 *)

LEMMA ProjectStep ==
  ASSUME KnowledgeAssumption, IInv, NEW o \in Operations, Project(o) PROVE IInv'
<1>1. /\ rows[o].status \in Ends /\ o \notin applied /\ applied' = applied \cup {o}
      /\ UNCHANGED <<rows, hand, stored, after>>
      /\ Kind(o) \in {"publish", "bind", "unbind"}
  BY DEF Project, KnowledgeAssumption
<1>2. shown' = CASE rows[o].status = "completed" /\ Kind(o) = "bind" -> shown \cup {Target(o)}
                 [] rows[o].status = "completed" /\ Kind(o) = "unbind" -> shown \ {Target(o)}
                 [] OTHER -> shown
  BY DEF Project, Shown
<1>3. Typed' /\ RowsOK'
  BY <1>1 DEF IInv, Typed, RowsOK, stored
<1>4. Stores'
  <2>1. RememberedOK' /\ BoundOK'
    BY <1>1 DEF IInv, Stores, RememberedOK, BoundOK, OneReading, stored
  <2>2. Grown /\ NoneDone /\ UNCHANGED <<packs, contexts>>
    BY <1>1 DEF Grown, NoneDone, stored
  <2> QED
    BY <2>1, <2>2, RecordsKept DEF IInv, Stores
<1>5. HandsOK'
  <2>1. Grown
    BY <1>1 DEF Grown, stored
  <2>2. SUFFICES ASSUME NEW v \in Workers, NEW k, k = hand'[v] PROVE Read(k)'
    BY DEF HandsOK
  <2> QED
    BY <1>1, <2>1, <2>2, ReadKept DEF IInv, Stores, HandsOK
<1>6. \A p : Acted(p)' = Acted(p) /\ Acted(p) \subseteq Operations
  BY <1>1 DEF Acted, Kind, Target
<1>7. OneKind' /\ BoundLast'
  <2>1. bound' = bound /\ after' = after
    BY <1>1 DEF stored
  <2> QED
    BY <1>6, <2>1 DEF IInv, Shows, OneKind, BoundLast, Decides, Kind
<1>8. ShownLast'
  <2> SUFFICES ASSUME NEW p \in Pairs
               PROVE  IF Acted(p) \cap applied' = {} THEN p \notin shown'
                      ELSE \E m \in Acted(p) \cap applied' :
                             Decides(m, Acted(p) \cap applied', p \in shown')
    BY <1>1, <1>6 DEF ShownLast, Decides, Kind
  <2>1. CASE o \in Acted(p)
    <3>1. Decides(o, Acted(p) \cap applied', p \in shown')
      <4>1. \A a \in Acted(p) : o \notin after[a]
        BY <1>1, <1>6 DEF IInv, Shows, AppliedOK
      <4>2. (p \in shown') = (Kind(o) = "bind")
        BY <1>1, <1>2, <2>1 DEF Acted
      <4> QED
        BY <4>1, <4>2 DEF Decides
    <3> QED
      BY <1>1, <2>1, <3>1
  <2>2. CASE o \notin Acted(p)
    <3>1. Acted(p) \cap applied' = Acted(p) \cap applied
      BY <1>1, <2>2
    <3>2. (p \in shown') = (p \in shown)
      BY <1>1, <1>2, <2>2 DEF Acted
    <3> QED
      BY <3>1, <3>2 DEF IInv, Shows, ShownLast
  <2> QED
    BY <2>1, <2>2
<1>9. AppliedOK'
  BY <1>1 DEF IInv, Shows, AppliedOK
<1> QED
  BY <1>3, <1>4, <1>5, <1>7, <1>8, <1>9 DEF IInv, Shows

-----------------------------------------------------------------------------
(* The theorems.                                                            *)

LEMMA InitHolds == ASSUME KnowledgeAssumption, Init PROVE IInv
<1>1. \A o \in Operations : o \in AllJobs /\ rows[o] = [status |-> "none", fence |-> 0, live |-> FALSE]
  BY DEF Init, AllJobs, KnowledgeAssumption
<1>2. Typed
  <2>1. rows \in [AllJobs -> RowT]
    BY DEF Init, RowT, Statuses, Ends
  <2>2. \A w \in Workers : hand[w] = Idle /\ DOMAIN hand[w] = Fields
    BY IdleReads DEF Init
  <2>3. after \in [Operations -> SUBSET Operations]
    BY DEF Init
  <2> QED
    BY <2>1, <2>2, <2>3 DEF Init, Typed, KnowledgeAssumption
<1>3. RowsOK
  BY DEF Init, RowsOK
<1>4. RememberedOK
  <2>1. \A of \in 0 .. MaxFacts : OneReading(Reading(1, of)) /\ Reading(1, of) # {}
    <3>1. \A of \in 0 .. MaxFacts : [at |-> 0, by |-> 1, of |-> of] \in Reading(1, of)
      BY DEF Reading, KnowledgeAssumption
    <3>2. \A of \in 0 .. MaxFacts : OneReading(Reading(1, of))
      BY DEF OneReading, KnowledgeAssumption
    <3> QED
      BY <3>1, <3>2
  <2>2. \A c \in ready : Refresh(c) \in AllJobs /\ rows[Refresh(c)].status = "completed"
    BY DEF Init, AllJobs, KnowledgeAssumption
  <2> QED
    BY <2>1, <2>2 DEF Init, RememberedOK, Ends, KnowledgeAssumption
<1>5. PacksOK /\ BoundOK /\ ContextsOK
  BY <1>1 DEF Init, PacksOK, BoundOK, ContextsOK, NoContext, AsRead, Published
<1>6. HandsOK
  BY IdleReads DEF Init, HandsOK
<1>7. Shows
  <2>1. \A p : Acted(p) = {}
    BY <1>1 DEF Acted
  <2> QED
    BY <2>1 DEF Init, Shows, OneKind, BoundLast, ShownLast, AppliedOK
<1> QED
  BY <1>2, <1>3, <1>4, <1>5, <1>6, <1>7 DEF IInv, Stores

LEMMA NextKeeps == ASSUME KnowledgeAssumption, IInv, [Next]_vars PROVE IInv'
<1>1. CASE UNCHANGED vars
  <2>1. Quiet
    BY <1>1 DEF vars, Quiet, RowsMoved, NoneDone, IInv, Typed, RowsOK
  <2> QED
    BY <1>1, <2>1, IdleKept DEF vars, IInv, Typed, Shows, AppliedOK
<1>2. ASSUME NEW j \in Creations \cup Operations, Submit(j) \/ AskCancel(j) PROVE IInv'
  BY <1>2, SubmitStep, StoreSteps
<1>3. ASSUME NEW c \in Creations, Schedule(c) PROVE IInv'
  BY <1>3, StoreSteps
<1>4. ASSUME NEW o \in Operations, Project(o) PROVE IInv'
  BY <1>4, ProjectStep
<1>5. ASSUME NEW j \in AllJobs, Expire(j) PROVE IInv'
  BY <1>5, StoreSteps
<1>6. ASSUME NEW w \in Workers, \E j \in AllJobs : Claim(w, j) PROVE IInv'
  BY <1>6, ClaimStep
<1>7. ASSUME NEW w \in Workers, Leave(w) \/ Cancelled(w) \/ Fail(w) \/ Retry(w) \/ Create(w)
      PROVE IInv'
  BY <1>7, LeaveStep, StopSteps
<1>8. ASSUME NEW w \in Workers, \E c \in Creations : ReadVersion(w, c) \/ CommitMemory(w, c)
      PROVE IInv'
  BY <1>8, ReadVersionStep, CommitMemoryStep
<1>9. ASSUME NEW w \in Workers, \/ CheckRequired(w) \/ RecallFacts(w) \/ RecallSummaries(w)
                                \/ RecallPacks(w) \/ SavePlan(w)
      PROVE IInv'
  BY <1>9, CheckRequiredStep, RecallFactsStep, RecallSummariesStep, RecallPacksStep, SavePlanStep
<1>10. ASSUME NEW w \in Workers, Stage(w) \/ \E o \in Operations : CommitOperation(w, o)
       PROVE IInv'
  BY <1>10, StageStep, CommitOperationStep
<1> QED
  BY <1>1, <1>2, <1>3, <1>4, <1>5, <1>6, <1>7, <1>8, <1>9, <1>10 DEF Next

THEOREM Remembering == ASSUME KnowledgeAssumption PROVE Spec => []IInv
<1>1. Init => IInv
  BY InitHolds
<1>2. IInv /\ [Next]_vars => IInv'
  BY NextKeeps
<1> QED
  BY <1>1, <1>2, PTL DEF Spec

\* What is remembered, frozen in a pack, or was told to a creation is of each version
\* as one claim of its memory job read it; a version in a pack, and what a creation
\* required, is there as a whole unless a LIMIT is full.
THEOREM MemoriesAsRead == ASSUME KnowledgeAssumption PROVE Spec => []RememberedAsRead
<1>1. IInv => RememberedAsRead
  BY DEF IInv, Stores, RememberedOK, PacksOK, ContextsOK, FactsHad, SummariesHad, Published,
         RememberedAsRead
<1> QED
  BY <1>1, Remembering, PTL

\* An operation takes effect exactly if its job completes, and can when it is to.
THEOREM EffectsWithCompletion == ASSUME KnowledgeAssumption PROVE Spec => []EffectWithCompletion
<1>1. IInv => EffectWithCompletion
  BY DEF IInv, Stores, PacksOK, Shows, OneKind, HandsOK, Read, At, EffectWithCompletion
<1> QED
  BY <1>1, Remembering, PTL

\* Control shows what the Runtime has of a binding whose operations were asked for
\* in turn, each after the end of the one before was shown.
THEOREM ShownAsBound == ASSUME KnowledgeAssumption PROVE Spec => []ShownInOrder
<1>1. IInv => ShownInOrder
  <2> SUFFICES ASSUME IInv, NEW p \in Pairs, Acted(p) \subseteq applied,
                      \A a, b \in Acted(p) : a = b \/ a \in after[b] \/ b \in after[a]
               PROVE  p \in shown <=> p \in bound
    BY DEF ShownInOrder
  <2>1. Acted(p) \cap applied = Acted(p)
    OBVIOUS
  <2>2. CASE Acted(p) = {}
    BY <2>1, <2>2 DEF IInv, Shows, BoundLast, ShownLast
  <2>3. CASE Acted(p) # {}
    <3>1. PICK m \in Acted(p) : Decides(m, Acted(p), p \in bound)
      BY <2>3 DEF IInv, Shows, BoundLast
    <3>2. PICK n \in Acted(p) : Decides(n, Acted(p), p \in shown)
      BY <2>1, <2>3 DEF IInv, Shows, ShownLast
    <3>3. m = n
      BY <3>1, <3>2 DEF Decides
    <3> QED
      BY <3>1, <3>2, <3>3 DEF Decides
  <2> QED
    BY <2>2, <2>3
<1> QED
  BY <1>1, Remembering, PTL
=============================================================================
