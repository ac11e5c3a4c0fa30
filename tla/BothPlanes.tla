----------------------------- MODULE BothPlanes -----------------------------
(***************************************************************************)
(* What Control and the Runtime keep together: the protocol of the jobs     *)
(* (JobProtocol's own state) and what projects remember and share           *)
(* (Memories), where jobs of the Runtime write and Control shows bindings   *)
(* it is told of.  Memory and knowledge jobs have rows of their own in the   *)
(* store, so a step is a step of one of the two.                            *)
(***************************************************************************)
EXTENDS JobProtocol

CONSTANTS
  Readers, Creations, Operations, OwnerOf, RequiredOf, OperationOf, Remembered,
  FactLimit, SummaryLimit, PackLimit,
  MaxFacts, MaxTries, MaxCancels, MaxReclaims               \* of Knowledge

VARIABLES rows, hand, memory, ready, requests, packs, bound, contexts, applied, shown, after

Memories == INSTANCE KnowledgeProofs WITH
  Workers <- Readers, HomeOf <- OwnerOf, MaxAttempts <- MaxTries

ASSUME MemoryAssumption == Memories!KnowledgeAssumption

memoryVars ==
  <<rows, hand, memory, ready, requests, packs, bound, contexts, applied, shown, after>>
bothVars == <<vars, memoryVars>>

BothInit == Init /\ Memories!Init
BothNext ==
  \/ Next /\ UNCHANGED memoryVars
  \/ Memories!Next /\ UNCHANGED vars
BothSpec == BothInit /\ [][BothNext]_bothVars

-----------------------------------------------------------------------------
(* What the memories promise, in Knowledge's words.                        *)

\* What is remembered, frozen in a pack or told to a creation is of each version as
\* one claim of its memory job read it (_commit_memory), and lacks only what was
\* beyond the LIMIT of the query (_local, creation_context).
RememberedAsRead == Memories!RememberedAsRead
\* An operation takes effect exactly if its job completes, and can when it is
\* staged and its lease is good (_finish_knowledge_operation).
EffectWithCompletion == Memories!EffectWithCompletion
\* Control shows what the Runtime has of a binding whose operations were asked
\* for in turn (ProjectOperationEvent).
ShownInOrder == Memories!ShownInOrder
=============================================================================
