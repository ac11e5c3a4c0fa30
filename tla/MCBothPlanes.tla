---------------------------- MODULE MCBothPlanes ----------------------------
(* A small instance for TLC: two jobs of one project that write the same      *)
(* document, what projects remember and share, or an operator's tools.  Each   *)
(* behaviour exercises one of them; the others stay as they began.           *)
EXTENDS MCJobProtocol, BothPlanes, Installation, TLC

CONSTANTS
  r1, r2, c1, c2, c3, c4, pr1, pr2, publish, bind, unbind,
  o1, o2, k1, k2,                    \* operators and objects
  t1, t2, t3, v1, v2, v3,            \* tools and releases
  i1, i2, b1, b2, m1, m2               \* importers and exports; contents, names and nodes

VARIABLES part

\* One project creates c1, and c2 that requires its memory, perhaps beside c4, which
\* it remembers, and borrows what another, which remembers c3, publishes.
MCOwnerOf == [j \in Creations \cup Operations |-> IF j \in {c3, publish} THEN pr2 ELSE pr1]
MCRequiredOf == [c \in Creations |-> IF c = c2 THEN {c1} ELSE {}]
Pack(kind) == [kind |-> kind, pack |-> publish]
MCOperationOf ==
  publish :> Pack("publish") @@ bind :> Pack("bind") @@ unbind :> Pack("unbind")

\* Which of it a part takes up, how often a lease is lost in it, and how many
\* processes are at work together.
Takes(p) ==
  CASE p = "recall" -> [jobs |-> {c1, c2}, fence |-> MaxTries, losses |-> 2, busy |-> 2]
    [] p = "crowd" -> [jobs |-> {c1, c2}, fence |-> 2, losses |-> 1, busy |-> 1]
    [] p = "share" -> [jobs |-> {publish, bind, unbind}, fence |-> 2, losses |-> 1, busy |-> 2]
    [] p = "lend" -> [jobs |-> {c1, publish, bind}, fence |-> 2, losses |-> 1, busy |-> 1]
Within(t) ==
  /\ \A j \in Memories!AllJobs : rows'[j] # rows[j] =>
       /\ j \in t.jobs \cup {Memories!Refresh(c) : c \in t.jobs}
       /\ rows'[j].fence =< t.fence
  /\ Cardinality({j \in Memories!AllJobs : rows'[j].fence > 1} \cup Memories!Abandoned') =< t.losses
  /\ Cardinality({w \in Readers : hand'[w] # Memories!Idle}) =< t.busy

\* Two archives that share a key; v2 adds migrations and a text to v1, and v3 has
\* altered both; one novel is in both exports; one profile's key is sealed.
MCObjectsOf == b1 :> (k1 :> m1 @@ k2 :> m2) @@ b2 :> (k1 :> m2)
MCReleaseOf == t1 :> v1 @@ t2 :> v2 @@ t3 :> v3
Change(name, text) == [name |-> name, text |-> text]
MCMigrationsOf ==
  v1 :> [control |-> <<Change(1, m1), Change(2, m1)>>, runtime |-> <<Change(1, m1)>>] @@
  v2 :> [control |-> <<Change(1, m1), Change(2, m1), Change(3, m1)>>, runtime |-> <<Change(1, m1), Change(2, m1)>>] @@
  v3 :> [control |-> <<Change(1, m1), Change(2, m2), Change(3, m2)>>, runtime |-> <<Change(1, m1)>>]
MCNodesOf == k1 :> {m1, m2} @@ k2 :> {m2}
MCTextsOf == [v \in Releases |-> m1 :> (IF v = v2 THEN 2 ELSE 1) @@ m2 :> 1]
MCContractOf == [v \in Releases |-> m1 :> 1 @@ m2 :> (IF v = v3 THEN 2 ELSE 1)]
MCPolicyOf == [v \in Releases |-> k1 :> (IF v = v2 THEN 2 ELSE 1) @@ k2 :> 1]
MCNovelsOf == b1 :> {m1, m2} @@ b2 :> {m1}
MCProfileOf == k1 :> m1 @@ k2 :> m2

ToolStep(tools) ==
  CASE tools = "restore" -> Restoring!Next /\ UNCHANGED <<deployVars, importVars>>
    [] tools = "install" -> Deploying!Preparing /\ UNCHANGED <<restoreVars, importVars>>
    [] tools = "keys" -> Deploying!Upgrading /\ UNCHANGED <<restoreVars, importVars>>
    [] tools = "import" -> Importing!Next /\ UNCHANGED <<restoreVars, deployVars>>

partVars == <<part, bothVars, toolVars>>
PartInit ==
  /\ BothInit /\ ToolInit
  /\ part \in {"protocol", "recall", "crowd", "share", "lend", "restore", "install", "keys", "import"}
  /\ ready = {c3} \cup (IF part = "crowd" THEN {c4} ELSE {})
  /\ part # "lend" => memory[c3] = Memories!Reading(1, 0)
  /\ part # "restore" => \A k \in Keys : bucket[k] = None
  /\ part # "keys" => \A d \in Deploying!Databases : secret[d] = None
PartNext ==
  /\ part' = part
  /\ \/ part = "protocol" /\ Next /\ UNCHANGED <<memoryVars, toolVars>>
     \/ /\ part \in {"recall", "crowd", "share", "lend"}
        /\ Memories!Next /\ Within(Takes(part)) /\ UNCHANGED <<vars, toolVars>>
     \/ /\ part \in {"restore", "install", "keys", "import"}
        /\ ToolStep(part) /\ UNCHANGED bothVars
PartSpec == PartInit /\ [][PartNext]_partVars

\* Processes that remember are interchangeable.
Swap == Permutations({r1, r2})
=============================================================================
