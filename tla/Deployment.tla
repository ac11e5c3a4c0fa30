----------------------------- MODULE Deployment -----------------------------
(***************************************************************************)
(* Preparing an installation (tools/): platform_migrate and                 *)
(* platform_external_prepare, with the bootstrap and the two seeds they run, *)
(* and platform_config_upgrade.                                             *)
(*                                                                         *)
(* Runs of several releases work on the same databases, together or one      *)
(* after the other, and may stop anywhere: a migration is a transaction      *)
(* under an advisory lock that also enters it in the ledger, a seed is one    *)
(* transaction, and everything else looks before it acts.                    *)
(***************************************************************************)
EXTENDS Naturals, Sequences, SequencesExt

CONSTANTS
  Tools,             \* runs of platform_migrate or,
  External,          \* these, of platform_external_prepare
  Releases, ReleaseOf,
  MigrationsOf,      \* of a release, for each database: [name, text] in order (migrations)
  Workflows, NodesOf,            \* WORKFLOWS: the nodes each of them prompts
  TextsOf,           \* of a release: the text of each node's prompt
  ContractOf,        \* of a release: the variables and output of each node
  PolicyOf,          \* of a release: the text of each workflow's policy
  Secrets,           \* execution encryption keys
  None,
  MaxRuns            \* bound: runs started

Databases == {"control", "runtime"}
Objects == <<"control role", "runtime role", "control", "runtime">>
Nodes == UNION {NodesOf[w] : w \in Workflows}

\* A later release adds migrations after those of an earlier one; no name comes
\* twice (tests/maintenance/test_migrate.py pins the list).
DeploymentAssumption ==
  /\ Releases # {} /\ None \notin Secrets
  /\ \A t \in Tools : ReleaseOf[t] \in Releases
  /\ \A r \in Releases : \A d \in Databases :
       LET list == MigrationsOf[r][d]
       IN /\ list \in Seq(ToSet(list))
          /\ \A i, j \in DOMAIN list : list[i].name = list[j].name => i = j
          /\ \A s \in Releases : \A i \in DOMAIN list \cap DOMAIN MigrationsOf[s][d] :
               list[i].name = MigrationsOf[s][d][i].name

VARIABLES
  made,              \* the roles and databases there are
  schema, ledger,    \* of each database: the migrations run, in order; platform_migrations
  contract,          \* prompt_node_contracts
  prompts, promptPacks, policies,    \* published versions: texts of a node's prompt,
                     \* entries of a workflow's pack, texts of its policy
  binding,           \* the versions of its pack and its policy a workflow is bound to
  served,            \* history: the releases whose prompts and policies were seeded last
  tool, started,
  secret, found,     \* the key in each service's env file; history: as it was at first
  upgrade            \* what platform_config_upgrade is about to write

seeded == <<contract, prompts, promptPacks, policies, binding, served>>
files == <<secret, found, upgrade>>
vars == <<made, schema, ledger, seeded, tool, started, files>>

Ended == [at |-> "ended"]

TypeOK ==
  /\ made \subseteq {Objects[i] : i \in 1 .. 4}
  /\ DOMAIN schema = Databases /\ DOMAIN ledger = Databases
  /\ DOMAIN contract = Nodes /\ DOMAIN prompts = Nodes
  /\ DOMAIN promptPacks = Workflows /\ DOMAIN policies = Workflows
  /\ binding \in [Workflows -> [pack : Nat, policy : Nat]]
  /\ served \in [prompts : Releases \cup {None}, policies : Releases \cup {None}]
  /\ \A t \in Tools : tool[t].at \in {"ended", "look", "make", "stage"}
  /\ secret \in [Databases -> Secrets \cup {None}] /\ found \in [Databases -> Secrets \cup {None}]
  /\ upgrade.at \in {"ended", "write"}
  /\ started \in 0 .. MaxRuns

Init ==
  /\ made = {}
  /\ schema = [d \in Databases |-> <<>>] /\ ledger = [d \in Databases |-> {}]
  /\ contract = [n \in Nodes |-> None] /\ prompts = [n \in Nodes |-> <<>>]
  /\ promptPacks = [w \in Workflows |-> <<>>] /\ policies = [w \in Workflows |-> <<>>]
  /\ binding = [w \in Workflows |-> [pack |-> 0, policy |-> 0]]
  /\ served = [prompts |-> None, policies |-> None]
  /\ tool = [t \in Tools |-> Ended] /\ started = 0
  /\ secret \in [Databases -> Secrets \cup {None}] /\ found = secret
  /\ upgrade = Ended

Goes(t, to) == tool' = [tool EXCEPT ![t] = to]

-----------------------------------------------------------------------------
(* The runs and their stages.                                              *)

Stages(t) ==
  IF t \in External THEN <<"control", "prompts", "policies", "runtime">>
                    ELSE <<"control", "runtime", "prompts", "policies">>
Stage(k) == [at |-> "stage", k |-> k, i |-> 1]
On(t, stage) == tool[t].at = "stage" /\ Stages(t)[tool[t].k] = stage
Done(t) == IF tool[t].k = 4 THEN Ended ELSE Stage(tool[t].k + 1)
\* platform_external_prepare turns to the Runtime's database even so.
Failed(t) == IF t \in External /\ tool[t].k < 4 THEN Stage(4) ELSE Ended

StartTool(t) ==
  /\ tool[t] = Ended /\ started < MaxRuns
  /\ Goes(t, IF t \in External THEN Stage(1) ELSE [at |-> "look", i |-> 1])
  /\ started' = started + 1
  /\ UNCHANGED <<made, schema, ledger, seeded, files>>

\* It is interrupted, or a statement fails and its transaction with it.
FailTool(t) ==
  /\ tool[t] # Ended
  /\ \/ Goes(t, Ended)
     \/ tool[t].at = "stage" /\ Goes(t, Failed(t))
  /\ UNCHANGED <<made, schema, ledger, started, seeded, files>>

\* platform_bootstrap: each role and database is looked up, and made if missing;
\* CREATE fails if somebody else has made it since.
LookFor(t) ==
  /\ tool[t].at = "look"
  /\ Goes(t, IF tool[t].i > 4 THEN Stage(1)
             ELSE IF Objects[tool[t].i] \in made THEN [tool[t] EXCEPT !.i = @ + 1]
             ELSE [tool[t] EXCEPT !.at = "make"])
  /\ UNCHANGED <<made, schema, ledger, started, seeded, files>>
MakeObject(t) ==
  /\ tool[t].at = "make" /\ Objects[tool[t].i] \notin made
  /\ made' = made \cup {Objects[tool[t].i]}
  /\ Goes(t, [at |-> "look", i |-> tool[t].i + 1])
  /\ UNCHANGED <<schema, ledger, started, seeded, files>>

-----------------------------------------------------------------------------
(* apply_database: a transaction for each migration of the release.          *)

Entered(d, m) == \E e \in ledger[d] : e.name = m.name
Unchecked(d, m) == FALSE                          \* mutant: the checksum is not compared
Altered(d, m) == Entered(d, m) /\ m \notin ledger[d]

\* Under the lock the ledger is read: what it has is skipped, what it has with
\* another text is refused, and the rest is run and entered.
MigrateOne(t, d) ==
  LET list == MigrationsOf[ReleaseOf[t]][d]
      m == list[tool[t].i]
  IN /\ On(t, d) /\ d \in made
     /\ IF tool[t].i > Len(list) THEN Goes(t, Done(t)) /\ UNCHANGED <<schema, ledger>>
        ELSE IF Altered(d, m) THEN Goes(t, Failed(t)) /\ UNCHANGED <<schema, ledger>>
        ELSE /\ Goes(t, [tool[t] EXCEPT !.i = @ + 1])
             /\ IF Entered(d, m) THEN UNCHANGED <<schema, ledger>>
                ELSE /\ schema' = [schema EXCEPT ![d] = Append(@, m)]
                     /\ ledger' = [ledger EXCEPT ![d] = @ \cup {m}]
     /\ UNCHANGED <<made, started, seeded, files>>

-----------------------------------------------------------------------------
(* The seeds: what is published is found by its content, or added.           *)

Added(list, x) == IF Contains(list, x) THEN list ELSE Append(list, x)
Newest(list, x) == Len(list)                      \* mutant: the current version is binding
Found(list, x) == CHOOSE i \in DOMAIN list : list[i] = x

\* Every prompt, every workflow's pack of them and its binding, in one transaction
\* under the lock of the seed; a node's contract may not change.
SeedPrompts(t) ==
  LET r == ReleaseOf[t]
      published == [n \in Nodes |-> Added(prompts[n], TextsOf[r][n])]
      Entries(w) == [n \in NodesOf[w] |-> Found(published[n], TextsOf[r][n])]
      packed == [w \in Workflows |-> Added(promptPacks[w], Entries(w))]
  IN /\ On(t, "prompts") /\ schema["control"] # <<>>
     /\ \A n \in Nodes : contract[n] \in {None, ContractOf[r][n]}
     /\ contract' = ContractOf[r]
     /\ prompts' = published /\ promptPacks' = packed
     /\ binding' = [w \in Workflows |-> [binding[w] EXCEPT !.pack = Found(packed[w], Entries(w))]]
     /\ served' = [served EXCEPT !.prompts = r]
     /\ Goes(t, Done(t))
     /\ UNCHANGED <<made, schema, ledger, policies, started, files>>
SeedPolicies(t) ==
  LET r == ReleaseOf[t]
      published == [w \in Workflows |-> Added(policies[w], PolicyOf[r][w])]
  IN /\ On(t, "policies") /\ schema["control"] # <<>>
     /\ policies' = published
     /\ binding' = [w \in Workflows |-> [binding[w] EXCEPT !.policy = Found(published[w], PolicyOf[r][w])]]
     /\ served' = [served EXCEPT !.policies = r]
     /\ Goes(t, Done(t))
     /\ UNCHANGED <<made, schema, ledger, contract, prompts, promptPacks, started, files>>

-----------------------------------------------------------------------------
(* platform_config_upgrade: one env file after the other, by one operator.   *)

Disagree == None \notin {secret["control"], secret["runtime"]} /\ secret["control"] # secret["runtime"]
OwnFirst(k) == \* mutant: the Runtime's is not kept
  IF secret["control"] # None THEN secret["control"] ELSE k
\* The key of the one, or of the other, or a new one k.
KeyKept(k) ==
  IF secret["control"] # None THEN secret["control"]
  ELSE IF secret["runtime"] # None THEN secret["runtime"] ELSE k
StartUpgrade ==
  /\ upgrade = Ended /\ ~ Disagree
  /\ \E k \in Secrets : upgrade' = [at |-> "write", d |-> "control", key |-> KeyKept(k)]
  /\ UNCHANGED <<made, schema, ledger, seeded, tool, started, secret, found>>
WriteFile ==
  /\ upgrade.at = "write"
  /\ secret' = [secret EXCEPT ![upgrade.d] = upgrade.key]
  /\ upgrade' = IF upgrade.d = "control" THEN [upgrade EXCEPT !.d = "runtime"] ELSE Ended
  /\ UNCHANGED <<made, schema, ledger, seeded, tool, started, found>>
StopUpgrade ==
  upgrade # Ended /\ upgrade' = Ended
  /\ UNCHANGED <<made, schema, ledger, seeded, tool, started, secret, found>>

Preparing ==
  \E t \in Tools :
    \/ StartTool(t) \/ FailTool(t) \/ LookFor(t) \/ MakeObject(t)
    \/ \E d \in Databases : MigrateOne(t, d)
    \/ SeedPrompts(t) \/ SeedPolicies(t)
Upgrading == StartUpgrade \/ WriteFile \/ StopUpgrade
Next == Preparing \/ Upgrading
Spec == Init /\ [][Next]_vars

-----------------------------------------------------------------------------
(* What an installation can rely on.                                       *)

\* A database's schema is what one of the releases makes of an empty one, up to
\* some migration, each run once and in order, and the ledger says so.
Migrated ==
  \A d \in Databases :
    /\ \E r \in Releases : IsPrefix(schema[d], MigrationsOf[r][d])
    /\ ledger[d] = ToSet(schema[d])
\* Every workflow's platform pack gives its nodes the texts of the release whose
\* prompts were seeded last, and its platform policy is of the one whose policies
\* were, also when that is an older one.
Served ==
  /\ served.prompts # None =>
       \A w \in Workflows : \A n \in NodesOf[w] :
         prompts[n][promptPacks[w][binding[w].pack][n]] = TextsOf[served.prompts][n]
  /\ served.policies # None =>
       \A w \in Workflows : policies[w][binding[w].policy] = PolicyOf[served.policies][w]
\* A key a service has is never replaced, and the two services do not come to have
\* different ones.
SecretsKept ==
  /\ \A d \in Databases : found[d] # None => secret[d] = found[d]
  /\ Disagree => None \notin {found["control"], found["runtime"]}
\* All of it: whatever releases are installed, together or one after the other, and
\* wherever their runs stop (apply_database, seed, upgrade).
Deployed == Migrated /\ Served /\ SecretsKept
=============================================================================
