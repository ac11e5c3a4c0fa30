----------------------------- MODULE Governance -----------------------------
(***************************************************************************)
(* The catalogue of one workspace: modules/governance of the Control plane. *)
(*                                                                         *)
(* Skills, prompts, prompt packs and creation policies are items whose      *)
(* versions are rows that are only ever added; publishing and disabling add *)
(* a version too.  Model routes are numbered versions that name profiles;   *)
(* a workflow is bound to one pack and one policy, or uses the platform's.  *)
(* A submission freezes what is current in three transactions of its own    *)
(* and resolves what it froze later, while editors go on.                   *)
(***************************************************************************)
EXTENDS Naturals, Sequences, FiniteSets

CONSTANTS
  Editors, Jobs, Profiles,
  Skills, Prompts, Packs, Policies,   \* the items of each kind
  Nodes, NodeOf,                      \* the nodes of the workflow; of a prompt
  NoVersion,                          \* no workspace binding: the platform's
  MaxVersions                         \* bound: versions of an item or a profile, of the routes

Items == Skills \cup Prompts \cup Packs \cup Policies
Version == Items \X (1 .. MaxVersions)
Statuses == {"draft", "published", "disabled"}
Kinds == {"pack", "policy"}

VARIABLES
  versions,   \* of each item, in order: [status, expected, entries]
  profile,    \* governance_model_profiles: [version, deleted]
  routes,     \* governance_model_routes: what each version names, as <<profile, version>>
  bound,      \* the workspace's binding of the workflow, per kind
  edit,       \* what each editor's transaction does
  snapshot    \* what each job's submission has frozen

vars == <<versions, profile, routes, bound, edit, snapshot>>

NoEdit == [op |-> "none"]
NoSnapshot == [phase |-> "routes", targets |-> {}, refs |-> {}]

TypeOK ==
  /\ \A i \in Items : \A n \in DOMAIN versions[i] :
       /\ versions[i][n].status \in Statuses
       /\ versions[i][n].entries \subseteq Prompts \X (1 .. MaxVersions)
  /\ profile \in [Profiles -> [version : 1 .. MaxVersions, deleted : BOOLEAN]]
  /\ \A n \in DOMAIN routes : routes[n] \subseteq Profiles \X (1 .. MaxVersions)
  /\ bound \in [Kinds -> Version \cup {NoVersion}]
  /\ \A e \in Editors : edit[e].op \in {"none", "edit", "routes", "bind"}
  /\ \A j \in Jobs : snapshot[j].phase \in {"routes", "pack", "policy", "frozen"}

Init ==
  /\ versions = [i \in Items |-> <<>>]
  /\ profile = [p \in Profiles |-> [version |-> 1, deleted |-> FALSE]]
  /\ routes = <<>>
  /\ bound = [k \in Kinds |-> NoVersion]
  /\ edit = [e \in Editors |-> NoEdit]
  /\ snapshot = [j \in Jobs |-> NoSnapshot]

Leave(e) == edit' = [edit EXCEPT ![e] = NoEdit]

-----------------------------------------------------------------------------
(* Items and their versions.                                               *)

Current(i) == Len(versions[i])
Published(v) == v[2] \in DOMAIN versions[v[1]] /\ versions[v[1]][v[2]].status = "published"
Entries(v) == versions[v[1]][v[2]].entries

\* validatePromptPack: published prompts, one per node, and to publish it the
\* nodes of the whole workflow.
Complete(E) == {NodeOf[v[1]] : v \in E} = Nodes
ValidPack(E, status) ==
  /\ E # {}
  /\ \A v \in E : Published(v)
  /\ \A v, u \in E : NodeOf[v[1]] = NodeOf[u[1]] => v = u
  /\ status = "published" => Complete(E)
EntriesOf(i, status) ==
  IF i \in Packs
  THEN {E \in SUBSET {v \in Prompts \X (1 .. MaxVersions) : Published(v)} : ValidPack(E, status)}
  ELSE {{}}

InPlace(i, v) ==                       \* mutant: disabling updates the current row
  IF v.status = "disabled" THEN [versions[i] EXCEPT ![Current(i)].status = "disabled"]
                           ELSE Append(versions[i], v)
Inserted(i, v) == Append(versions[i], v)

\* POST of a new item or of a clone, with its version 1.
CreateItem(i) ==
  /\ versions[i] = <<>>
  /\ \E E \in EntriesOf(i, "draft") :
       versions' = [versions EXCEPT ![i] = <<[status |-> "draft", expected |-> 0, entries |-> E]>>]
  /\ UNCHANGED <<profile, routes, bound, edit, snapshot>>

\* An edit reads the current version without a lock; the request names the
\* version its user has seen, or none.
BeginEdit(e, i) ==
  /\ edit[e].op = "none"
  /\ Current(i) \in 1 .. MaxVersions - 1
  /\ \E x \in 0 .. Current(i) :
       edit' = [edit EXCEPT ![e] = [op |-> "edit", item |-> i, seen |-> Current(i), expected |-> x]]
  /\ UNCHANGED <<versions, profile, routes, bound, snapshot>>

ExpectedAsSeen(e) == edit[e].expected \in {0, edit[e].seen}    \* mutant: compared before the lock
\* Then the row is locked, the version read again if it has changed, and only
\* then compared with the one expected.
AsExpected(e) == edit[e].expected \in {0, Current(edit[e].item)}
CommitEdit(e) ==
  /\ edit[e].op = "edit"
  /\ LET i == edit[e].item
     IN IF AsExpected(e) /\ Current(i) < MaxVersions
        THEN \E status \in Statuses : \E E \in EntriesOf(i, status) :
               versions' = [versions EXCEPT ![i] =
                 Inserted(i, [status |-> status, expected |-> edit[e].expected, entries |-> E])]
        ELSE versions' = versions
  /\ Leave(e)
  /\ UNCHANGED <<profile, routes, bound, snapshot>>

-----------------------------------------------------------------------------
(* Profiles and routes.                                                    *)

\* Nobody holds the row of p for a routing that is not yet committed.
Free(p) == \A e \in Editors : edit[e].op = "routes" => p \notin {t[1] : t \in edit[e].frozen}
Uses(n, p) == \E t \in routes[n] : t[1] = p

WriteProfile(p) ==
  /\ Free(p) /\ ~profile[p].deleted /\ profile[p].version < MaxVersions
  /\ profile' = [profile EXCEPT ![p].version = @ + 1]
  /\ UNCHANGED <<versions, routes, bound, edit, snapshot>>

DeleteProfile(p) ==
  /\ Free(p) /\ ~profile[p].deleted
  /\ routes # <<>> => ~Uses(Len(routes), p)
  /\ profile' = [profile EXCEPT ![p].deleted = TRUE]
  /\ UNCHANGED <<versions, routes, bound, edit, snapshot>>

\* PUT of the routes: each target, fallbacks included, is looked up and its
\* profile locked; then the workspace is locked and the version added.
BeginRoutes(e) ==
  /\ edit[e].op = "none" /\ Len(routes) < MaxVersions
  /\ \E T \in SUBSET Profiles \ {{}} :
       edit' = [edit EXCEPT ![e] = [op |-> "routes", left |-> T, frozen |-> {}]]
  /\ UNCHANGED <<versions, profile, routes, bound, snapshot>>
FreezeTarget(e) ==
  /\ edit[e].op = "routes"
  /\ \E p \in edit[e].left :
       IF profile[p].deleted THEN Leave(e)
       ELSE edit' = [edit EXCEPT ![e].left = @ \ {p},
                                 ![e].frozen = @ \cup {<<p, profile[p].version>>}]
  /\ UNCHANGED <<versions, profile, routes, bound, snapshot>>

\* Who holds the row of the workspace.
WorkspaceFree == \A e \in Editors : edit[e].op # "bind"
CommitRoutes(e) ==
  /\ edit[e].op = "routes" /\ edit[e].left = {}
  /\ WorkspaceFree
  /\ routes' = IF Len(routes) < MaxVersions THEN Append(routes, edit[e].frozen) ELSE routes
  /\ Leave(e)
  /\ UNCHANGED <<versions, profile, bound, snapshot>>

-----------------------------------------------------------------------------
(* The bindings of the workflow.                                           *)

\* validatePackForWorkflow, creationPolicyForWorkflow.
Bindable(v) ==
  /\ Published(v)
  /\ v[1] \in Packs => Complete(Entries(v)) /\ \A u \in Entries(v) : Published(u)
ExistsOnly(v) == TRUE                  \* mutant: the bound version is not validated
Validated(v) == Bindable(v)
KindOf(v) == IF v[1] \in Packs THEN "pack" ELSE "policy"

\* Under the lock of the workspace the version is validated and the binding
\* compared with the one the request expects, which is as it is bound or the
\* request is refused; writing it is a statement of its own.
BeginBind(e) ==
  /\ edit[e].op = "none" /\ WorkspaceFree
  /\ \E v \in {u \in (Packs \cup Policies) \X (1 .. MaxVersions) : u[2] \in DOMAIN versions[u[1]]} :
       /\ Validated(v)
       /\ edit' = [edit EXCEPT ![e] = [op |-> "bind", version |-> v]]
  /\ UNCHANGED <<versions, profile, routes, bound, snapshot>>
CommitBind(e) ==
  /\ edit[e].op = "bind"
  /\ bound' = [bound EXCEPT ![KindOf(edit[e].version)] = edit[e].version]
  /\ Leave(e)
  /\ UNCHANGED <<versions, profile, routes, snapshot>>

\* The override of a pack is deleted without the lock of the workspace.
MayUnbind(k) == k = "policy" => WorkspaceFree
Unbind(k) ==
  /\ bound[k] # NoVersion
  /\ MayUnbind(k)
  /\ bound' = [bound EXCEPT ![k] = NoVersion]
  /\ UNCHANGED <<versions, profile, routes, edit, snapshot>>

-----------------------------------------------------------------------------
(* Freezing for a job, and resolving.                                      *)

Froze(j, phase, targets, refs) ==
  /\ snapshot' = [snapshot EXCEPT ![j] =
       [phase |-> phase, targets |-> @.targets \cup targets, refs |-> @.refs \cup refs]]
  /\ UNCHANGED <<versions, profile, routes, bound, edit>>

\* The latest routes and every skill whose current version is published.
FreezeRoutes(j) ==
  /\ snapshot[j].phase = "routes" /\ routes # <<>>
  /\ Froze(j, "pack", routes[Len(routes)],
           {v \in Skills \X (1 .. MaxVersions) : v[2] = Current(v[1]) /\ Published(v)})

\* A binding that is the platform's adds nothing of the workspace.
FreezePack(j) ==
  /\ snapshot[j].phase = "pack"
  /\ \/ bound["pack"] = NoVersion /\ Froze(j, "policy", {}, {})
     \/ /\ bound["pack"] # NoVersion /\ Bindable(bound["pack"])
        /\ Froze(j, "policy", {}, {bound["pack"]} \cup Entries(bound["pack"]))
FreezePolicy(j) ==
  /\ snapshot[j].phase = "policy"
  /\ \/ bound["policy"] = NoVersion /\ Froze(j, "frozen", {}, {})
     \/ /\ bound["policy"] # NoVersion /\ Bindable(bound["policy"])
        /\ Froze(j, "frozen", {}, {bound["policy"]})

\* ExecutionService.Resolve: by the ids of the versions, whatever is current.
Resolvable(j) ==
  /\ \A t \in snapshot[j].targets : t[2] \in 1 .. profile[t[1]].version
  /\ \A v \in snapshot[j].refs : Published(v)

Next ==
  \/ \E i \in Items : CreateItem(i) \/ \E e \in Editors : BeginEdit(e, i)
  \/ \E p \in Profiles : WriteProfile(p) \/ DeleteProfile(p)
  \/ \E e \in Editors : \/ CommitEdit(e) \/ BeginRoutes(e) \/ FreezeTarget(e) \/ CommitRoutes(e)
                        \/ BeginBind(e) \/ CommitBind(e)
  \/ \E k \in Kinds : Unbind(k)
  \/ \E j \in Jobs : FreezeRoutes(j) \/ FreezePack(j) \/ FreezePolicy(j)

Spec == Init /\ [][Next]_vars

-----------------------------------------------------------------------------
(* What must hold.                                                         *)

\* An edit made by somebody who had seen version n is version n + 1, whatever
\* was written between the read and the lock.
NoLostUpdate ==
  \A i \in Items : \A n \in DOMAIN versions[i] : versions[i][n].expected \in {0, n - 1}

\* What a job has frozen can be resolved ever after, whatever is disabled,
\* edited, unbound or deleted, and however its three reads are spread.
FrozenResolves == \A j \in Jobs : Resolvable(j)

\* What a submission would freeze can be frozen: an edit never breaks a pack or a
\* policy that is bound, and no profile is deleted that the routes in force name,
\* although a routing is put together one profile at a time.
BindingsUsable ==
  /\ \A k \in Kinds : bound[k] # NoVersion => Bindable(bound[k])
  /\ routes # <<>> => \A p \in Profiles : profile[p].deleted => ~Uses(Len(routes), p)
=============================================================================
