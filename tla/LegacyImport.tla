---------------------------- MODULE LegacyImport ----------------------------
(***************************************************************************)
(* Taking over the data of the program before the platform: an export of it *)
(* (platform_legacy_export) is imported into the two databases               *)
(* (platform_legacy_import and the modules it calls).                       *)
(*                                                                         *)
(* Ids are made of the old ones and every row is inserted only if it is not  *)
(* there, so an import that stopped is run again.  A project is written in   *)
(* many transactions: one in Control, then one in the Runtime that stays     *)
(* open while its records and its history are committed in Control.          *)
(***************************************************************************)
EXTENDS Naturals, FiniteSets

CONSTANTS
  Importers,         \* runs of the tool at one time
  Bundles,           \* exports: what is imported is known by its hash
  Novels, NovelsOf,  \* the projects there are, and those of an export
  Records,           \* the rows of a project that both databases keep
  Purposes, ProfileOf,           \* model_routes: the profile each purpose uses
  Sealed,            \* profiles with an API key, which only the old and the new
                     \* encryption key let through
  None,
  MaxRuns            \* bound: runs started

Profiles == {ProfileOf[p] : p \in Purposes}

ImportAssumption ==
  /\ None \notin Bundles
  /\ \A b \in Bundles : NovelsOf[b] \subseteq Novels
  /\ Sealed \subseteq Profiles

VARIABLES
  project, history,  \* Control's rows of a project: the export they are from
  record,            \* and of each of its records
  states,            \* the Runtime's rows of a project: its state, its records, its
                     \* checkpoints and its memory
  profiles, routes,  \* the model profiles imported; the purposes routed, or none yet
  archived,          \* the exports in legacy_import_rows
  import, imports,
  reported           \* what imports have reported: the export, and whether with the keys

rows == <<project, history, record, states>>
vars == <<rows, profiles, routes, archived, import, imports, reported>>

Idle == [at |-> "idle"]

TypeOK ==
  /\ project \in [Novels -> Bundles \cup {None}] /\ history \in [Novels -> Bundles \cup {None}]
  /\ states \in [Novels -> Bundles \cup {None}]
  /\ record \in [Novels -> [Records -> Bundles \cup {None}]]
  /\ profiles \subseteq Profiles
  /\ routes = None \/ routes \subseteq Purposes
  /\ archived \subseteq Bundles
  /\ \A i \in Importers :
       import[i].at \in {"idle", "check", "accounts", "project", "open", "records",
                         "commit", "archive", "verify"}
  /\ reported \subseteq Bundles \X BOOLEAN
  /\ imports \in 0 .. MaxRuns

Init ==
  /\ project = [n \in Novels |-> None] /\ history = project /\ states = project
  /\ record = [n \in Novels |-> [r \in Records |-> None]]
  /\ profiles = {} /\ routes = None /\ archived = {}
  /\ import = [i \in Importers |-> Idle] /\ imports = 0
  /\ reported = {}

Kept(there, b) == IF there = None THEN b ELSE there     \* ON CONFLICT DO NOTHING
Goes(i, at) == import' = [import EXCEPT ![i].at = at]
Novel(i) == import[i].novel

-----------------------------------------------------------------------------
\* One export is imported at a time, as often as it takes.
StartImport(i) ==
  /\ import[i] = Idle /\ imports < MaxRuns
  /\ \E b \in Bundles, keys \in BOOLEAN :
       /\ \A j \in Importers : import[j] # Idle => import[j].bundle = b
       /\ import' = [import EXCEPT ![i] = [at |-> "check", bundle |-> b, keys |-> keys,
                                           left |-> NovelsOf[b], novel |-> None]]
  /\ imports' = imports + 1
  /\ UNCHANGED <<rows, profiles, routes, archived, reported>>

\* The tool is interrupted or fails; its open transaction is rolled back.
StopImport(i) ==
  /\ import[i] # Idle
  /\ import' = [import EXCEPT ![i] = Idle]
  /\ UNCHANGED <<rows, profiles, routes, archived, imports, reported>>

AnyTarget(b) == TRUE                       \* mutant: a project of another export is not noticed
\* No project of the export is there from another one, or made by a user.
FreeTarget(b) == \A n \in NovelsOf[b] : project[n] \in {None, b}
CheckTarget(i) ==
  /\ import[i].at = "check" /\ FreeTarget(import[i].bundle)
  /\ Goes(i, "accounts")
  /\ UNCHANGED <<rows, profiles, routes, archived, imports, reported>>

\* Workspaces, users, resources, and the profiles whose keys can be encrypted
\* again; the routes are one row, inserted if anything can be routed.
Usable(i) == {f \in Profiles : f \in Sealed => import[i].keys}
Routed(i) == {p \in Purposes : ProfileOf[p] \in Usable(i)}
ImportAccounts(i) ==
  /\ import[i].at = "accounts"
  /\ profiles' = profiles \cup Usable(i)
  /\ routes' = IF routes = None /\ Routed(i) # {} THEN Routed(i) ELSE routes
  /\ Goes(i, "project")
  /\ UNCHANGED <<rows, archived, imports, reported>>

\* The next project: its row with the hash of the export, its documents, briefs
\* and the manuscript as version 1.
ImportProject(i) ==
  /\ import[i].at = "project"
  /\ IF import[i].left = {} THEN Goes(i, "archive") /\ UNCHANGED project
     ELSE \E n \in import[i].left :
            /\ project' = [project EXCEPT ![n] = Kept(@, import[i].bundle)]
            /\ import' = [import EXCEPT ![i].at = "open", ![i].novel = n, ![i].left = @ \ {n}]
  /\ UNCHANGED <<history, record, states, profiles, routes, archived, imports, reported>>

\* The Runtime's transaction begins with a completed job and the state: whoever
\* else is at this project waits for it to end.
OpenRuntime(i) ==
  /\ import[i].at = "open"
  /\ \A j \in Importers \ {i} :
       import[j] # Idle => ~ (Novel(j) = Novel(i) /\ import[j].at \in {"records", "commit"})
  /\ Goes(i, "records")
  /\ UNCHANGED <<rows, profiles, routes, archived, imports, reported>>

\* A record is inserted there and committed in Control.
ImportRecord(i, r) ==
  /\ import[i].at = "records" /\ record[Novel(i)][r] = None
  /\ record' = [record EXCEPT ![Novel(i)][r] = import[i].bundle]
  /\ UNCHANGED <<project, history, states, profiles, routes, archived, import, imports, reported>>
\* Checkpoints and memory are inserted there too; Control's history of jobs, events
\* and usage is committed.
ImportHistory(i) ==
  /\ import[i].at = "records" /\ \A r \in Records : record[Novel(i)][r] # None
  /\ history' = [history EXCEPT ![Novel(i)] = Kept(@, import[i].bundle)]
  /\ Goes(i, "commit")
  /\ UNCHANGED <<project, record, states, profiles, routes, archived, imports, reported>>
CommitRuntime(i) ==
  /\ import[i].at = "commit"
  /\ states' = [states EXCEPT ![Novel(i)] = Kept(@, import[i].bundle)]
  /\ Goes(i, "project")
  /\ UNCHANGED <<project, history, record, profiles, routes, archived, imports, reported>>

\* The rows of the export as they were, and a last look at whose the projects are.
ArchiveRows(i) ==
  /\ import[i].at = "archive"
  /\ archived' = archived \cup {import[i].bundle}
  /\ Goes(i, "verify")
  /\ UNCHANGED <<rows, profiles, routes, imports, reported>>
VerifyImport(i) ==
  /\ import[i].at = "verify"
  /\ \A n \in NovelsOf[import[i].bundle] : project[n] = import[i].bundle
  /\ reported' = reported \cup {<<import[i].bundle, import[i].keys>>}
  /\ import' = [import EXCEPT ![i] = Idle]
  /\ UNCHANGED <<rows, profiles, routes, archived, imports>>

Next ==
  \E i \in Importers :
    \/ StartImport(i) \/ StopImport(i) \/ CheckTarget(i) \/ ImportAccounts(i)
    \/ ImportProject(i) \/ OpenRuntime(i) \/ \E r \in Records : ImportRecord(i, r)
    \/ ImportHistory(i) \/ CommitRuntime(i) \/ ArchiveRows(i) \/ VerifyImport(i)
Spec == Init /\ [][Next]_vars

-----------------------------------------------------------------------------
\* Every project of an export that is reported imported is, in both databases,
\* that export's and nothing else's.
ImportWhole ==
  \A b \in {x[1] : x \in reported} :
    /\ b \in archived
    /\ \A n \in NovelsOf[b] :
         /\ project[n] = b /\ history[n] = b /\ states[n] = b
         /\ \A r \in Records : record[n][r] = b
\* What an import with the keys reports can be used: every purpose is routed.
RoutesActivated == (\E x \in reported : x[2]) => routes = Purposes
=============================================================================
