---------------------------- MODULE Installation ----------------------------
(***************************************************************************)
(* The tools an operator runs around the services (tools/): archives and     *)
(* their restore, the preparation of an installation, and the import of what *)
(* the earlier program kept.  Each works on databases of its own here: they   *)
(* are run while the services are stopped, and one kind at a time.          *)
(***************************************************************************)
CONSTANTS
  Operators, Archives, Keys, ObjectsOf, MaxRestores,                \* of Restore
  Tools, External, Releases, ReleaseOf, MigrationsOf, Workflows, NodesOf,
  TextsOf, ContractOf, PolicyOf, Secrets, MaxInstalls,              \* of Deployment
  Importers, Bundles, Novels, NovelsOf, Kinds, Purposes, ProfileOf, Sealed,
  MaxImports,                                                       \* of LegacyImport
  None

VARIABLES
  written, target, bucket, restore, restores,
  made, schema, ledger, contract, prompts, promptPacks, policies, binding, served,
  tool, started, secret, found, upgrade,
  project, history, record, states, profiles, routes, archived, import, imports, reported

Restoring == INSTANCE Restore WITH Nothing <- None, MaxRuns <- MaxRestores
Deploying == INSTANCE Deployment WITH MaxRuns <- MaxInstalls
Importing == INSTANCE LegacyImport WITH Records <- Kinds, MaxRuns <- MaxImports

ASSUME ToolAssumption ==
  /\ Restoring!RestoreAssumption
  /\ Deploying!DeploymentAssumption
  /\ Importing!ImportAssumption

restoreVars == <<written, target, bucket, restore, restores>>
deployVars ==
  <<made, schema, ledger, contract, prompts, promptPacks, policies, binding, served, tool,
    started, secret, found, upgrade>>
importVars ==
  <<project, history, record, states, profiles, routes, archived, import, imports, reported>>
toolVars == <<restoreVars, deployVars, importVars>>

ToolInit == Restoring!Init /\ Deploying!Init /\ Importing!Init
ToolNext ==
  \/ Restoring!Next /\ UNCHANGED <<deployVars, importVars>>
  \/ Deploying!Next /\ UNCHANGED <<restoreVars, importVars>>
  \/ Importing!Next /\ UNCHANGED <<restoreVars, deployVars>>
ToolSpec == ToolInit /\ [][ToolNext]_toolVars

-----------------------------------------------------------------------------
\* A restore that is done, or noted as complete, is of one archive and whole (restore).
TargetWhole == Restoring!TargetWhole
\* Databases, prompts and keys are as the releases make them (apply_database, seed,
\* upgrade).
Deployed == Deploying!Deployed
\* What an import reports is all of one export, in both databases (import_bundle).
ImportWhole == Importing!ImportWhole
=============================================================================
