---------------------------- MODULE ControlPlane ----------------------------
(***************************************************************************)
(* The Control plane's other parts side by side: a production (this module's *)
(* own state), the catalogue of governance (Catalogue), the members of a     *)
(* workspace (Members) and the exports of its projects (Exporting).  Their    *)
(* handlers share no row, so a step is a step of one of them, and what each   *)
(* promises holds whatever the others do.                                    *)
(***************************************************************************)
EXTENDS Production

CONSTANTS
  Editors, Jobs, Profiles, Skills, Prompts, Packs, Policies, Nodes, NodeOf,
  NoVersion, MaxVersions,                          \* of Governance
  Users, Founder, Tokens, Calls, NoUser,           \* of Identity
  Exports, Tasks, RenderSlots, MaxFaults, MaxSlow  \* of Transfer

ASSUME FounderAssumption == Founder \in Users

VARIABLES versions, profile, routes, bound, edit, snapshot

Catalogue == INSTANCE Governance

VARIABLES member, session, spent, request

Members == INSTANCE Identity WITH Requests <- Calls, user <- member

VARIABLES export, task, faults, slow

Exporting == INSTANCE Transfer WITH Slots <- RenderSlots

-----------------------------------------------------------------------------
catalogueVars == <<versions, profile, routes, bound, edit, snapshot>>
memberVars == <<member, session, spent, request>>
exportVars == <<export, task, faults, slow>>
controlVars == <<vars, catalogueVars, memberVars, exportVars>>

ControlInit == Init /\ Catalogue!Init /\ Members!Init /\ Exporting!Init
ControlNext ==
  \/ Next /\ UNCHANGED <<catalogueVars, memberVars, exportVars>>
  \/ Catalogue!Next /\ UNCHANGED <<vars, memberVars, exportVars>>
  \/ Members!Next /\ UNCHANGED <<vars, catalogueVars, exportVars>>
  \/ Exporting!Next /\ UNCHANGED <<vars, catalogueVars, memberVars>>
ControlSpec == ControlInit /\ [][ControlNext]_controlVars

-----------------------------------------------------------------------------
(* What the parts promise, each in its own words.                          *)

\* An edit of somebody who had seen version n is version n + 1 (Governance).
NoLostUpdate == Catalogue!NoLostUpdate
\* What a job has frozen can be resolved ever after (Governance).
FrozenResolves == Catalogue!FrozenResolves
\* What a submission would freeze can be frozen (Governance).
BindingsUsable == Catalogue!BindingsUsable
\* What was frozen resolves, and so does what would be.
Resolved == FrozenResolves /\ BindingsUsable
\* Who changes the members is an owner then, and one is left (Identity).
OwnersRule == Members!OwnersRule
\* An export ends as the last of its claims says (Transfer).
LastClaimEnds == Exporting!LastClaimEnds
=============================================================================
