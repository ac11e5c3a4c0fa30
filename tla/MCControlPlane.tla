--------------------------- MODULE MCControlPlane ---------------------------
(* A small instance of ControlPlane for TLC.  Each behaviour exercises one    *)
(* part, the catalogue once for each kind of item; the others stay as they    *)
(* began.  The productions are MCProduction's.                               *)
EXTENDS MCProduction, ControlPlane, Sequences

CONSTANTS p1, p2, prompt, n1, skill, pack, policy

VARIABLES part

MCNodeOf == prompt :> n1

\* What the catalogue's editors may touch in a part, and how often.
Touches(x) ==
  CASE x = "skills" -> [items |-> {skill}, profiles |-> {p1}, versions |-> 3]
    [] x = "packs" -> [items |-> {prompt, pack}, profiles |-> {p1}, versions |-> 2]
    [] x = "routing" -> [items |-> {policy}, profiles |-> {p1, p2}, versions |-> 2]
Within(t) ==
  /\ \A i \in Catalogue!Items : Len(versions'[i]) =< IF i \in t.items THEN t.versions ELSE 0
  /\ \A p \in Profiles :
       IF p \in t.profiles THEN profile'[p].version =< t.versions ELSE profile'[p] = profile[p]
  /\ Len(routes') =< t.versions
  /\ \A e \in Editors : edit'[e] # edit[e] =>
       CASE edit'[e].op = "routes" ->
              /\ edit'[e].left \subseteq t.profiles
              /\ edit[e].op = "none" => Len(routes) < t.versions
         [] edit'[e].op = "edit" -> Len(versions[edit'[e].item]) < t.versions
         [] OTHER -> TRUE

PartInit ==
  part \in {"skills", "packs", "routing", "productions", "members", "exports"} /\ ControlInit
PartNext ==
  /\ part' = part
  /\ \/ /\ part \in {"skills", "packs", "routing"}
        /\ Catalogue!Next /\ Within(Touches(part))
        /\ UNCHANGED <<vars, memberVars, exportVars>>
     \/ part = "productions" /\ Next /\ UNCHANGED <<catalogueVars, memberVars, exportVars>>
     \/ part = "members" /\ Members!Next /\ UNCHANGED <<catalogueVars, vars, exportVars>>
     \/ part = "exports" /\ Exporting!Next /\ UNCHANGED <<catalogueVars, vars, memberVars>>
PartSpec == PartInit /\ [][PartNext]_<<part, controlVars>>
=============================================================================
