--------------------------- MODULE MCControlLive ---------------------------
(* The loops of the Control plane that must get their work done: a behaviour  *)
(* is a production, MCProduction's own, or the exports.                       *)
EXTENDS MCProduction

CONSTANTS x1, x2, g1, g2

VARIABLES part, export, task, faults, slow

\* Two exports and two goroutines for one slot.
Exporting == INSTANCE Transfer WITH
  Exports <- {x1, x2}, Tasks <- {g1, g2}, Slots <- 1, MaxFaults <- 1, MaxSlow <- 1

exportVars == <<export, task, faults, slow>>

LoopsInit == part \in {"production", "exports"} /\ Init /\ Exporting!Init
LoopsNext ==
  /\ part' = part
  /\ \/ part = "production" /\ Next /\ UNCHANGED exportVars
     \/ part = "exports" /\ Exporting!Next /\ UNCHANGED vars

\* The fairness of the part that stays as it began asks for nothing: none of
\* its actions can be taken there.
LoopsSpec ==
  LoopsInit /\ [][LoopsNext]_<<part, vars, exportVars>> /\ Fairness /\ Exporting!Fairness

ExportEnds == Exporting!ExportEnds
=============================================================================
