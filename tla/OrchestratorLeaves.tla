------------------------- MODULE OrchestratorLeaves -------------------------
(***************************************************************************)
(* The leaf packages of the orchestrator that exist so far, side by side:  *)
(* the registry and the id generator.  They share nothing, and a step of   *)
(* one leaves the other alone.                                             *)
(***************************************************************************)
EXTENDS AgentRegistry, IdGen

LeavesInit == Init /\ IdInit

LeavesNext == (Next /\ UNCHANGED idVars) \/ (IdNext /\ UNCHANGED vars)

LeavesSpec == LeavesInit /\ [][LeavesNext]_<<vars, idVars>>
=============================================================================
