------------------------ MODULE MCOrchestratorLeaves ------------------------
(* An instance of OrchestratorLeaves for TLC: names, factories and callers   *)
(* are interchangeable model values.                                         *)
EXTENDS OrchestratorLeaves, TLC

Symmetric ==
    Permutations(Ids) \cup Permutations(Aliases) \cup Permutations(Factories) \cup Permutations(Callers)
=============================================================================
