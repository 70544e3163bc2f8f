------------------------ MODULE MCWorkspaceLifecycle ------------------------
(***************************************************************************)
(* Instances of WorkspaceLifecycle for TLC.                                *)
(***************************************************************************)
EXTENDS WorkspaceLifecycle, TLC

CONSTANTS plain, padded   \* two spellings of a directory option

(* Every spelling is a path of its own, for the manager and for localdir.  *)
Distinct == [d \in DirOptions |-> d]

(* A padded spelling names the same directory once localdir trims it.      *)
Trimmed == [d \in DirOptions |-> IF d = padded THEN plain ELSE d]

(* Ids, aliases, workers and callers are interchangeable as long as all or *)
(* none of the callers list.                                               *)
Symmetric ==
  Permutations(WorkspaceIds) \cup Permutations(AliasKeys) \cup Permutations(Workers)
    \cup Permutations(Deleters)

=============================================================================
