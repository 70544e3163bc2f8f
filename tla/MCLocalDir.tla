----------------------------- MODULE MCLocalDir -----------------------------
(***************************************************************************)
(* Instances of LocalDir for TLC.                                          *)
(***************************************************************************)
EXTENDS LocalDir, TLC

(* Callers are interchangeable, and so are inodes.                         *)
Symmetric == Permutations(Callers) \cup Permutations(Inodes)

=============================================================================
