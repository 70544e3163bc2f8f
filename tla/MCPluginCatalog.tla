--------------------------- MODULE MCPluginCatalog ---------------------------
(***************************************************************************)
(* Instances of PluginCatalog for TLC.                                     *)
(***************************************************************************)
EXTENDS PluginCatalog, TLC

(* Uploads, removals and names are interchangeable.                        *)
Symmetric == Permutations(Uploads) \cup Permutations(Removals) \cup Permutations(PluginNames)

=============================================================================
