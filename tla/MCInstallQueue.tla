---------------------------- MODULE MCInstallQueue ----------------------------
(* Instances of InstallQueue for TLC.  Workers, deletes and workspaces are    *)
(* model values; no symmetry, since the runs check liveness.                  *)
EXTENDS InstallQueue
=============================================================================
