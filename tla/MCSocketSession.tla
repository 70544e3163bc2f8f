--------------------------- MODULE MCSocketSession ---------------------------
(* Instances of SocketSession for TLC: the bounds are in the .cfg files.     *)
EXTENDS SocketSession
=============================================================================
