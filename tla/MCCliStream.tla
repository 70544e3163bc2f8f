---------------------------- MODULE MCCliStream ----------------------------
(* Instances of CliStream for TLC: the bounds are in the .cfg files.         *)
EXTENDS CliStream
=============================================================================
