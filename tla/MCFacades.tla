---------------------------- MODULE MCFacades ----------------------------
(* Instances of Facades for TLC. *)
EXTENDS Facades

MCFd == 3..8
=============================================================================
