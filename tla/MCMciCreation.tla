-------------------------- MODULE MCMciCreation --------------------------
(* Instances of MciCreation for TLC. *)
EXTENDS MciCreation
=============================================================================
