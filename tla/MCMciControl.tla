--------------------------- MODULE MCMciControl ---------------------------
(* Instances of MciControl for TLC. *)
EXTENDS MciControl, TLC

AnyOrder == Permutations(Vms) \cup Permutations(Clients)
=============================================================================
