------------------------------ MODULE MCNetworks ------------------------------
(* Instances of Networks for TLC.  Nothing tells clients, subnets, names or VMs *)
(* apart, so each set is symmetric.                                             *)
EXTENDS Networks, TLC

Symmetry == Permutations(Clients) \cup Permutations(Subnets) \cup Permutations(Uids)
=============================================================================
