--------------------------- MODULE MCVmLifecycle ---------------------------
(* Instances of VmLifecycle for TLC: what the environment does in each. *)
EXTENDS VmLifecycle

MCBusy == {"create", "force", "delete", "cache", "overlap"}
MCCalm == {"create", "delete"}
=============================================================================
