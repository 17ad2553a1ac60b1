---------------------------- MODULE MCScheduler ----------------------------
(* Instances of Scheduler for TLC: every job asks for the same configuration. *)
EXTENDS Scheduler

CONSTANT c1
MCConfigOf == [j \in Jobs |-> c1]
=============================================================================
