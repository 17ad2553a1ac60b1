-------------------------- MODULE MCRemoteCommand --------------------------
(* Instances of RemoteCommand for TLC: r1 is for two VMs, r2 for one of them.  *)
(* On v1 an earlier call left its second record; its first was deleted.        *)
EXTENDS RemoteCommand

CONSTANTS r1, r2, v1, v2

MCTargetsOf == [r \in Requests |-> IF r = r1 THEN {v1, v2} ELSE {v1}]
MCIdOf == [r \in Requests |-> IF r = r2 THEN Internal ELSE r]
MCPastOf == [v \in Vms |-> IF v = v1 THEN {[index |-> 2, req |-> None, status |-> "Completed"]}
                                     ELSE {}]
MCNameOf == [v \in Vms |-> v]
=============================================================================
