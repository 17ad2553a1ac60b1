--------------------------- MODULE MCOrchestration ---------------------------
(* Instances of Orchestration for TLC: the first policy adds VMs when two      *)
(* measurements are high on average, the second removes one when one is low.   *)
EXTENDS Orchestration

MCConditionOf == <<[operator |-> ">=", operand |-> 2, period |-> 2],
                   [operator |-> "<", operand |-> 1, period |-> 1]>>
MCActionOf == <<"ScaleOut", "ScaleIn">>
=============================================================================
