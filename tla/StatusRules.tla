---------------------------- MODULE StatusRules ----------------------------
(***************************************************************************)
(* Statuses and actions of VMs (core/model/mci.go), and the rules that     *)
(* relate them: what an action sets, which status FetchVmStatus makes of   *)
(* what the CSP reports, when an action is over, and what is allowed in a  *)
(* status.  No state: VmLifecycle, MciControl and MciCreation use it.      *)
(***************************************************************************)
EXTENDS Naturals, FiniteSets

Stable       == {"Running", "Suspended", "Terminated", "Failed", "Undefined"}
Transitional == {"Creating", "Suspending", "Resuming", "Rebooting", "Terminating"}
Statuses     == Stable \cup Transitional
Controls     == {"Suspend", "Resume", "Reboot", "Terminate"}
Actions      == Controls \cup {"Create", "None"}     \* ActionComplete is "None"

\* TargetStatus and TargetAction are always set together.
TargetOf(a) == CASE a = "Terminate" -> "Terminated"
                 [] a = "Suspend"   -> "Suspended"
                 [] a = "None"      -> "None"
                 [] OTHER           -> "Running"

During(a) == CASE a = "Terminate" -> "Terminating"
               [] a = "Suspend"   -> "Suspending"
               [] a = "Resume"    -> "Resuming"
               [] a = "Reboot"    -> "Rebooting"
               [] OTHER           -> "Creating"

\* Mutant: the action is not recorded, only the status.
IntentStatusOnly(r, a) == [r EXCEPT !.status = During(a)]

Intent(r, a) == [r EXCEPT !.status = During(a), !.action = a]

-----------------------------------------------------------------------------
(* FetchVmStatus.  A record has the fields named (CspResourceName is not   *)
(* empty), status and action.                                              *)

\* The record is returned as it is, and the CSP is not asked.
NeedNotAsk(r) ==
    \/ r.status \in {"Terminated", "Failed", "Suspended"} /\ r.action = "None"
    \/ ~r.named /\ r.action # "Create"

\* Statuses that are taken for the one the action goes through.
OnTheWay(a) == CASE a = "Create"  -> {"Undefined"}
                 [] a = "Resume"  -> {"Undefined", "Creating", "Suspended"}
                 [] a = "Suspend" -> {"Undefined", "Running", "Resuming"}
                 [] a = "Reboot"  -> {"Undefined", "Suspending", "Suspended", "Creating", "Resuming"}
                 [] a = "Terminate" -> {"Suspending"}
                 [] OTHER -> {}

\* Mutant: an unknown status is taken for Terminated whatever the action.
CorrectedCarelessly(r, s) ==
    IF r.status = "Terminated" \/ s = "Undefined" THEN "Terminated"
    ELSE IF s \in OnTheWay(r.action) THEN During(r.action) ELSE s

\* Mutant: a VM that is still terminating is taken for terminated.
CorrectedEarly(r, s) ==
    IF r.status = "Terminated" \/ (r.action = "Terminate" /\ s \in {"Undefined", "Terminating"})
    THEN "Terminated"
    ELSE IF s \in OnTheWay(r.action) THEN During(r.action) ELSE s

\* The status the record gets, from the record's action and the native status.
Corrected(r, s) ==
    IF r.status = "Terminated" \/ (r.action = "Terminate" /\ s = "Undefined")
    THEN "Terminated"
    ELSE IF r.action = "Create" /\ r.status = "Failed" THEN "Failed"
    ELSE IF s \in OnTheWay(r.action) THEN During(r.action)
    ELSE s

Reached(r, s) == Corrected(r, s) = TargetOf(r.action)

\* Mutant: the status is copied from TargetStatus after that was cleared.
RefreshedLate(r, s) ==
    IF Reached(r, s) /\ r.action # "Terminate"
    THEN [r EXCEPT !.status = TargetOf("None"), !.action = "None"]
    ELSE [r EXCEPT !.status = Corrected(r, s)]

\* Mutant: the action is not reset when its target is reached.
RefreshedOngoing(r, s) == [r EXCEPT !.status = Corrected(r, s)]

\* The record after the status is applied; a reached target ends the action,
\* except that Terminate stays for good.
Refreshed(r, s) ==
    IF Reached(r, s) /\ r.action # "Terminate"
    THEN [r EXCEPT !.status = Corrected(r, s), !.action = "None"]
    ELSE [r EXCEPT !.status = Corrected(r, s)]

-----------------------------------------------------------------------------
\* CheckAllowedTransition, for a VM.
Allowed(s, a) ==
    /\ s = TargetOf(a) => a = "Reboot"
    /\ s # "Terminated"
    /\ s \notin Transitional
    /\ s = "Suspended" => a \in {"Resume", "Terminate"}

\* What a CSP carries out.
Accepts(s, a) == CASE a = "Terminate" -> s \notin {"Absent", "Gone"}
                   [] a = "Resume"    -> s = "Suspended"
                   [] OTHER           -> s = "Running"

-----------------------------------------------------------------------------
(* GetMciStatus.  "seen" maps the VMs of the MCI to their statuses.        *)

\* The order in which ties are decided.
Ranked == <<"Failed", "Suspended", "Running", "Terminated", "Creating", "Suspending",
            "Resuming", "Rebooting", "Terminating", "Undefined">>

Count(seen, s) == Cardinality({v \in DOMAIN seen : seen[v] = s})

\* The status the MCI is named after, if it has VMs.
Dominant(seen) ==
    Ranked[CHOOSE i \in 1..10 : \A j \in 1..10 :
             /\ Count(seen, Ranked[j]) <= Count(seen, Ranked[i])
             /\ j < i => Count(seen, Ranked[j]) < Count(seen, Ranked[i])]

\* Not "Partial-".
Whole(seen) == \A v, w \in DOMAIN seen : seen[v] = seen[w]

\* Mutant: a VM that left the status it started from does not count.
PendingAtStart(a) ==
    CASE a = "Create"    -> {"Creating", "Undefined"}
      [] a = "Resume"    -> {"Suspended"}
      [] OTHER           -> {"Running"}

\* Statuses in which a VM keeps the action of its MCI from being over.
Pending(a) ==
    CASE a = "Create"    -> {"Creating", "Undefined"}
      [] a = "Terminate" -> Statuses \ {"Terminated", "Failed", "Undefined"}
      [] a = "Suspend"   -> Statuses \ {"Suspended", "Failed", "Terminated", "Undefined"}
      [] OTHER           -> Statuses \ {"Running", "Failed", "Terminated", "Undefined"}

Done(a, seen) == \A v \in DOMAIN seen : seen[v] \notin Pending(a)
=============================================================================
