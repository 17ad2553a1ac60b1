---------------------------- MODULE MciCreation ----------------------------
(***************************************************************************)
(* Creation of an MCI: CreateMciDynamic and CreateMci with the hold option *)
(* (core/infra/provisioning.go), next to status requests, whose recovery   *)
(* path may end the creation's action (GetMciStatus, manageInfo.go), and   *)
(* to clients that answer a held creation.                                 *)
(*                                                                         *)
(* A creation checks that the MCI is not there, makes its record, may wait *)
(* to be told to go on, makes the records of all VMs at once, then all VMs *)
(* at once, and clears the action of the MCI.  holdingMciMap has an entry  *)
(* per MCI name, which is all that a waiting creation and its clients      *)
(* share.  VmLifecycle has what happens within the creation of one VM.     *)
(*                                                                         *)
(* createVmObjectSafe's error is collected under errorMu by calling        *)
(* addVmError, which locks errorMu again: the goroutine never gets on, and *)
(* CreateMci waits for it for ever (the place "stuck").                    *)
(***************************************************************************)
EXTENDS StatusRules

CONSTANTS
    Creators,   \* goroutines of requests to create the MCI
    Pollers,    \* goroutines of status requests
    Vms,
    Policy,     \* PolicyOnPartialFailure
    Scope,      \* what may happen, see below
    MaxFaults   \* bound on failing calls

\* "dynamic": requests may be dynamic ones, which prepare resources first
\* "hold":    requests may have the hold option
\* "race":    requests for the same name may come at the same time
\* "object":  the creation of a VM object may fail
ASSUME CreationAssumption ==
    /\ Creators \cap Pollers = {}
    /\ Policy \in {"continue", "rollback", "refine"}
    /\ Scope \subseteq {"dynamic", "hold", "race", "object"}
    /\ MaxFaults \in Nat

VARIABLES
    mci,           \* its record: there, Status and TargetAction
    vm,            \* the records of its VMs
    made,          \* how many VMs the CSP was made to create for each
    hold,          \* the entry of holdingMciMap
    pc, at,        \* where each request is, and its goroutine for each VM
    seen, read,    \* what a status request has read
    createErrors,  \* of CreateMci
    failed,        \* VMs whose CreateVm returned an error
    outcome,       \* how a creation ended
    faults

vars == <<mci, vm, made, hold, pc, at, seen, read, createErrors, failed, outcome, faults>>
looks == <<seen, read>>
results == <<createErrors, failed>>

Procs == Creators \cup Pollers
MciStatuses == {"Creating", "Preparing", "Prepared", "Failed", "Fetched"}
Labels == {"idle", "check", "make", "prepare", "preparing", "start", "hold", "held", "continue",
           "withdraw", "objects", "vms", "complete", "status", "fetch", "final", "done"}
Places == {"out", "object", "stuck", "post", "finish", "fetch"}
Outcomes == {"none", "refused", "unprepared", "withdrawn", "rolledBack", "error", "failed", "ok"}

NoMci == [there |-> FALSE, status |-> "Creating", action |-> "None"]
NewVm == [there |-> TRUE, named |-> FALSE, status |-> "Creating", action |-> "Create"]
NoVm  == [NewVm EXCEPT !.there = FALSE]
Out    == [v \in Vms |-> "out"]
Unseen == [v \in {} |-> "Undefined"]

Init ==
    /\ mci = NoMci
    /\ vm = [v \in Vms |-> NoVm]
    /\ made = [v \in Vms |-> 0]
    /\ hold = "none"
    /\ pc = [p \in Procs |-> "idle"]
    /\ at = [p \in Procs |-> Out]
    /\ seen = [p \in Procs |-> Unseen]
    /\ read = [p \in Procs |-> NoMci]
    /\ createErrors = [c \in Creators |-> {}]
    /\ failed = [c \in Creators |-> {}]
    /\ outcome = [c \in Creators |-> "none"]
    /\ faults = 0

Listed == {v \in Vms : vm[v].there}
Fault == faults < MaxFaults /\ faults' = faults + 1
Goto(p, l) == pc' = [pc EXCEPT ![p] = l]
Place(p, V, l) == at' = [at EXCEPT ![p] = [v \in Vms |-> IF v \in V THEN l ELSE @[v]]]
End(c, o) == Goto(c, "done") /\ outcome' = [outcome EXCEPT ![c] = o]

\* UpdateMciInfo and UpdateVmInfo: "If no key, no update".
UpdateMciInfo(s, a) ==
    mci' = IF mci.there THEN [mci EXCEPT !.status = s, !.action = a] ELSE mci
UpdateVmInfo(v, r) == vm' = IF vm[v].there THEN [vm EXCEPT ![v] = r] ELSE vm

\* DelMci with option=force; MciControl has its steps.
Cleanup == mci' = NoMci /\ vm' = [v \in Vms |-> NoVm]

-----------------------------------------------------------------------------
(* CreateMciDynamic, and CreateMci up to the hold.                         *)

Request(c) ==
    /\ pc[c] = "idle"
    /\ "race" \in Scope \/ \A d \in Creators : pc[d] \notin {"check", "make"}
    /\ Goto(c, "check")
    /\ UNCHANGED <<mci, vm, made, hold, at, looks, results, outcome, faults>>

\* Mutant: an MCI that exists does not keep another from being created.
CheckNothing(c) ==
    /\ pc[c] = "check"
    /\ Goto(c, "make")
    /\ UNCHANGED <<mci, vm, made, hold, at, looks, results, outcome, faults>>

CheckMci(c) ==
    /\ pc[c] = "check"
    /\ IF mci.there THEN End(c, "refused") ELSE Goto(c, "make") /\ UNCHANGED outcome
    /\ UNCHANGED <<mci, vm, made, hold, at, looks, results, faults>>

\* CreateMci goes on with the hold, or with the VM objects.
GoOn(c) ==
    \/ Goto(c, "objects") /\ Place(c, Vms, "object")
    \/ "hold" \in Scope /\ Goto(c, "hold") /\ UNCHANGED at

CreateMciObject(c) ==
    /\ pc[c] = "make"
    /\ mci' = [there |-> TRUE, status |-> "Creating", action |-> "Create"]
    /\ GoOn(c) \/ ("dynamic" \in Scope /\ Goto(c, "prepare") /\ UNCHANGED at)
    /\ UNCHANGED <<vm, made, hold, looks, results, outcome, faults>>

Prepare(c) ==
    /\ pc[c] = "prepare"
    /\ UpdateMciInfo("Preparing", mci.action)
    /\ Goto(c, "preparing")
    /\ UNCHANGED <<vm, made, hold, at, looks, results, outcome, faults>>

\* Failed if no resources could be prepared, deleted if a request is not valid.
Prepared(c) ==
    /\ pc[c] = "preparing"
    /\ \/ /\ UpdateMciInfo("Prepared", mci.action)
          /\ Goto(c, "start")
          /\ UNCHANGED <<vm, outcome, faults>>
       \/ /\ Fault
          /\ \/ UpdateMciInfo("Failed", mci.action) /\ UNCHANGED vm
             \/ Cleanup
          /\ End(c, "unprepared")
    /\ UNCHANGED <<made, hold, at, looks, results>>

\* isReqFromDynamic: the record is reused.
Start(c) ==
    /\ pc[c] = "start"
    /\ UpdateMciInfo("Creating", "Create")
    /\ GoOn(c)
    /\ UNCHANGED <<vm, made, hold, looks, results, outcome, faults>>

-----------------------------------------------------------------------------
(* handleHoldOption, and the answers of HandleMciAction to it.  The entry  *)
(* is read, and deleted in a step of its own.                              *)

Hold(c) ==
    /\ pc[c] = "hold"
    /\ hold' = "holding"
    /\ Goto(c, "held")
    /\ UNCHANGED <<mci, vm, made, at, looks, results, outcome, faults>>

\* Mutant: a holding creation does not know of withdrawal.
HeldMissesWithdraw(c) ==
    /\ pc[c] = "held"
    /\ hold \in {"none", "continue"}
    /\ Goto(c, "continue")
    /\ UNCHANGED <<mci, vm, made, hold, at, looks, results, outcome, faults>>

\* Without an entry the creation goes on, too.
Held(c) ==
    /\ pc[c] = "held"
    /\ hold # "holding"
    /\ Goto(c, IF hold = "withdraw" THEN "withdraw" ELSE "continue")
    /\ UNCHANGED <<mci, vm, made, hold, at, looks, results, outcome, faults>>

Continue(c) ==
    /\ pc[c] = "continue"
    /\ hold' = "none"
    /\ Goto(c, "objects")
    /\ Place(c, Vms, "object")
    /\ UNCHANGED <<mci, vm, made, looks, results, outcome, faults>>

Withdraw(c) ==
    /\ pc[c] = "withdraw"
    /\ hold' = "none"
    /\ Cleanup
    /\ End(c, "withdrawn")
    /\ UNCHANGED <<made, at, looks, results, faults>>

\* Any MCI may be answered, whether it is holding or not.  Answers while no creation
\* is about to hold are left out: the next Hold overwrites them unread.
Answer(a) ==
    /\ "hold" \in Scope
    /\ mci.there
    /\ \E c \in Creators : pc[c] \in {"hold", "held", "continue", "withdraw"}
    /\ hold' = a
    /\ UNCHANGED <<mci, vm, made, pc, at, looks, results, outcome, faults>>

-----------------------------------------------------------------------------
(* CreateMci: the VM objects, then the VMs.                                *)

CreateVmObject(c, v) ==
    /\ pc[c] = "objects"
    /\ at[c][v] = "object"
    /\ \/ /\ mci.there
          /\ vm' = [vm EXCEPT ![v] = NewVm]
          /\ Place(c, {v}, "out")
          /\ UNCHANGED <<createErrors, faults>>
       \/ /\ IF mci.there THEN "object" \in Scope /\ Fault ELSE UNCHANGED faults
          /\ createErrors' = [createErrors EXCEPT ![c] = @ \cup {v}]
          /\ Place(c, {v}, "stuck")
          /\ UNCHANGED vm
    /\ UNCHANGED <<mci, made, hold, pc, looks, failed, outcome>>

\* wg.Wait, the policy, and GetVmObject for each VM.
ObjectsEnd(c) ==
    /\ pc[c] = "objects"
    /\ at[c] = Out
    /\ IF createErrors[c] # {} /\ Policy = "rollback"
       THEN Cleanup /\ End(c, "rolledBack") /\ UNCHANGED at
       ELSE IF Listed # Vms
       THEN End(c, "error") /\ UNCHANGED <<mci, vm, at>>
       ELSE Goto(c, "vms") /\ Place(c, Vms, "post") /\ UNCHANGED <<mci, vm, outcome>>
    /\ createErrors' = [createErrors EXCEPT ![c] = {}]
    /\ UNCHANGED <<made, hold, looks, failed, faults>>

Failing(c, v) == failed' = [failed EXCEPT ![c] = @ \cup {v}]

\* CreateVm up to the answer of CB-Spider and SetBastionNodes.  On most errors,
\* but not on all, the record says Failed; the VM may have been made, or not.
CreateVmPost(c, v) ==
    /\ pc[c] = "vms"
    /\ at[c][v] = "post"
    /\ \/ /\ made' = [made EXCEPT ![v] = @ + 1]
          /\ UpdateVmInfo(v, [NewVm EXCEPT !.named = TRUE])
          /\ Place(c, {v}, "finish")
          /\ UNCHANGED <<failed, faults>>
       \/ /\ Fault
          /\ \/ UNCHANGED made
             \/ made' = [made EXCEPT ![v] = @ + 1]
          /\ \/ UpdateVmInfo(v, [NewVm EXCEPT !.status = "Failed"])
             \/ made' = made /\ UNCHANGED vm
          /\ Place(c, {v}, "out")
          /\ Failing(c, v)
    /\ UNCHANGED <<mci, hold, pc, looks, createErrors, outcome>>

-----------------------------------------------------------------------------
(* FetchVmStatus, in one step: the status it returns and the record it     *)
(* leaves, for an answer n of CB-Spider.  The call for the status may fail *)
(* ("Undefined"), or, when the target is reached, the one for the address  *)
(* ("error").                                                              *)

Asked(v) == vm[v].there /\ vm[v].named /\ ~NeedNotAsk(vm[v])

Answered(v, n) ==
    \/ n = "Running" /\ UNCHANGED faults
    \/ n = "Undefined" /\ Asked(v) /\ Fault
    \/ n = "error" /\ Asked(v) /\ Reached(vm[v], "Running") /\ Fault

StatusOf(v, n) ==
    CASE ~vm[v].there     -> "Failed"
      [] vm[v].there /\ NeedNotAsk(vm[v]) -> vm[v].status
      [] Asked(v)         -> IF n = "error" THEN "Failed" ELSE Corrected(vm[v], n)
      [] OTHER            -> Corrected(vm[v], "Undefined")

RecordOf(v, n) == IF Asked(v) /\ n # "error" THEN Refreshed(vm[v], n) ELSE vm[v]

\* The rest of CreateVm: FetchVmStatus, then the record and the label.  Its own
\* record, with the action complete, is what it writes in the end.
CreateVmFinish(c, v) ==
    /\ pc[c] = "vms"
    /\ at[c][v] = "finish"
    /\ \E n \in {"Running", "Undefined", "error"}, label \in BOOLEAN :
         LET s == IF label THEN StatusOf(v, n) ELSE "Failed" IN
         /\ IF label THEN Answered(v, n) ELSE n = "Running" /\ Fault
         /\ UpdateVmInfo(v, [there |-> TRUE, named |-> TRUE, status |-> s, action |-> "None"])
         /\ IF s = "Failed" THEN Failing(c, v) ELSE UNCHANGED failed
    /\ Place(c, {v}, "out")
    /\ UNCHANGED <<mci, made, hold, pc, looks, createErrors, outcome>>

CreateVm(c, v) == CreateVmObject(c, v) \/ CreateVmPost(c, v) \/ CreateVmFinish(c, v)

\* Only if all VMs failed does CreateVmsInParallel return an error: all are Failed
\* then.  Otherwise the policy is a matter of createErrors, which is empty here.
VmsEnd(c) ==
    /\ pc[c] = "vms"
    /\ at[c] = Out
    /\ IF failed[c] = Vms
       THEN /\ vm' = [v \in Vms |-> IF vm[v].there THEN [vm[v] EXCEPT !.status = "Failed"] ELSE vm[v]]
            /\ Goto(c, "status")
       ELSE UNCHANGED vm /\ Goto(c, "complete")
    /\ UNCHANGED <<mci, made, hold, at, looks, results, outcome, faults>>

\* "Set completion status first to prevent infinite status loops".
Complete(c) ==
    /\ pc[c] = "complete"
    /\ UpdateMciInfo(mci.status, "None")
    /\ Goto(c, "status")
    /\ UNCHANGED <<vm, made, hold, at, looks, results, outcome, faults>>

-----------------------------------------------------------------------------
(* GetMciStatus, of a poller or at the end of a creation.                  *)

After(p) == IF p \in Creators THEN "final" ELSE "idle"

StatusRead(p) ==
    /\ pc[p] = IF p \in Creators THEN "status" ELSE "idle"
    /\ IF ~mci.there
       THEN p \in Creators /\ End(p, "error") /\ UNCHANGED <<at, looks>>
       ELSE /\ Listed = {} => p \in Creators
            /\ read' = [read EXCEPT ![p] = mci]
            /\ Goto(p, IF Listed = {} THEN "final" ELSE "fetch")
            /\ Place(p, Listed, "fetch")
            /\ UNCHANGED <<seen, outcome>>
    /\ UNCHANGED <<mci, vm, made, hold, results, faults>>

Seen(s, v, status) == [w \in DOMAIN s \cup {v} |-> IF w = v THEN status ELSE s[w]]

StatusFetch(p, v) ==
    /\ pc[p] = "fetch"
    /\ at[p][v] = "fetch"
    /\ \E n \in {"Running", "Undefined", "error"} :
         /\ Answered(v, n)
         /\ vm' = [vm EXCEPT ![v] = RecordOf(v, n)]
         /\ seen' = [seen EXCEPT ![p] = Seen(@, v, StatusOf(v, n))]
    /\ Place(p, {v}, "out")
    /\ UNCHANGED <<mci, made, hold, pc, read, results, outcome>>

\* The recovery path writes the record that was read before the VMs were fetched.
StatusEnd(p) ==
    /\ pc[p] = "fetch"
    /\ at[p] = Out
    /\ LET a == read[p].action
           lost == a = "Create" /\ \A v \in DOMAIN seen[p] : seen[p][v] \in {"Failed", "Terminated"} IN
       IF a # "None" /\ Done(a, seen[p])
       THEN UpdateMciInfo(IF lost THEN "Failed" ELSE read[p].status, "None")
       ELSE UNCHANGED mci
    /\ Goto(p, After(p))
    /\ seen' = [seen EXCEPT ![p] = Unseen]
    /\ read' = [read EXCEPT ![p] = NoMci]
    /\ UNCHANGED <<vm, made, hold, at, results, outcome, faults>>

\* Mutant: if all VMs failed, only the status is set.
FinalStatusOnly(c) ==
    /\ pc[c] = "final"
    /\ IF failed[c] = Vms
       THEN UpdateMciInfo("Failed", "Create") /\ End(c, "failed")
       ELSE UpdateMciInfo("Fetched", "None") /\ End(c, "ok")
    /\ UNCHANGED <<vm, made, hold, at, looks, results, faults>>

\* The last write of CreateMci.
Final(c) ==
    /\ pc[c] = "final"
    /\ IF failed[c] = Vms
       THEN UpdateMciInfo("Failed", "None") /\ End(c, "failed")
       ELSE UpdateMciInfo("Fetched", "None") /\ End(c, "ok")
    /\ UNCHANGED <<vm, made, hold, at, looks, results, faults>>

-----------------------------------------------------------------------------
CreateMci(c) ==
    \/ CheckMci(c) \/ CreateMciObject(c) \/ Prepare(c) \/ Prepared(c) \/ Start(c)
    \/ Hold(c) \/ Held(c) \/ Continue(c) \/ Withdraw(c)
    \/ ObjectsEnd(c) \/ VmsEnd(c) \/ Complete(c) \/ Final(c)

GetMciStatus(p) == StatusRead(p) \/ (\E v \in Vms : StatusFetch(p, v)) \/ StatusEnd(p)

Next ==
    \/ \E c \in Creators : Request(c) \/ CreateMci(c) \/ \E v \in Vms : CreateVm(c, v)
    \/ \E a \in {"continue", "withdraw"} : Answer(a)
    \/ \E p \in Procs : GetMciStatus(p)

Spec == Init /\ [][Next]_vars

\* Goroutines of requests run, calls to the CSP return (ExecuteHttpRequest has a
\* timeout), and whoever asked for a hold answers it some time.
Fairness ==
    /\ \A c \in Creators :
         /\ WF_vars(CreateMci(c) \/ GetMciStatus(c))
         /\ \A v \in Vms : WF_vars(CreateVm(c, v))
    /\ WF_vars(\E a \in {"continue", "withdraw"} : Answer(a))

FairSpec == Spec /\ Fairness

-----------------------------------------------------------------------------
(* Properties. *)

MciRecord == [there : BOOLEAN, status : MciStatuses, action : {"None", "Create"}]
VmRecord == [there : BOOLEAN, named : BOOLEAN, status : Statuses, action : {"None", "Create"}]

\* Every variable keeps its type; in particular the status of a VM is one of the
\* statuses, and no target status, when its creation is over.
TypeOK ==
    /\ mci \in MciRecord
    /\ vm \in [Vms -> VmRecord]
    /\ made \in [Vms -> Nat]
    /\ hold \in {"none", "holding", "continue", "withdraw"}
    /\ pc \in [Procs -> Labels]
    /\ at \in [Procs -> [Vms -> Places]]
    /\ seen \in [Procs -> UNION {[V -> Statuses] : V \in SUBSET Vms}]
    /\ read \in [Procs -> MciRecord]
    /\ createErrors \in [Creators -> SUBSET Vms]
    /\ failed \in [Creators -> SUBSET Vms]
    /\ outcome \in [Creators -> Outcomes]
    /\ faults \in 0..MaxFaults

\* However often the MCI is asked for, held, withdrawn and asked for again, the CSP
\* is made to create each of its VMs once (CreateMci: "MCI already exists").
NoDuplicateVm == \A v \in Vms : made[v] <= 1

\* CreateMci: "ensure completion status is set regardless of VM failures".  An MCI
\* whose creation returned is not under the action Create, whichever status requests
\* wrote its record meanwhile: they would take it for one still being created.
NoEndlessCreate ==
    (mci.there /\ \E c \in Creators : outcome[c] \in {"ok", "failed"})
        => mci.action # "Create"

\* The recovery path of a status request does not declare a creation over while a VM
\* it looked at has not even been answered for by CB-Spider.
RecoveryWaits ==
    [][\A p \in Pollers :
         pc[p] = "fetch" /\ pc'[p] = "idle" /\ mci.action = "Create" /\ mci'.action = "None"
            => \A c \in Creators, v \in DOMAIN seen[p] : at[c][v] # "post"]_vars

\* A creation that was begun ends, held or not, whatever fails on the way.
CreationEnds == \A c \in Creators : pc[c] = "check" ~> pc[c] = "done"

\* PolicyOnPartialFailure, "rollback": "Cleanup entire MCI when any VM fails".
RollbackOnFailure ==
    (Policy = "rollback" /\ \E c \in Creators : failed[c] \cup createErrors[c] # {})
        ~> ~mci.there
=============================================================================
