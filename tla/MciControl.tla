----------------------------- MODULE MciControl -----------------------------
(***************************************************************************)
(* Requests on one MCI: control of all its VMs (HandleMciAction and        *)
(* ControlMciAsync, core/infra/control.go), control of one of them         *)
(* (HandleMciVmAction), status requests, refining and deletion             *)
(* (GetMciStatus, DelMci and DelMciVm, core/infra/manageInfo.go).  Each is *)
(* a goroutine of its own; nothing locks an MCI.                           *)
(*                                                                         *)
(* The MCI's record says which action is under way.  ControlMciAsync       *)
(* writes it before and clears it after, GetMciStatus clears it as a       *)
(* safety net when all VMs look as if they had got there, and the refusal  *)
(* of other actions rests on it.                                           *)
(*                                                                         *)
(* A request is a list of stages, worked off in order; an error ends it.   *)
(* FetchVmStatus and the recording of an action are one step for one VM    *)
(* here, VmLifecycle has their interleavings.  The semaphores of           *)
(* ControlVmsInParallel only narrow the orders in which VMs are served;    *)
(* any order is allowed here.  Counts of VMs by status are not kept.       *)
(***************************************************************************)
EXTENDS Sequences, StatusRules

CONSTANTS
    Clients,      \* goroutines that serve requests
    Vms,
    Kinds,        \* what clients ask for
    Wanted,       \* actions they ask for
    Scope,        \* how they ask, see below
    MaxRequests,  \* bound on requests
    MaxFaults     \* bound on failing calls

\* "force":   with force=true
\* "overlap": requests that refine overlap with others
ASSUME MciAssumption ==
    /\ Kinds \subseteq {"status", "control", "vm", "refine", "drop", "delete"}
    /\ Wanted \subseteq Controls
    /\ Scope \subseteq {"force", "overlap"}
    /\ IsFiniteSet(Vms)
    /\ MaxRequests \in Nat
    /\ MaxFaults \in Nat

VARIABLES
    mci,       \* its record: whether it is there, and TargetAction
    vm,        \* the records of its VMs
    csp,       \* the VMs at the CSP
    job,       \* what each client is doing
    requests,
    faults

vars == <<mci, vm, csp, job, requests, faults>>

\* Stages that are followed by others in the course of a request.
Stages == {"status", "try", "guard", "launch", "select", "run", "complete", "vmGuard",
           "runOne", "dropVm", "refine", "purge", "reread", "rewrite",
           "advance", "terminate", "check", "dropAll", "dropMci"}
Labels == Stages \cup {"idle", "fetch"}
CspStates == {"Absent", "Running", "Suspended", "Suspending", "Resuming", "Rebooting",
              "Terminating", "Gone"}

\* at: where the goroutine that deals with a VM is.
Places == {"out", "fetch", "check", "start", "call", "follow", "drop"}

Out == [v \in Vms |-> "out"]
Unseen == [v \in {} |-> "Undefined"]
Idle == [pc |-> "idle", rest |-> <<>>, kind |-> "none", act |-> "None", opt |-> "none", target |-> {},
         read |-> "None", at |-> Out, seen |-> Unseen]

VmRecord == [there : BOOLEAN, named : BOOLEAN, status : Statuses, action : Actions]
Vm(s) == [there |-> TRUE, named |-> s # "Failed", status |-> s,
          action |-> IF s = "Failed" THEN "Create" ELSE "None"]

\* An MCI whose creation is over.
Init ==
    /\ mci = [there |-> TRUE, action |-> "None"]
    /\ csp \in [Vms -> {"Running", "Suspended", "Absent"}]
    /\ vm = [v \in Vms |-> Vm(IF csp[v] = "Absent" THEN "Failed" ELSE csp[v])]
    /\ job = [c \in Clients |-> Idle]
    /\ requests = 0
    /\ faults = 0

Listed == {v \in Vms : vm[v].there}
Fault == faults < MaxFaults /\ faults' = faults + 1
Set(c, j) == job' = [job EXCEPT ![c] = j]

\* The job after its stage.
Proceed(j) ==
    IF j.rest = <<>> THEN Idle
    ELSE [j EXCEPT !.pc = Head(j.rest), !.rest = Tail(j.rest)]

Then(j, stages) == Proceed([j EXCEPT !.rest = stages \o j.rest])

Place(j, V, p) == [j EXCEPT !.at = [v \in Vms |-> IF v \in V THEN p ELSE j.at[v]]]

\* UpdateMciInfo: "If no key, no update".
UpdateMciInfo(a) == mci' = IF mci.there THEN [mci EXCEPT !.action = a] ELSE mci

-----------------------------------------------------------------------------
(* Requests. *)

ControlPlan == <<"guard", "try", "launch", "select", "run", "complete">>

PlanOf(k, opt) ==
    CASE k = "status"  -> <<"status">>
      [] k = "control" -> ControlPlan
      [] k = "vm"      -> <<"status", "vmGuard", "runOne">>
      [] k = "refine"  -> <<"status", "refine">>
      [] k = "drop" /\ opt = "force" -> <<"dropVm">>
      [] k = "drop" /\ opt # "force" -> <<"status", "vmGuard", "runOne", "dropVm">>
      [] k = "delete"  -> <<"status", "try", "advance", "check", "dropAll", "dropMci">>

Options(k) ==
    (IF k \in {"status", "refine"} THEN {"none"}
     ELSE IF "force" \in Scope THEN {"none", "force"} ELSE {"none"})
    \cup (IF k = "delete" THEN {"terminate"} ELSE {})

ActionOf(k, a) == IF k \in {"control", "vm"} THEN a ELSE "Terminate"

\* Requests that refine read the record of the MCI, and write it back.
Refines(k, opt) == k = "refine" \/ opt = "terminate"

MayOverlap(k, opt) ==
    "overlap" \notin Scope =>
        \A d \in Clients :
            job[d].pc = "idle" \/ (~Refines(k, opt) /\ ~Refines(job[d].kind, job[d].opt))

\* A VM request names its VM.
Request(c, k, a, v, opt) ==
    /\ job[c].pc = "idle"
    /\ mci.there
    /\ requests < MaxRequests
    /\ opt \in Options(k)
    /\ MayOverlap(k, opt)
    /\ Set(c, Then([Idle EXCEPT !.kind = k, !.act = ActionOf(k, a), !.opt = opt,
                                !.target = IF k \in {"vm", "drop"} THEN {v} ELSE {}],
                   PlanOf(k, opt)))
    /\ requests' = requests + 1
    /\ UNCHANGED <<mci, vm, csp, faults>>

\* force=true; DelMci with option=terminate passes it on.
Forced(j) == j.opt \in {"force", "terminate"}

-----------------------------------------------------------------------------
(* GetMciStatus: read the MCI and list its VMs, fetch each, and clear the  *)
(* action if it looks over.  "try" is a call whose error is ignored.       *)

StatusRead(c) ==
    /\ job[c].pc \in {"status", "try"}
    /\ LET j == [job[c] EXCEPT !.read = mci.action, !.seen = Unseen] IN
       Set(c, IF ~mci.there /\ j.pc = "status" THEN Idle
              ELSE IF ~mci.there THEN Proceed([j EXCEPT !.read = "error"])
              ELSE IF Listed = {} THEN Proceed(j)
              ELSE [Place(j, Listed, "fetch") EXCEPT !.pc = "fetch"])
    /\ UNCHANGED <<mci, vm, csp, requests, faults>>

\* What CB-Spider may answer about a VM; VmLifecycle has stranger answers.
Reports(s) == IF s \in {"Gone", "Absent"} THEN {"Undefined", "Terminated"} ELSE {s}

\* FetchVmStatus returns status s.  The call to the CSP may fail, which is read as
\* Undefined, or the one for the address, which gives Failed and nothing stored.
FetchVmStatus(v, s) ==
    \/ /\ ~vm[v].there
       /\ s = "Failed"
       /\ UNCHANGED <<vm, faults>>
    \/ /\ vm[v].there
       /\ NeedNotAsk(vm[v]) \/ ~vm[v].named
       /\ s = IF NeedNotAsk(vm[v]) THEN vm[v].status ELSE Corrected(vm[v], "Undefined")
       /\ UNCHANGED <<vm, faults>>
    \/ /\ vm[v].there /\ vm[v].named /\ ~NeedNotAsk(vm[v])
       /\ \E n \in Reports(csp[v]) \cup {"Undefined"} :
            /\ IF n \in Reports(csp[v]) THEN UNCHANGED faults ELSE Fault
            /\ vm' = [vm EXCEPT ![v] = Refreshed(@, n)]
            /\ s = Corrected(vm[v], n)
    \/ /\ vm[v].there /\ vm[v].named /\ ~NeedNotAsk(vm[v])
       /\ \E n \in Reports(csp[v]) : Reached(vm[v], n) /\ vm[v].action # "Terminate"
       /\ Fault
       /\ s = "Failed"
       /\ UNCHANGED vm

Seen(seen, v, s) == [w \in DOMAIN seen \cup {v} |-> IF w = v THEN s ELSE seen[w]]

StatusFetch(c, v) ==
    /\ job[c].pc = "fetch"
    /\ job[c].at[v] = "fetch"
    /\ \E s \in Statuses :
         /\ FetchVmStatus(v, s)
         /\ Set(c, [Place(job[c], {v}, "out") EXCEPT !.seen = Seen(@, v, s)])
    /\ UNCHANGED <<mci, csp, requests>>

StatusEnd(c) ==
    /\ job[c].pc = "fetch"
    /\ job[c].at = Out
    /\ IF job[c].read # "None" /\ Done(job[c].read, job[c].seen)
       THEN UpdateMciInfo("None") /\ Set(c, Proceed([job[c] EXCEPT !.read = "None"]))
       ELSE UNCHANGED mci /\ Set(c, Proceed(job[c]))
    /\ UNCHANGED <<vm, csp, requests, faults>>

GetMciStatus(c) == StatusRead(c) \/ (\E v \in Vms : StatusFetch(c, v)) \/ StatusEnd(c)

-----------------------------------------------------------------------------
(* ControlMciAsync. *)

\* A record that is not there reads as one without an action.
ControlGuard(c) ==
    /\ job[c].pc = "guard"
    /\ Set(c, IF mci.action = "None" \/ Forced(job[c]) THEN Proceed(job[c]) ELSE Idle)
    /\ UNCHANGED <<mci, vm, csp, requests, faults>>

\* CheckAllowedTransition, for an MCI.  Its status has the form "Running:2 (R:2/2)", so
\* of the comparisons only those for statuses contained in it ever apply.
MciAllowed(j) ==
    /\ j.read # "error"
    /\ DOMAIN j.seen # {} => Dominant(j.seen) \notin Transitional

ControlLaunch(c) ==
    /\ job[c].pc = "launch"
    /\ IF (Forced(job[c]) \/ MciAllowed(job[c])) /\ Listed # {}
       THEN UpdateMciInfo(job[c].act) /\ Set(c, Place(Proceed(job[c]), Listed, "check"))
       ELSE UNCHANGED mci /\ Set(c, Idle)
    /\ UNCHANGED <<vm, csp, requests, faults>>

\* ControlVmsInParallel goes through the VMs and picks those to be controlled.
ControlSelect(c, v) ==
    /\ job[c].pc = "select"
    /\ job[c].at[v] = "check"
    /\ LET pick == vm[v].there /\ (Forced(job[c]) \/ Allowed(vm[v].status, job[c].act)) IN
       Set(c, Place(job[c], {v}, IF pick THEN "start" ELSE "out"))
    /\ UNCHANGED <<mci, vm, csp, requests, faults>>

ControlSelected(c) ==
    /\ job[c].pc = "select"
    /\ \A v \in Vms : job[c].at[v] # "check"
    /\ Set(c, Proceed(job[c]))
    /\ UNCHANGED <<mci, vm, csp, requests, faults>>

\* Mutant: the action is cleared only if no VM was left behind.
CompleteIfAll(c) ==
    /\ job[c].pc = "complete"
    /\ IF \A v \in Listed : vm[v].status \in {During(job[c].act), TargetOf(job[c].act)}
       THEN UpdateMciInfo("None") ELSE UNCHANGED mci
    /\ Set(c, Proceed(job[c]))
    /\ UNCHANGED <<vm, csp, requests, faults>>

\* "Mark as complete regardless of individual VM failures".
ControlComplete(c) ==
    /\ job[c].pc = "complete"
    /\ UpdateMciInfo("None")
    /\ Set(c, Proceed(job[c]))
    /\ UNCHANGED <<vm, csp, requests, faults>>

-----------------------------------------------------------------------------
(* ControlVmAsync, for the VMs of an MCI ("run") or one VM ("runOne", whose *)
(* error is the error of the request).                                      *)

Running(c) == job[c].pc \in {"run", "runOne"}
Error(j, v) == IF j.pc = "runOne" THEN Idle ELSE Place(j, {v}, "out")

ControlStart(c, v) ==
    /\ Running(c)
    /\ job[c].at[v] = "start"
    /\ LET a == job[c].act IN
       IF ~vm[v].there \/ (vm[v].status # "Terminated" /\ ~vm[v].named)
       THEN Set(c, Error(job[c], v)) /\ UNCHANGED vm
       ELSE IF vm[v].status = "Terminated" \/ (vm[v].status = TargetOf(a) /\ a # "Reboot")
       THEN Set(c, Place(job[c], {v}, "out")) /\ UNCHANGED vm
       ELSE /\ vm' = [vm EXCEPT ![v] = Intent(@, a)]
            /\ Set(c, Place(job[c], {v}, "call"))
    /\ UNCHANGED <<mci, csp, requests, faults>>

ControlCall(c, v) ==
    /\ Running(c)
    /\ job[c].at[v] = "call"
    /\ \/ /\ Accepts(csp[v], job[c].act)
          /\ csp' = [csp EXCEPT ![v] = During(job[c].act)]
          /\ Set(c, Place(job[c], {v}, "follow"))
          /\ UNCHANGED faults
       \/ /\ Accepts(csp[v], job[c].act) => Fault
          /\ Accepts(csp[v], job[c].act) \/ UNCHANGED faults
          /\ Set(c, Error(job[c], v))
          /\ UNCHANGED csp
    /\ UNCHANGED <<mci, vm, requests>>

ControlFollow(c, v) ==
    /\ Running(c)
    /\ job[c].at[v] = "follow"
    /\ \E s \in Statuses : FetchVmStatus(v, s)
    /\ Set(c, Place(job[c], {v}, "out"))
    /\ UNCHANGED <<mci, csp, requests>>

ControlEnd(c) ==
    /\ Running(c)
    /\ job[c].at = Out
    /\ Set(c, Proceed(job[c]))
    /\ UNCHANGED <<mci, vm, csp, requests, faults>>

ControlVm(c, v) == ControlStart(c, v) \/ ControlCall(c, v) \/ ControlFollow(c, v)

\* HandleMciVmAction, after it has the status of the MCI.
VmGuard(c) ==
    /\ job[c].pc = "vmGuard"
    /\ LET j == job[c]
           ok == \A v \in j.target : vm[v].there /\ Allowed(vm[v].status, j.act) IN
       Set(c, IF Forced(j) \/ (j.read = "None" /\ ok)
              THEN Place(Proceed(j), j.target, "start") ELSE Idle)
    /\ UNCHANGED <<mci, vm, csp, requests, faults>>

-----------------------------------------------------------------------------
(* Refining and deletion. *)

Drop(v) == vm' = [vm EXCEPT ![v].there = FALSE]

\* The end of DelMciVm, which does not look whether the key is still there.
DropVm(c) ==
    /\ job[c].pc = "dropVm"
    /\ vm' = [v \in Vms |-> IF v \in job[c].target THEN [vm[v] EXCEPT !.there = FALSE] ELSE vm[v]]
    /\ Set(c, Proceed(job[c]))
    /\ UNCHANGED <<mci, csp, requests, faults>>

\* HandleMciAction, refine: delete what is seen as Failed or Undefined.
Doomed(seen) == {v \in DOMAIN seen : seen[v] \in {"Failed", "Undefined"}}

Refine(c) ==
    /\ job[c].pc = "refine"
    /\ LET V == Doomed(job[c].seen) IN
       Set(c, IF V = {} THEN Proceed(job[c])
              ELSE Place(Then(job[c], <<"purge", "reread", "rewrite">>), V, "drop"))
    /\ UNCHANGED <<mci, vm, csp, requests, faults>>

DropNext(c, v) ==
    /\ job[c].pc \in {"purge", "dropAll"}
    /\ job[c].at[v] = "drop"
    /\ IF vm[v].there
       THEN Drop(v) /\ Set(c, Place(job[c], {v}, "out"))
       ELSE UNCHANGED vm /\ Set(c, Idle)
    /\ UNCHANGED <<mci, csp, requests, faults>>

DropEnd(c) ==
    /\ job[c].pc \in {"purge", "dropAll"}
    /\ job[c].at = Out
    /\ Set(c, Proceed(job[c]))
    /\ UNCHANGED <<mci, vm, csp, requests, faults>>

\* The record is read, and written with a new list of VMs.
RefineRead(c) ==
    /\ job[c].pc = "reread"
    /\ Set(c, Proceed([job[c] EXCEPT !.read = mci.action]))
    /\ UNCHANGED <<mci, vm, csp, requests, faults>>

RefineWrite(c) ==
    /\ job[c].pc = "rewrite"
    /\ UpdateMciInfo(job[c].read)
    /\ Set(c, Proceed(job[c]))
    /\ UNCHANGED <<vm, csp, requests, faults>>

\* The MCI as a whole has one of the statuses S.
WholeIn(j, S) == /\ j.read # "error"
                 /\ DOMAIN j.seen # {}
                 /\ Whole(j.seen)
                 /\ Dominant(j.seen) \in S

\* DelMci with option=terminate: refine and terminate, unless it is Terminated.
DelMciAdvance(c) ==
    /\ job[c].pc = "advance"
    /\ Set(c, IF job[c].opt = "terminate" /\ ~WholeIn(job[c], {"Terminated"})
              THEN Then(job[c], <<"status", "refine", "terminate", "try">>)
              ELSE Proceed(job[c]))
    /\ UNCHANGED <<mci, vm, csp, requests, faults>>

\* HandleMciAction, terminate, does nothing for an MCI without VMs.
DelMciTerminate(c) ==
    /\ job[c].pc = "terminate"
    /\ Set(c, IF Listed = {} THEN Proceed(job[c]) ELSE Then(job[c], ControlPlan))
    /\ UNCHANGED <<mci, vm, csp, requests, faults>>

\* Mutant: an MCI that is partially in such a status may be deleted, too.
PartlyDeletable(j) ==
    \/ j.read = "error" \/ DOMAIN j.seen = {}
    \/ Dominant(j.seen) \in {"Terminated", "Undefined", "Failed"}

\* An error of GetMciStatus yields no status, and the check is skipped.
Deletable(j) ==
    \/ j.read = "error" \/ DOMAIN j.seen = {}
    \/ WholeIn(j, {"Terminated", "Undefined", "Failed"})

DelMciCheck(c) ==
    /\ job[c].pc = "check"
    /\ Set(c, IF Deletable(job[c]) \/ job[c].opt = "force"
              THEN Place(Proceed(job[c]), Listed, "drop") ELSE Idle)
    /\ UNCHANGED <<mci, vm, csp, requests, faults>>

DelMciLast(c) ==
    /\ job[c].pc = "dropMci"
    /\ mci' = [there |-> FALSE, action |-> "None"]
    /\ Set(c, Proceed(job[c]))
    /\ UNCHANGED <<vm, csp, requests, faults>>

-----------------------------------------------------------------------------
CspProgress(v) ==
    /\ \/ csp[v] = "Suspending" /\ csp' = [csp EXCEPT ![v] = "Suspended"]
       \/ csp[v] \in {"Resuming", "Rebooting"} /\ csp' = [csp EXCEPT ![v] = "Running"]
       \/ csp[v] = "Terminating" /\ csp' = [csp EXCEPT ![v] = "Gone"]
    /\ UNCHANGED <<mci, vm, job, requests, faults>>

ControlMci(c) ==
    \/ ControlGuard(c) \/ ControlLaunch(c) \/ ControlSelected(c)
    \/ (\E v \in Vms : ControlSelect(c, v) \/ ControlVm(c, v))
    \/ ControlEnd(c) \/ ControlComplete(c) \/ VmGuard(c)

Deletion(c) ==
    \/ DropVm(c) \/ Refine(c) \/ (\E v \in Vms : DropNext(c, v)) \/ DropEnd(c)
    \/ RefineRead(c) \/ RefineWrite(c)
    \/ DelMciAdvance(c) \/ DelMciTerminate(c) \/ DelMciCheck(c) \/ DelMciLast(c)

Serve(c) == GetMciStatus(c) \/ ControlMci(c) \/ Deletion(c)

Next ==
    \/ \E c \in Clients, k \in Kinds, a \in Wanted, v \in Vms,
          opt \in {"none", "force", "terminate"} : Request(c, k, a, v, opt)
    \/ \E c \in Clients : Serve(c)
    \/ \E v \in Vms : CspProgress(v)

Spec == Init /\ [][Next]_vars

\* Goroutines run, each of those that serve the VMs of a request, too.
Fairness ==
    \A c \in Clients :
        /\ WF_vars(Serve(c))
        /\ \A v \in Vms : WF_vars(StatusFetch(c, v) \/ ControlVm(c, v))

FairSpec == Spec /\ Fairness

-----------------------------------------------------------------------------
(* Properties. *)

MciType ==
    /\ mci \in [there : BOOLEAN, action : Controls \cup {"None"}]
    /\ vm \in [Vms -> VmRecord]
    /\ csp \in [Vms -> CspStates]
SeenMaps == UNION {[V -> Statuses] : V \in SUBSET Vms}
JobRecord == [pc : Labels, rest : Seq(Stages), kind : Kinds \cup {"none"},
              act : Controls \cup {"None"}, opt : {"none", "force", "terminate"},
              target : SUBSET Vms, read : Controls \cup {"None", "error"},
              at : [Vms -> Places], seen : SeenMaps]
JobType == job \in [Clients -> JobRecord]
CountType == requests \in 0..MaxRequests /\ faults \in 0..MaxFaults

\* Every variable keeps its type; in particular no error and no action of a VM
\* (Create) gets into the action of the MCI.
TypeOK == MciType /\ JobType /\ CountType

\* No action outlives the requests for it: if the record says one is under way,
\* some goroutine is at it.  Otherwise all requests that follow are refused
\* (ControlMciAsync: "MCI is under ..., please try later").
NoOrphanAction ==
    mci.action # "None" =>
        \E c \in Clients : job[c].pc \in {"select", "run", "complete"}

\* Without force, VM objects are deleted only when the CSP has no such VM, or
\* is terminating it: else it would run on, and nobody would know of it.
\* Refining deletes what is seen as Failed or Undefined.
NoVmIsForgotten ==
    [][\A v \in Vms :
         vm[v].there /\ ~vm'[v].there => csp[v] \in {"Absent", "Gone", "Terminating"}]_vars

\* ControlMciAsync: "new action cannot be executed while MCI is under an action".
OneActionAtATime ==
    \A c, d \in Clients :
        job[c].pc \in {"select", "run", "complete"} /\ job[d].pc \in {"select", "run", "complete"}
            => c = d

\* The safety net of GetMciStatus does not end an action while a VM is yet to be
\* asked for at the CSP: VMs are seen in a status on the way from the moment the
\* action is recorded.  Not so for Reboot, which ends where it starts, and not
\* after a third request: the net clears whatever action is recorded by then,
\* though it read an earlier one and looked at the VMs for that.
RecoveryIsRight ==
    [][\A c \in Clients :
         /\ requests <= 2
         /\ job[c].pc = "fetch" /\ mci.action \notin {"None", "Reboot"} /\ mci'.action = "None"
         => \A d \in Clients, v \in Vms : job[d].pc = "run" => job[d].at[v] # "call"]_vars
=============================================================================
