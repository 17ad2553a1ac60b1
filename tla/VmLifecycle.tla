---------------------------- MODULE VmLifecycle ----------------------------
(***************************************************************************)
(* The life of one VM: its record in the key-value store, and everything   *)
(* that reads or writes it.  CreateVmObject and CreateVm                   *)
(* (core/infra/provisioning.go) make it, ControlVmAsync                    *)
(* (core/infra/control.go) suspends, resumes, reboots and terminates it,   *)
(* FetchVmStatus (core/infra/manageInfo.go) refreshes it from the CSP, and *)
(* DelMciVm removes it.  Every call runs in a goroutine of its own.        *)
(*                                                                         *)
(* UpdateVmInfo writes whole records.  Its mutex covers its own look at    *)
(* the store, not the read its caller started from, and not kvstore.Delete *)
(* So a writer may undo what it never saw.                                 *)
(*                                                                         *)
(* The CSP, behind CB-Spider, is external: it carries out what it accepts, *)
(* takes time, reports odd statuses on the way, and a call to it may fail, *)
(* or fail after having been carried out.  Answers to GET are cached for   *)
(* a few seconds by core/common/client, and all controls but terminate are *)
(* GETs.                                                                   *)
(***************************************************************************)
EXTENDS StatusRules

CONSTANTS
    Creator,      \* the goroutine that runs CreateVm
    Controllers,  \* goroutines that run ControlVmAsync
    Pollers,      \* goroutines of status requests that run FetchVmStatus
    Nobody,       \* no goroutine
    IPs,          \* public addresses the CSP hands out
    Scope,        \* what the environment does, see below
    MaxRequests,  \* bound on control requests
    MaxFaults     \* bound on failing calls

(* "create":  the VM is yet to be created (else it is there, and runs)     *)
(* "force":   clients may ask with force=true                              *)
(* "delete":  the VM object may be deleted with option=force               *)
(* "cache":   a client may come back before the cached answers expire      *)
(* "overlap": requests come while others are under way                     *)
ASSUME ProcessAssumption ==
    /\ Creator \notin Controllers \cup Pollers
    /\ Controllers \cap Pollers = {}
    /\ Nobody \notin Controllers \cup Pollers \cup {Creator}
    /\ IPs # {}
ASSUME ScopeAssumption ==
    /\ Scope \subseteq {"create", "force", "delete", "cache", "overlap"}
    /\ MaxRequests \in Nat
    /\ MaxFaults \in Nat

VARIABLES
    exists,    \* the VM's key is in the store
    vm,        \* the record under it
    attached,  \* the key is in the associated object lists of its resources
    csp,       \* the VM itself, at the CSP
    cspIp,     \* its public address
    cache,     \* clientCache, the answers that have not expired
    mutex,     \* holder of mciInfoMutex
    pc,        \* where each goroutine is
    act,       \* the action a controller carries out
    obj,       \* vmInfoData of CreateVm, temp of ControlVmAsync
    seen,      \* native status, and cspResourceName of the first read
    want,      \* the record an UpdateVmInfo is called with
    ret,       \* what FetchVmStatus returned to CreateVm
    asked,     \* history: termination was requested
    deleted,   \* history: the object was deleted
    requests,
    faults

localVars == <<act, obj, seen, want, ret>>
countVars == <<asked, deleted, requests, faults>>
vars == <<exists, vm, attached, csp, cspIp, cache, mutex, pc, localVars, countVars>>

Procs == {Creator} \cup Controllers \cup Pollers

CspStates    == {"Absent", "Running", "Suspended", "Suspending", "Resuming",
                 "Rebooting", "Terminating", "Gone"}

\* named: CspResourceName is not empty.
VmRecord == [named : BOOLEAN, status : Statuses, action : Actions, ip : IPs]

AnIp == CHOOSE i \in IPs : TRUE
NewVm     == [named |-> FALSE, status |-> "Creating", action |-> "Create", ip |-> AnIp]
RunningVm == [named |-> TRUE, status |-> "Running", action |-> "None", ip |-> AnIp]

Nothing == [native |-> "Undefined", named |-> FALSE]
EmptyCache == [controls |-> {}, status |-> "none", ip |-> {}]

SaveLabels == {"crSave", "crFail", "crEnd", "intent", "invalid", "fetchSave", "ipSave"}
FetchLabels == {"fetch", "fetchCsp", "fetchRead", "fetchIp", "fetchCheck"}
Labels == SaveLabels \cup FetchLabels \cup
          {"none", "post", "crResult", "label", "idle", "begin", "call", "after", "ipGet", "done"}

Init ==
    /\ exists = ("create" \notin Scope)
    /\ vm = IF "create" \in Scope THEN NewVm ELSE RunningVm
    /\ attached = ("create" \notin Scope)
    /\ csp = IF "create" \in Scope THEN "Absent" ELSE "Running"
    /\ cspIp = AnIp
    /\ cache = EmptyCache
    /\ mutex = Nobody
    /\ pc = [p \in Procs |-> IF p # Creator THEN "idle"
                             ELSE IF "create" \in Scope THEN "none" ELSE "done"]
    /\ act = [p \in Procs |-> "None"]
    /\ obj = [p \in Procs |-> NewVm]
    /\ seen = [p \in Procs |-> Nothing]
    /\ want = [p \in Procs |-> NewVm]
    /\ ret = "none"
    /\ asked = FALSE
    /\ deleted = FALSE
    /\ requests = 0
    /\ faults = 0

Goto(p, l) == pc' = [pc EXCEPT ![p] = l]

\* Goto, where the goroutine may end: its variables go with it.
Enter(p, l) ==
    /\ Goto(p, l)
    /\ act' = IF l = "idle" THEN [act EXCEPT ![p] = "None"] ELSE act
    /\ obj' = IF l = "idle" THEN [obj EXCEPT ![p] = NewVm] ELSE obj

Fault == faults < MaxFaults /\ faults' = faults + 1
Quiet == \A p \in Procs : pc[p] \in {"idle", "done"}

-----------------------------------------------------------------------------
(* UpdateVmInfo: under the mutex, look whether the key is there and the    *)
(* record differs, then put it.  kvstore.Put may fail, which is only       *)
(* logged.  The caller's label says what it saves and where it goes on.    *)

AfterFetch(p) == IF p = Creator THEN "crResult"
                 ELSE IF p \in Controllers THEN "after" ELSE "idle"

AfterSave(p) == CASE pc[p] = "crSave" -> "fetch"
                  [] pc[p] = "crEnd" -> "label"
                  [] pc[p] = "crFail" -> "done"
                  [] pc[p] = "intent" -> "call"
                  [] pc[p] = "fetchSave" -> AfterFetch(p)
                  [] OTHER -> "idle"

\* What FetchVmStatus returns matters to CreateVm only; others log it.
Return(p, r) == ret' = IF p = Creator THEN r ELSE ret

Saved(p) ==
    /\ Enter(p, AfterSave(p))
    /\ want' = [want EXCEPT ![p] = NewVm]
    /\ IF pc[p] = "fetchSave" THEN Return(p, want[p].status) ELSE UNCHANGED ret

UpdateVmInfoCheck(p) ==
    /\ pc[p] \in SaveLabels
    /\ mutex = Nobody
    /\ IF exists /\ vm # want[p]
       THEN mutex' = p /\ UNCHANGED <<pc, act, obj, want, ret>>
       ELSE Saved(p) /\ UNCHANGED mutex
    /\ UNCHANGED <<exists, vm, attached, csp, cspIp, cache, seen, countVars>>

UpdateVmInfoPut(p) ==
    /\ mutex = p
    /\ mutex' = Nobody
    /\ Saved(p)
    /\ \/ exists' = TRUE /\ vm' = want[p] /\ UNCHANGED faults
       \/ Fault /\ UNCHANGED <<exists, vm>>
    /\ UNCHANGED <<attached, csp, cspIp, cache, seen, asked, deleted, requests>>

-----------------------------------------------------------------------------
(* FetchVmStatus.  It reads the record three times: to decide whether to   *)
(* ask the CSP, to have the record it will change, and to see whether the  *)
(* VM was terminated meanwhile.                                            *)

FetchReturn(p, r) ==
    /\ Return(p, r)
    /\ Goto(p, AfterFetch(p))
    /\ seen' = [seen EXCEPT ![p] = Nothing]
    /\ want' = [want EXCEPT ![p] = NewVm]

FetchFirstRead(p) ==
    /\ pc[p] = "fetch"
    /\ IF ~exists
       THEN FetchReturn(p, "error")
       ELSE IF NeedNotAsk(vm)
       THEN FetchReturn(p, vm.status)
       ELSE /\ seen' = [seen EXCEPT ![p] = [native |-> "Undefined", named |-> vm.named]]
            /\ Goto(p, IF vm.named /\ vm.status # "Terminated" THEN "fetchCsp" ELSE "fetchRead")
            /\ UNCHANGED <<want, ret>>
    /\ UNCHANGED <<exists, vm, attached, csp, cspIp, cache, mutex, act, obj, countVars>>

\* What CB-Spider may answer about a VM.  On the way to a new state some CSPs
\* answer with other statuses; about a VM that is gone it answers with an error
\* (turned into Undefined) or with Terminated.
Reports(s) ==
    CASE s = "Suspending"  -> {"Suspending", "Running", "Resuming"}
      [] s = "Resuming"    -> {"Resuming", "Suspended", "Creating"}
      [] s = "Rebooting"   -> {"Rebooting", "Suspending", "Suspended", "Creating", "Resuming"}
      [] s = "Terminating" -> {"Terminating", "Suspending"}
      [] s \in {"Gone", "Absent"} -> {"Undefined", "Terminated"}
      [] OTHER -> {s}

\* Mutant: an answer outlives the time between two requests.
CachedForLong(field, v) == [cache EXCEPT ![field] = v]

Cached(field, v) == IF "cache" \in Scope THEN [cache EXCEPT ![field] = v] ELSE cache

FetchNativeStatus(p) ==
    /\ pc[p] = "fetchCsp"
    /\ Goto(p, "fetchRead")
    /\ \/ /\ cache.status # "none"
          /\ seen' = [seen EXCEPT ![p].native = cache.status]
          /\ UNCHANGED <<cache, faults>>
       \/ /\ cache.status = "none"
          /\ \E s \in Reports(csp) :
               /\ seen' = [seen EXCEPT ![p].native = s]
               /\ cache' = IF s = "Undefined" THEN cache ELSE Cached("status", s)
          /\ UNCHANGED faults
       \/ /\ cache.status = "none"
          /\ Fault
          /\ UNCHANGED <<seen, cache>>
    /\ UNCHANGED <<exists, vm, attached, csp, cspIp, mutex, act, obj, want, ret,
                   asked, deleted, requests>>

FetchSecondRead(p) ==
    /\ pc[p] = "fetchRead"
    /\ IF ~exists
       THEN FetchReturn(p, "error")
       ELSE /\ want' = [want EXCEPT ![p] = Refreshed(vm, seen[p].native)]
            /\ Goto(p, IF Reached(vm, seen[p].native) /\ vm.action # "Terminate"
                       THEN "fetchIp" ELSE "fetchCheck")
            /\ seen' = [seen EXCEPT ![p].native = "Undefined"]
            /\ UNCHANGED ret
    /\ UNCHANGED <<exists, vm, attached, csp, cspIp, cache, mutex, act, obj, countVars>>

(* GetVmCurrentPublicIp: the address from the cache, or from the CSP.       *)
PublicIpIs(i) ==
    /\ exists
    /\ vm.named
    /\ \/ i \in cache.ip /\ UNCHANGED cache
       \/ /\ cache.ip = {}
          /\ csp \notin {"Absent", "Gone"}
          /\ i = cspIp
          /\ cache' = Cached("ip", {cspIp})

PublicIpUnknown ==
    \/ (~exists \/ ~vm.named) /\ UNCHANGED faults
    \/ exists /\ cache.ip = {} /\ csp \in {"Absent", "Gone"} /\ UNCHANGED faults
    \/ exists /\ cache.ip = {} /\ csp \notin {"Absent", "Gone"} /\ Fault

FetchPublicIp(p) ==
    /\ pc[p] = "fetchIp"
    /\ \/ /\ \E i \in IPs : PublicIpIs(i) /\ want' = [want EXCEPT ![p].ip = i]
          /\ Goto(p, "fetchCheck")
          /\ UNCHANGED <<seen, ret, faults>>
       \/ /\ PublicIpUnknown
          /\ FetchReturn(p, "error")
          /\ UNCHANGED cache
    /\ UNCHANGED <<exists, vm, attached, csp, cspIp, mutex, act, obj,
                   asked, deleted, requests>>

\* The third read; if it fails the status it yields is empty, which is not
\* Terminated either.
FetchThirdRead(p) ==
    /\ pc[p] = "fetchCheck"
    /\ IF (exists /\ vm.status = "Terminated") \/ ~seen[p].named
       THEN FetchReturn(p, want[p].status)
       ELSE /\ Goto(p, "fetchSave")
            /\ seen' = [seen EXCEPT ![p] = Nothing]
            /\ UNCHANGED <<want, ret>>
    /\ UNCHANGED <<exists, vm, attached, csp, cspIp, cache, mutex, act, obj, countVars>>

Fetch(p) == FetchFirstRead(p) \/ FetchNativeStatus(p) \/ FetchSecondRead(p)
            \/ FetchPublicIp(p) \/ FetchThirdRead(p)

\* A status request: GetMciVmStatus and fetchVmStatusesWithRateLimiting.
Poll(p) ==
    /\ pc[p] = "idle"
    /\ exists
    /\ "overlap" \in Scope \/ Quiet
    /\ Goto(p, "fetch")
    /\ UNCHANGED <<exists, vm, attached, csp, cspIp, cache, mutex, localVars, countVars>>

-----------------------------------------------------------------------------
(* CreateVmObject and CreateVm.                                            *)

CreateVmObject ==
    /\ pc[Creator] = "none"
    /\ exists' = TRUE
    /\ vm' = NewVm
    /\ Goto(Creator, "post")
    /\ UNCHANGED <<attached, csp, cspIp, cache, mutex, localVars, countVars>>

Submit(p, rec, label) ==
    /\ obj' = [obj EXCEPT ![p] = rec]
    /\ want' = [want EXCEPT ![p] = rec]
    /\ Goto(p, label)

\* The POST to CB-Spider.  A failing one may have made the VM all the same;
\* some lookups before it return without recording the failure.
CreateVmPost ==
    /\ pc[Creator] = "post"
    /\ \/ /\ \E i \in IPs :
               /\ cspIp' = i
               /\ Submit(Creator, [obj[Creator] EXCEPT !.named = TRUE, !.ip = i], "crSave")
          /\ csp' = "Running"
          /\ attached' = TRUE
          /\ UNCHANGED faults
       \/ /\ Fault
          /\ csp' \in {"Absent", "Running"}
          /\ Submit(Creator, [obj[Creator] EXCEPT !.status = "Failed"], "crFail")
          /\ UNCHANGED <<cspIp, attached>>
       \/ /\ Fault
          /\ Goto(Creator, "done")
          /\ UNCHANGED <<csp, cspIp, attached, obj, want>>
    /\ UNCHANGED <<exists, vm, cache, mutex, act, seen, ret, asked, deleted, requests>>

\* vmInfoData, with the status FetchVmStatus returned, is written again.
CreateVmResult ==
    /\ pc[Creator] = "crResult"
    /\ IF ret = "error"
       THEN Submit(Creator, [obj[Creator] EXCEPT !.status = "Failed", !.action = "None"], "crFail")
       ELSE Submit(Creator, [obj[Creator] EXCEPT !.status = ret, !.action = "None"], "crEnd")
    /\ UNCHANGED <<exists, vm, attached, csp, cspIp, cache, mutex, act, seen, ret, countVars>>

CreateVmLabel ==
    /\ pc[Creator] = "label"
    /\ \/ Goto(Creator, "done") /\ UNCHANGED <<obj, want, faults>>
       \/ Fault /\ Submit(Creator, [obj[Creator] EXCEPT !.status = "Failed"], "crFail")
    /\ UNCHANGED <<exists, vm, attached, csp, cspIp, cache, mutex, act, seen, ret,
                   asked, deleted, requests>>

CreateVm == CreateVmPost \/ CreateVmResult \/ CreateVmLabel

-----------------------------------------------------------------------------
(* ControlVmAsync.                                                         *)

\* HandleMciVmAction, or one of the goroutines of ControlVmsInParallel.
Request(c, a) ==
    /\ pc[c] = "idle"
    /\ exists
    /\ requests < MaxRequests
    /\ "force" \in Scope \/ Allowed(vm.status, a)
    /\ "overlap" \in Scope \/ Quiet
    /\ act' = [act EXCEPT ![c] = a]
    /\ Goto(c, "begin")
    /\ requests' = requests + 1
    /\ UNCHANGED <<exists, vm, attached, csp, cspIp, cache, mutex, obj, seen, want, ret,
                   asked, deleted, faults>>

ControlRead(c) ==
    /\ pc[c] = "begin"
    /\ IF ~exists \/ vm.status = "Terminated"
       THEN Enter(c, "idle") /\ UNCHANGED <<want, asked>>
       ELSE IF ~vm.named
       THEN Submit(c, vm, "invalid") /\ UNCHANGED <<act, asked>>
       ELSE IF vm.status = TargetOf(act[c]) /\ act[c] # "Reboot"
       THEN Enter(c, "idle") /\ UNCHANGED <<want, asked>>
       ELSE /\ Submit(c, Intent(vm, act[c]), "intent")
            /\ asked' = (asked \/ act[c] = "Terminate")
            /\ UNCHANGED act
    /\ UNCHANGED <<exists, vm, attached, csp, cspIp, cache, mutex, seen, ret,
                   deleted, requests, faults>>

AnsweredFromCache(c) == act[c] \in cache.controls

\* Mutant: a call that failed is followed up like one that succeeded.
OnErrorGoOn == "after"

OnError == "idle"

ControlCall(c) ==
    /\ pc[c] = "call"
    /\ \/ /\ AnsweredFromCache(c)
          /\ Enter(c, "fetch")
          /\ UNCHANGED <<csp, cache, faults>>
       \/ /\ ~AnsweredFromCache(c)
          /\ Accepts(csp, act[c])
          /\ csp' = During(act[c])
          /\ cache' = IF act[c] = "Terminate" THEN cache
                      ELSE Cached("controls", cache.controls \cup {act[c]})
          /\ Enter(c, "fetch")
          /\ UNCHANGED faults
       \/ /\ ~AnsweredFromCache(c)
          /\ ~Accepts(csp, act[c])
          /\ Enter(c, OnError)
          /\ UNCHANGED <<csp, cache, faults>>
       \/ /\ ~AnsweredFromCache(c)
          /\ Fault
          /\ csp' \in IF Accepts(csp, act[c]) THEN {csp, During(act[c])} ELSE {csp}
          /\ Enter(c, OnError)
          /\ UNCHANGED cache
    /\ UNCHANGED <<exists, vm, attached, cspIp, mutex, seen, want, ret, asked, deleted, requests>>

\* Terminate takes the VM off the associated object lists; the other actions
\* go on to UpdateVmPublicIp.
ControlAfter(c) ==
    /\ pc[c] = "after"
    /\ IF act[c] = "Terminate"
       THEN attached' = FALSE /\ Enter(c, "idle")
       ELSE Enter(c, "ipGet") /\ UNCHANGED attached
    /\ UNCHANGED <<exists, vm, csp, cspIp, cache, mutex, seen, want, ret, countVars>>

\* UpdateVmPublicIp: a changed address is written with the record as it was
\* when the action began.
ControlPublicIp(c) ==
    /\ pc[c] = "ipGet"
    /\ \/ /\ \E i \in IPs :
               /\ PublicIpIs(i)
               /\ IF i # obj[c].ip
                  THEN /\ want' = [want EXCEPT ![c] = [obj[c] EXCEPT !.ip = i]]
                       /\ Enter(c, "ipSave")
                  ELSE Enter(c, "idle") /\ UNCHANGED want
          /\ UNCHANGED faults
       \/ PublicIpUnknown /\ Enter(c, "idle") /\ UNCHANGED <<want, cache>>
    /\ UNCHANGED <<exists, vm, attached, csp, cspIp, mutex, seen, ret,
                   asked, deleted, requests>>

Control(c) == ControlRead(c) \/ ControlCall(c) \/ ControlAfter(c) \/ ControlPublicIp(c)

\* DelMciVm: kvstore.Delete does not take mciInfoMutex.
DelMciVm ==
    /\ "delete" \in Scope
    /\ exists
    /\ "overlap" \in Scope \/ Quiet
    /\ exists' = FALSE
    /\ attached' = FALSE
    /\ deleted' = TRUE
    /\ UNCHANGED <<vm, csp, cspIp, cache, mutex, pc, localVars, asked, requests, faults>>

-----------------------------------------------------------------------------
(* The CSP gets on with what it accepted; cached answers expire.           *)

CspProgress ==
    /\ \/ csp = "Suspending"  /\ csp' = "Suspended" /\ UNCHANGED cspIp
       \/ csp = "Resuming"    /\ csp' = "Running"   /\ cspIp' \in IPs
       \/ csp = "Rebooting"   /\ csp' = "Running"   /\ UNCHANGED cspIp
       \/ csp = "Terminating" /\ csp' = "Gone"      /\ UNCHANGED cspIp
    /\ UNCHANGED <<exists, vm, attached, cache, mutex, pc, localVars, countVars>>

CacheExpires ==
    /\ \/ \E a \in cache.controls : cache' = [cache EXCEPT !.controls = @ \ {a}]
       \/ cache.status # "none" /\ cache' = [cache EXCEPT !.status = "none"]
       \/ cache.ip # {} /\ cache' = [cache EXCEPT !.ip = {}]
    /\ UNCHANGED <<exists, vm, attached, csp, cspIp, mutex, pc, localVars, countVars>>

Step(p) == UpdateVmInfoCheck(p) \/ UpdateVmInfoPut(p) \/ Fetch(p) \/ Control(p)

Next ==
    \/ CreateVmObject
    \/ CreateVm
    \/ \E p \in Procs : Step(p)
    \/ \E p \in Pollers : Poll(p)
    \/ \E c \in Controllers, a \in Controls : Request(c, a)
    \/ DelMciVm
    \/ CspProgress
    \/ CacheExpires

Spec == Init /\ [][Next]_vars

\* Goroutines run, the CSP finishes what it accepted, time passes, and clients
\* keep asking for the status: nothing in the server polls by itself.
Fairness ==
    /\ WF_vars(CreateVmObject) /\ WF_vars(CreateVm)
    /\ \A p \in Procs : WF_vars(Step(p))
    /\ \A p \in Pollers : WF_vars(Poll(p))
    /\ WF_vars(CspProgress)
    /\ WF_vars(CacheExpires)

FairSpec == Spec /\ Fairness

-----------------------------------------------------------------------------
(* Properties.                                                             *)

StoreType ==
    /\ exists \in BOOLEAN
    /\ attached \in BOOLEAN
    /\ asked \in BOOLEAN
    /\ deleted \in BOOLEAN
    /\ vm \in VmRecord
CspType ==
    /\ csp \in CspStates
    /\ cspIp \in IPs
    /\ cache \in [controls : SUBSET Controls, status : Statuses \cup {"none"}, ip : SUBSET IPs]
ControlType ==
    /\ pc \in [Procs -> Labels]
    /\ mutex \in Procs \cup {Nobody}
    /\ act \in [Procs -> Controls \cup {"None"}]
LocalType ==
    /\ obj \in [Procs -> VmRecord]
    /\ want \in [Procs -> VmRecord]
    /\ seen \in [Procs -> [native : Statuses, named : BOOLEAN]]
    /\ ret \in Statuses \cup {"none", "error"}
CountType == requests \in 0..MaxRequests /\ faults \in 0..MaxFaults
MutexHeld == mutex # Nobody => pc[mutex] \in SaveLabels

\* Every variable keeps its type; only the goroutine that holds the mutex is
\* between UpdateVmInfo's look at the store and its Put.
TypeOK == StoreType /\ CspType /\ ControlType /\ LocalType /\ CountType /\ MutexHeld

\* A VM nobody asked to terminate is never shown Terminated, whatever the CSP
\* answers, calls fail, and writers overwrite each other: FetchVmStatus takes an
\* unknown status for Terminated only under TargetAction Terminate.
NeverFalselyTerminated == vm.status = "Terminated" => asked

\* If no call fails, a VM shown Terminated is gone at the CSP: the record gets
\* there only after the CSP stopped knowing the VM.
TerminatedMeansGone == vm.status = "Terminated" => csp = "Gone"

\* While the VM is up at the CSP and its object was not deleted, its key stays in the
\* associated object lists, which is what keeps its vNet, key and security
\* groups from being deleted under it (ControlVmAsync takes it off only after
\* the terminate call was accepted).
InUseStaysAttached ==
    exists /\ ~deleted /\ vm.named
    /\ csp \in {"Running", "Suspended", "Suspending", "Resuming", "Rebooting"}
        => attached

\* FetchVmStatus skips Suspended VMs without an action for good ("stable until
\* explicitly resumed"), so a record in that state must be true.
SuspendedIsStable ==
    exists /\ vm.status = "Suspended" /\ vm.action = "None" => csp = "Suspended"

\* Likewise Failed: such a record is never refreshed again, and refining the MCI
\* deletes it, so a VM the CSP did make must not be left Failed.
FailedMeansNoVm ==
    exists /\ vm.named /\ vm.status = "Failed" => csp \in {"Absent", "Gone"}

\* FetchVmStatus: a Terminated record is not overwritten with another status.
TerminatedIsFinal ==
    [][exists /\ vm.status = "Terminated" /\ exists' => vm'.status = "Terminated"]_vars

\* UpdateVmInfo: "If no key, no update": a deleted object does not come back.
DeletedStaysDeleted == deleted => ~exists

\* A reboot that ControlVmAsync goes through with reaches the CSP.
RebootIsExecuted ==
    [][\A c \in Controllers :
         pc[c] = "call" /\ act[c] = "Reboot" /\ pc'[c] = "fetch" => csp' = "Rebooting"]_vars

\* The record tells what the VM is.
Truthful ==
    exists /\ csp # "Absent" =>
        CASE csp = "Running"   -> vm.status = "Running" /\ vm.action = "None"
          [] csp = "Suspended" -> vm.status = "Suspended" /\ vm.action = "None"
          [] csp = "Gone"      -> vm.status = "Terminated" /\ vm.action = "Terminate"
          [] OTHER             -> FALSE

\* Once requests have stopped, and as long as somebody polls, the record settles
\* on the state of the VM, whatever statuses the CSP reported on the way:
\* no action stays under way for ever and none is forgotten half-way.
Settles == <>[]Truthful
=============================================================================
