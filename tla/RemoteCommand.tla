---------------------------- MODULE RemoteCommand ----------------------------
(***************************************************************************)
(* Remote commands on the VMs of an MCI (core/infra/remoteCommand.go): a   *)
(* request queues one command per VM, a goroutine per VM runs it over SSH, *)
(* and what became of it is a record in the VM's object, next to the VM's  *)
(* status, which termination and status requests write as well.            *)
(*                                                                         *)
(* The object of a VM is changed by reading it and putting it back whole,  *)
(* without a lock: updateVmCommandStatusSafe for the command records (op,  *)
(* with retries), GetVmObject ... UpdateVmInfo for everything else (held). *)
(* An operation that does one of these has a step for the read and a step  *)
(* for the write, and anything may happen in between.                      *)
(***************************************************************************)
EXTENDS Naturals, FiniteSets, FiniteSetsExt

CONSTANTS
    Requests,   \* RemoteCommandToMci calls; each is made once
    Clients,    \* clients that cancel, delete records, terminate, ask for a status
    Vms,        \* VM objects
    TargetsOf,  \* the VMs each request addresses
    IdOf,       \* the X-Request-Id of each request
    Internal,   \* the empty id, which calls from inside the server have
    NameOf,     \* the VM id; two VMs of different MCIs may have the same one
    None,       \* no VM, no goroutine, no request known any more
    PastOf,     \* the records each VM has from earlier commands
    PageLimit,  \* how many records of a VM the task list shows
    MaxRetries, \* maxRetries of updateVmCommandStatusSafe
    MaxInFlight, \* bound on requests under way at a time
    MaxCalls,   \* bound on the calls of the clients
    MaxFaults   \* bound on failing store calls and server crashes

Goroutines == {g \in Requests \X Vms : g[2] \in TargetsOf[g[1]]}
Processes == Requests \cup Goroutines \cup Clients
KeyOf(g) == <<IdOf[g[1]], NameOf[g[2]]>>
Keys == {<<IdOf[r], NameOf[v]>> : r \in Requests, v \in Vms}

Statuses == {"Queued", "Handling", "Completed", "Failed", "Timeout", "Cancelled",
             "Interrupted"}
Terminal == Statuses \ {"Queued", "Handling"}
Records == [index : Nat \ {0}, req : Requests \cup {None}, status : Statuses]

ASSUME TargetAssumption == TargetsOf \in [Requests -> SUBSET Vms]
ASSUME NoneAssumption == None \notin Vms \cup Goroutines \cup Requests
ASSUME ProcessAssumption ==
    /\ Requests \cap Goroutines = {}
    /\ Clients \cap (Requests \cup Goroutines) = {}
ASSUME PastAssumption ==
    /\ PastOf \in [Vms -> SUBSET Records]
    /\ \A v \in Vms : IsFiniteSet(PastOf[v])
    /\ \A v \in Vms : \A a, b \in PastOf[v] : a.index = b.index => a = b
    /\ \A v \in Vms : \A rec \in PastOf[v] : rec.req = None
ASSUME BoundAssumption ==
    /\ PageLimit \in Nat /\ MaxRetries \in Nat \ {0}
    /\ MaxInFlight \in Nat /\ MaxCalls \in Nat /\ MaxFaults \in Nat

VARIABLES
    up,        \* the server runs and its start-up clean-up is done
    obj,       \* the object of each VM in the store
    reqPc,     \* where each request is
    todo,      \* the VMs a request has yet to queue its command for
    index,     \* the index of each goroutine's record; 0 when it has none
    pc,        \* where each goroutine is
    ctx,       \* its context: live, cancelled, past the deadline, or given up
    registry,  \* cancelFuncs
    op,        \* the command record update each process is in
    held,      \* the object a process got and will put back
    call,      \* what each client is doing
    keysLeft,  \* the entries CancelActiveCommandsForVm has yet to visit
    disturbed, \* history: VMs with an update lost, given up or without its record
    calls, faults

storeVars   == <<obj, disturbed>>
requestVars == <<reqPc, todo>>
runVars     == <<index, pc, ctx, registry>>
clientVars  == <<call, keysLeft, calls>>
vars == <<up, storeVars, requestVars, runVars, op, held, clientVars, faults>>

Objects == [cmds : SUBSET Records, pinned : BOOLEAN, running : BOOLEAN]
\* A VM that completed a command before has had its host key pinned.
VmWith(cmds) == [cmds |-> cmds, pinned |-> cmds # {}, running |-> TRUE]
FreshVm == VmWith({})

Idle == [vm |-> None, change |-> "none", arg |-> 0, got |-> FreshVm, tries |-> 0]
Quiet(p) == op[p] = Idle
NoCall == [kind |-> "none", vm |-> None, key |-> None]

Init ==
    /\ up = TRUE
    /\ obj = [v \in Vms |-> VmWith(PastOf[v])]
    /\ reqPc = [r \in Requests |-> "idle"]
    /\ todo = TargetsOf
    /\ index = [g \in Goroutines |-> 0]
    /\ pc = [g \in Goroutines |-> "none"]
    /\ ctx = [g \in Goroutines |-> "live"]
    /\ registry = [k \in Keys |-> None]
    /\ op = [p \in Processes |-> Idle]
    /\ held = [p \in Processes |-> FreshVm]
    /\ call = [c \in Clients |-> NoCall]
    /\ keysLeft = [c \in Clients |-> {}]
    /\ disturbed = {}
    /\ calls = 0
    /\ faults = 0

-----------------------------------------------------------------------------
(* Records of one VM. *)

Indices(cmds) == {rec.index : rec \in cmds}

\* getNextCommandIndex.  Mutants: the number of records; the first index is 0.
NextIndexByCount(cmds) == Cardinality(cmds) + 1
NextIndexFromZero(cmds) == IF cmds = {} THEN 0 ELSE Max(Indices(cmds)) + 1
NextIndex(cmds) == IF cmds = {} THEN 1 ELSE Max(Indices(cmds)) + 1

Found(cmds, i) == i \in Indices(cmds)

WithStatus(cmds, i, status) ==
    {rec \in cmds : rec.index # i} \cup
    {[rec EXCEPT !.status = status] : rec \in {c \in cmds : c.index = i}}

Changed(cmds, change, arg) ==
    CASE change = "add"  -> cmds \cup {[index |-> NextIndex(cmds), req |-> arg,
                                        status |-> "Queued"]}
      [] change = "drop" -> {rec \in cmds : rec.index \notin arg}
      [] OTHER           -> WithStatus(cmds, arg, change)

\* Updating or deleting one record fails when it is not there.
Applies(cmds, change, arg) ==
    \/ change = "add"
    \/ change = "drop" /\ \E i \in arg : Found(cmds, i)
    \/ change \in Statuses /\ Found(cmds, arg)

-----------------------------------------------------------------------------
(* Reading and writing VM objects. *)

StoreCall(ok) ==
    \/ ok /\ faults' = faults
    \/ ~ok /\ faults < MaxFaults /\ faults' = faults + 1

StartUpdate(p, v, change, arg) ==
    op' = [op EXCEPT ![p] = [vm |-> v, change |-> change, arg |-> arg,
                             got |-> obj[v], tries |-> 1]]

\* The update begins with a read.  If that fails, or the record to change is
\* not there, the update is given up.
Update(p, v, change, arg) ==
    \/ /\ StoreCall(TRUE)
       /\ Applies(obj[v].cmds, change, arg)
       /\ StartUpdate(p, v, change, arg)
       /\ UNCHANGED disturbed
    \/ /\ StoreCall(TRUE)
       /\ ~Applies(obj[v].cmds, change, arg)
       /\ UNCHANGED <<op, disturbed>>
    \/ /\ StoreCall(FALSE)
       /\ disturbed' = disturbed \cup {v}
       /\ UNCHANGED op

\* A put loses the updates made since its writer read the object.
PutObject(v, new, base, harmful) ==
    /\ obj' = [obj EXCEPT ![v] = new]
    /\ disturbed' = IF harmful \/ obj[v].cmds # base.cmds
                    THEN disturbed \cup {v} ELSE disturbed

LiveOn(v) == {g \in Goroutines : g[2] = v /\ pc[g] # "done" /\ index[g] # 0}

\* A record deleted while its command is not over cannot be updated any more.
DropsLive(u) == u.change = "drop" /\ \E g \in LiveOn(u.vm) : index[g] \in u.arg

WriteRecord(p) ==
    LET u    == op[p]
        cmds == Changed(u.got.cmds, u.change, u.arg)
    IN  /\ u.vm # None
        /\ StoreCall(TRUE)
        /\ PutObject(u.vm, [u.got EXCEPT !.cmds = cmds], u.got, DropsLive(u))
        /\ op' = [op EXCEPT ![p] = Idle]
        /\ index' = IF u.change = "add"
                    THEN [index EXCEPT ![<<p, u.vm>>] = NextIndex(u.got.cmds)]
                    ELSE index
        /\ UNCHANGED <<up, requestVars, pc, ctx, registry, held, clientVars>>

\* A put that fails is retried, from the read on, until maxRetries.  Callers only
\* log that an update failed, but for a cancellation, which ends with it.
Retries(p) == op[p].tries < MaxRetries

GiveUp(p) ==
    /\ op' = [op EXCEPT ![p] = Idle]
    /\ call' = [c \in Clients |-> IF c = p /\ call[c].kind = "cancel" THEN NoCall ELSE call[c]]

WriteFails(p) ==
    LET u == op[p]
    IN  /\ u.vm # None
        /\ StoreCall(FALSE)
        /\ \/ /\ Retries(p) /\ Applies(obj[u.vm].cmds, u.change, u.arg)
              /\ op' = [op EXCEPT ![p].got = obj[u.vm], ![p].tries = @ + 1]
              /\ UNCHANGED <<call, disturbed>>
           \/ /\ Retries(p) /\ ~Applies(obj[u.vm].cmds, u.change, u.arg)
              /\ GiveUp(p)
              /\ UNCHANGED disturbed
           \/ /\ ~Retries(p)
              /\ GiveUp(p)
              /\ disturbed' = disturbed \cup {u.vm}
        /\ UNCHANGED <<up, obj, requestVars, runVars, held, keysLeft, calls>>

-----------------------------------------------------------------------------
(* RemoteCommandToMci: queue a record on every VM, start the goroutines, wait. *)

InFlight == {r \in Requests : reqPc[r] \in {"queue", "wait"}}

Request(r) ==
    /\ up
    /\ reqPc[r] = "idle"
    /\ Cardinality(InFlight) < MaxInFlight
    /\ reqPc' = [reqPc EXCEPT ![r] = "queue"]
    /\ UNCHANGED <<up, storeVars, todo, runVars, op, held, clientVars, faults>>

\* A command that cannot be tracked is executed all the same.
QueueCommand(r, v) ==
    /\ reqPc[r] = "queue"
    /\ Quiet(r)
    /\ v \in todo[r]
    /\ todo' = [todo EXCEPT ![r] = @ \ {v}]
    /\ Update(r, v, "add", r)
    /\ UNCHANGED <<up, obj, reqPc, runVars, held, clientVars>>

\* processCommand fails: the request ends, whatever it has queued so far.
RejectCommand(r) ==
    /\ reqPc[r] = "queue"
    /\ Quiet(r)
    /\ todo[r] # {}
    /\ reqPc' = [reqPc EXCEPT ![r] = "rejected"]
    /\ todo' = [todo EXCEPT ![r] = {}]
    /\ UNCHANGED <<up, storeVars, runVars, op, held, clientVars, faults>>

StartCommands(r) ==
    /\ reqPc[r] = "queue"
    /\ Quiet(r)
    /\ todo[r] = {}
    /\ reqPc' = [reqPc EXCEPT ![r] = "wait"]
    /\ pc' = [g \in Goroutines |-> IF g[1] = r THEN "spawned" ELSE pc[g]]
    /\ UNCHANGED <<up, storeVars, todo, index, ctx, registry, op, held, clientVars,
                   faults>>

CommandsDone(r) ==
    /\ reqPc[r] = "wait"
    /\ \A g \in Goroutines : g[1] = r => pc[g] = "done"
    /\ reqPc' = [reqPc EXCEPT ![r] = "returned"]
    /\ UNCHANGED <<up, storeVars, todo, runVars, op, held, clientVars, faults>>

\* The context all commands of a request derive theirs from has a deadline.
\* Mutant: theirs derive from the background context.
PastDeadlineDetached(g, r) == FALSE
PastDeadline(g, r) == g[1] = r /\ ctx[g] = "live"

Deadline(r) ==
    /\ reqPc[r] = "wait"
    /\ ctx' = [g \in Goroutines |-> IF PastDeadline(g, r) THEN "deadline" ELSE ctx[g]]
    /\ ctx' # ctx
    /\ UNCHANGED <<up, storeVars, requestVars, index, pc, registry, op, held, clientVars,
                   faults>>

-----------------------------------------------------------------------------
(* The goroutine of one command. *)

GoTo(g, from, to) ==
    /\ pc[g] = from
    /\ Quiet(g)
    /\ pc' = [pc EXCEPT ![g] = to]

\* registerCancelFunc.  Mutant: the entries are keyed by the request alone.
RegistryKeyOfRequest(g) == <<IdOf[g[1]], NameOf[CHOOSE v \in TargetsOf[g[1]] : TRUE]>>
RegistryKey(g) == KeyOf(g)

Register(g) ==
    /\ GoTo(g, "spawned", "mark")
    /\ registry' = [registry EXCEPT ![RegistryKey(g)] = g]
    /\ UNCHANGED <<up, storeVars, requestVars, index, ctx, op, held, clientVars,
                   faults>>

\* UpdateCommandStatusInfo, if the command has a record.
Report(g, from, to, status) ==
    /\ GoTo(g, from, to)
    /\ IF index[g] > 0
          THEN Update(g, g[2], status, index[g])
          ELSE UNCHANGED <<op, faults, disturbed>>
    /\ UNCHANGED <<up, obj, requestVars, index, ctx, registry, held,
                   clientVars>>

MarkHandling(g) == Report(g, "mark", "check", "Handling")

\* The steps that change only where the goroutine is.
Move(g, from, to) ==
    /\ GoTo(g, from, to)
    /\ UNCHANGED <<up, storeVars, requestVars, index, ctx, registry, op, held,
                   clientVars, faults>>

\* The VM's object does not say Running: nothing is run.
CheckVm(g) ==
    \/ obj[g[2]].running /\ Move(g, "check", "connect")
    \/ ~obj[g[2]].running /\ Report(g, "check", "leave", "Failed")

StatusOf(g) == {rec.status : rec \in {c \in obj[g[2]].cmds : c.index = index[g]}}

\* Cancelled: whoever did it may have said so in the record already.
\* Mutant: the goroutine relies on that.
NeverToConfirm(g) == FALSE
ToConfirm(g) == StatusOf(g) \notin {{}, {"Cancelled"}}

\* An error is put down to the state the context has by now.
Fail(g, from) ==
    \/ ctx[g] = "live" /\ Report(g, from, "leave", "Failed")
    \/ ctx[g] = "deadline" /\ Report(g, from, "leave", "Timeout")
    \/ ctx[g] = "cancelled" /\ ToConfirm(g) /\ Report(g, from, "leave", "Cancelled")
    \/ ctx[g] = "cancelled" /\ ~ToConfirm(g) /\ Move(g, from, "leave")

\* Dialling, through the watches the context and has its own limits.
ContextDone(g) == ctx[g] # "live"
Connect(g) ==
    \/ ~ContextDone(g) /\ Move(g, "connect", "handshake")
    \/ Fail(g, "connect")

\* The handshake does not watch the context: it ends when the VM answers.  The
\* host key callback (trust on first use) reads the object of the VM, to put it
\* back with the key if it has none.
Handshake(g) ==
    \/ Fail(g, "handshake")
    \/ obj[g[2]].pinned /\ Move(g, "handshake", "run")
    \/ /\ ~obj[g[2]].pinned
       /\ GoTo(g, "handshake", "pin")
       /\ held' = [held EXCEPT ![g] = obj[g[2]]]
       /\ UNCHANGED <<up, storeVars, requestVars, index, ctx, registry, op, clientVars,
                      faults>>

PinHostKey(g) ==
    /\ GoTo(g, "pin", "run")
    /\ PutObject(g[2], [held[g] EXCEPT !.pinned = TRUE], held[g], FALSE)
    /\ held' = [held EXCEPT ![g] = FreshVm]
    /\ UNCHANGED <<up, requestVars, index, ctx, registry, op, clientVars, faults>>

\* The session ends on the VM's side, well or with an error ...
SessionEnds(g) ==
    \/ Report(g, "run", "leave", "Completed")
    \/ Fail(g, "run")

\* ... or is closed because the context is done.
SessionAborts(g) == ContextDone(g) /\ Fail(g, "run")

\* unregisterCancelFunc deletes the entry under the key, whosever it is.
Unregister(g) ==
    /\ GoTo(g, "leave", "done")
    /\ registry' = [registry EXCEPT ![RegistryKey(g)] = None]
    /\ index' = [index EXCEPT ![g] = 0]
    /\ ctx' = [ctx EXCEPT ![g] = "over"]
    /\ UNCHANGED <<up, storeVars, requestVars, op, held, clientVars, faults>>

-----------------------------------------------------------------------------
(* The calls of the clients. *)

Calls(c) ==
    /\ up
    /\ call[c] = NoCall
    /\ Quiet(c)
    /\ calls < MaxCalls
    /\ calls' = calls + 1

\* The task list shows the first records of a VM only.
Listed(v) == {rec \in obj[v].cmds :
                 Cardinality({c \in obj[v].cmds : c.index < rec.index}) < PageLimit}

RecordKey(rec, v) ==
    <<IF rec.req = None THEN Internal ELSE IdOf[rec.req], NameOf[v]>>

\* RestCancelExecutionTask and CancelMciCommand: first the record ...
CancelCommand(c, v) ==
    /\ Calls(c)
    /\ \E rec \in Listed(v) :
          /\ Update(c, v, "Cancelled", rec.index)
          /\ call' = IF op' = op THEN call
                     ELSE [call EXCEPT ![c] = [kind |-> "cancel", vm |-> v,
                                               key |-> RecordKey(rec, v)]]
    /\ UNCHANGED <<up, obj, requestVars, runVars, held, keysLeft>>

\* Calling a cancel function deletes its entry.
CancelAt(key) ==
    /\ ctx' = [g \in Goroutines |-> IF g = registry[key] /\ ctx[g] = "live"
                                    THEN "cancelled" ELSE ctx[g]]
    /\ registry' = [registry EXCEPT ![key] = None]

\* ... and then the command itself, if its call came from outside.
CancelContext(c) ==
    /\ call[c].kind = "cancel"
    /\ Quiet(c)
    /\ \/ call[c].key[1] = Internal /\ UNCHANGED <<ctx, registry>>
       \/ call[c].key[1] # Internal /\ CancelAt(call[c].key)
    /\ call' = [call EXCEPT ![c] = NoCall]
    /\ UNCHANGED <<up, storeVars, requestVars, index, pc, op, held, keysLeft, calls,
                   faults>>

\* DeleteCommandStatusInfo deletes one record, ClearAllCommandStatusInfo all,
\* DeleteCommandStatusInfoByCriteria those that match.
DeleteRecords(c, v, indices) ==
    /\ Calls(c)
    /\ indices # {}
    /\ Update(c, v, "drop", indices)
    /\ UNCHANGED <<up, obj, requestVars, runVars, held, call, keysLeft>>

\* Everything else that changes the object of a VM, a status request for one,
\* gets it and later puts back what it got.
GetVmObject(c, v) ==
    /\ Calls(c)
    /\ held' = [held EXCEPT ![c] = obj[v]]
    /\ call' = [call EXCEPT ![c] = [kind |-> "status", vm |-> v, key |-> None]]
    /\ UNCHANGED <<up, storeVars, requestVars, runVars, op, keysLeft, faults>>

UpdateVmInfo(c) ==
    /\ call[c].kind = "status"
    /\ PutObject(call[c].vm, held[c], held[c], FALSE)
    /\ held' = [held EXCEPT ![c] = FreshVm]
    /\ call' = [call EXCEPT ![c] = NoCall]
    /\ UNCHANGED <<up, requestVars, runVars, op, keysLeft, calls, faults>>

\* ControlVmAsync with the action terminate: it gets the object, cancels the
\* commands of the VM, found by the end of their keys, and puts the object back.
TerminateVm(c, v) ==
    /\ Calls(c)
    /\ obj[v].running
    /\ held' = [held EXCEPT ![c] = obj[v]]
    /\ keysLeft' = [keysLeft EXCEPT ![c] =
                       {k \in Keys : /\ registry[k] # None
                                     /\ k[2] = NameOf[v] /\ k[1] # Internal}]
    /\ call' = [call EXCEPT ![c] = [kind |-> "terminate", vm |-> v, key |-> None]]
    /\ UNCHANGED <<up, storeVars, requestVars, runVars, op, faults>>

CancelActiveCommand(c, k) ==
    /\ call[c].kind = "terminate"
    /\ Quiet(c)
    /\ k \in keysLeft[c]
    /\ keysLeft' = [keysLeft EXCEPT ![c] = @ \ {k}]
    /\ LET g == registry[k]
       IN  IF g = None
             THEN UNCHANGED <<ctx, registry, op, faults, disturbed>>
             ELSE /\ CancelAt(k)
                  /\ IF index[g] > 0
                        THEN Update(c, g[2], "Cancelled", index[g])
                        ELSE UNCHANGED <<op, faults, disturbed>>
    /\ UNCHANGED <<up, obj, requestVars, index, pc, held, call, calls>>

VmTerminating(c) ==
    /\ call[c].kind = "terminate"
    /\ Quiet(c)
    /\ keysLeft[c] = {}
    /\ PutObject(call[c].vm, [held[c] EXCEPT !.running = FALSE], held[c], FALSE)
    /\ held' = [held EXCEPT ![c] = FreshVm]
    /\ call' = [call EXCEPT ![c] = NoCall]
    /\ UNCHANGED <<up, requestVars, runVars, op, keysLeft, calls, faults>>

-----------------------------------------------------------------------------
(* The server stops, and starts again. *)

Crash ==
    /\ up
    /\ faults < MaxFaults
    /\ faults' = faults + 1
    /\ up' = FALSE
    /\ reqPc' = [r \in Requests |-> IF reqPc[r] \in {"queue", "wait"} THEN "lost" ELSE reqPc[r]]
    /\ pc' = [g \in Goroutines |-> IF pc[g] = "none" /\ reqPc[g[1]] # "queue"
                                   THEN "none" ELSE "done"]
    /\ registry' = [k \in Keys |-> None]
    /\ op' = [p \in Processes |-> Idle]
    /\ held' = [p \in Processes |-> FreshVm]
    /\ call' = [c \in Clients |-> NoCall]
    /\ keysLeft' = [c \in Clients |-> {}]
    /\ todo' = [r \in Requests |-> IF reqPc[r] = "idle" THEN todo[r] ELSE {}]
    /\ index' = [g \in Goroutines |-> 0]
    /\ ctx' = [g \in Goroutines |-> IF pc'[g] = "none" THEN "live" ELSE "over"]
    /\ UNCHANGED <<storeVars, calls>>

\* cleanupVmInterruptedCommands.
Interrupted(rec) ==
    [rec EXCEPT !.status = IF @ \in {"Queued", "Handling"} THEN "Interrupted" ELSE @]

\* CleanupInterruptedCommands, before the API is served; a VM whose update
\* fails for good is skipped (such failures are bounded by the crashes).
Restart(skipped) ==
    /\ ~up
    /\ up' = TRUE
    /\ obj' = [v \in Vms |-> IF v \in skipped THEN obj[v]
                             ELSE [obj[v] EXCEPT !.cmds = {Interrupted(rec) : rec \in @}]]
    /\ disturbed' = disturbed \cup skipped
    /\ UNCHANGED <<requestVars, runVars, op, held, clientVars, faults>>

-----------------------------------------------------------------------------

RequestStep(r) ==
    \/ \E v \in Vms : QueueCommand(r, v)
    \/ StartCommands(r)
    \/ CommandsDone(r)

RunStep(g) ==
    \/ Register(g)
    \/ MarkHandling(g)
    \/ CheckVm(g)
    \/ Connect(g)
    \/ PinHostKey(g)
    \/ SessionAborts(g)
    \/ Unregister(g)

ClientStep(c) ==
    \/ \E v \in Vms :
          \/ CancelCommand(c, v)
          \/ \E indices \in SUBSET Indices(obj[v].cmds) : DeleteRecords(c, v, indices)
          \/ GetVmObject(c, v)
          \/ TerminateVm(c, v)
    \/ CancelContext(c)
    \/ UpdateVmInfo(c)
    \/ \E k \in Keys : CancelActiveCommand(c, k)
    \/ VmTerminating(c)

StoreStep(p) == WriteRecord(p) \/ WriteFails(p)

Next ==
    \/ \E r \in Requests : Request(r) \/ RejectCommand(r) \/ RequestStep(r) \/ Deadline(r)
    \/ \E g \in Goroutines : RunStep(g) \/ Handshake(g) \/ SessionEnds(g)
    \/ \E c \in Clients : ClientStep(c)
    \/ \E p \in Processes : StoreStep(p)
    \/ Crash
    \/ \E skipped \in SUBSET Vms : Restart(skipped)

\* Goroutines run on, deadlines pass and calls to the store return.  A VM
\* answers an SSH handshake, which the code waits for without any limit; that a
\* command on it ever ends is not assumed.
Fairness ==
    /\ \A r \in Requests : WF_vars(RequestStep(r) \/ StoreStep(r)) /\ WF_vars(Deadline(r))
    /\ \A g \in Goroutines : WF_vars(RunStep(g) \/ Handshake(g) \/ StoreStep(g))

Spec == Init /\ [][Next]_vars
FairSpec == Spec /\ Fairness

-----------------------------------------------------------------------------
(* Properties. *)

RunPCs == {"none", "spawned", "mark", "check", "connect", "handshake", "pin", "run",
           "leave", "done"}
Changes == Statuses \cup {"none", "add", "drop"}

StoreType ==
    /\ obj \in [Vms -> Objects]
    /\ disturbed \in SUBSET Vms
ProgressType ==
    /\ up \in BOOLEAN
    /\ reqPc \in [Requests -> {"idle", "queue", "wait", "returned", "rejected", "lost"}]
    /\ todo \in [Requests -> SUBSET Vms]
    /\ index \in [Goroutines -> Nat]
    /\ pc \in [Goroutines -> RunPCs]
    /\ ctx \in [Goroutines -> {"live", "cancelled", "deadline", "over"}]
    /\ registry \in [Keys -> Goroutines \cup {None}]
UpdateType ==
    /\ DOMAIN op = Processes
    /\ \A p \in Processes :
          /\ op[p].vm \in Vms \cup {None}
          /\ op[p].change \in Changes
          /\ op[p].got \in Objects
          /\ op[p].tries \in Nat
    /\ held \in [Processes -> Objects]
CallType ==
    /\ \A c \in Clients : call[c].kind \in {"none", "cancel", "status", "terminate"}
    /\ keysLeft \in [Clients -> SUBSET Keys]
    /\ calls \in Nat /\ faults \in Nat

TypeOK == StoreType /\ ProgressType /\ UpdateType /\ CallType

\* No two records of a VM have the same index, which every update, cancellation
\* and deletion goes by, although additions and deletions overlap.
IndicesUnique ==
    \A v \in Vms : \A a, b \in obj[v].cmds : a.index = b.index => a = b

\* A command that runs, and has a request id no other call uses, can be
\* cancelled: its own cancel function is registered, unless its context is done.
Ended(g) == pc[g] \in {"none", "spawned", "done"}
Cancellable ==
    \A g \in Goroutines :
        /\ ~Ended(g)
        /\ ctx[g] = "live"
        /\ \A h \in Goroutines : KeyOf(h) = KeyOf(g) => h = g
        => registry[KeyOf(g)] = g

\* What a command left in its record when it was over, or the server stopped, is
\* how it ended, unless the request was rejected half-way or an update of the
\* VM's object was lost or given up.
EndedIsTerminal ==
    \A v \in Vms \ disturbed : \A rec \in {c \in obj[v].cmds : c.req # None} :
        up /\ reqPc[rec.req] \notin {"rejected", "queue"} /\ pc[<<rec.req, v>>] = "done"
            => rec.status \in Terminal

\* Every request returns, at the latest some time after its deadline, however
\* long its commands would take and whatever the clients do meanwhile.
RequestReturns == \A r \in Requests : (reqPc[r] = "wait") ~> (reqPc[r] # "wait")

-----------------------------------------------------------------------------
(* What the comments say, and the program does not keep. *)

\* "Use the same mutex as UpdateVmInfo for consistency": no mutex is used, and
\* even a termination that nothing overlaps with undoes the records it made.
NoUpdateIsLost == disturbed = {}

\* "isTerminalStatus returns true if the status represents a terminal
\* (finished) state": finished commands do not start again.
FinishedStaysFinished ==
    [][\A v \in Vms : \A a \in obj[v].cmds, b \in obj'[v].cmds :
          a.index = b.index /\ a.req = b.req /\ a.status \in Terminal
              => b.status \in Terminal]_vars
=============================================================================
