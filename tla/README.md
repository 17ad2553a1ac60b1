# A verification project for CB-Tumblebug

CB-Tumblebug manages multi-cloud infrastructure: it turns requests for
groups of virtual machines (MCIs, made of subgroups and VMs) and their
resources into calls of CB-Spider, which talks to the cloud providers (CSPs), and
keeps what it knows of every object as a JSON record in a key-value store
(etcd). This directory holds TLA+ models of its core logic, TLC configurations that
check them on small instances, and theorems that TLAPS proves for every value of the
constants.

Source paths are those of the repository (`src/core/...`; the map in `PROJECT.json`
gives the lines of every definition).

## 1. The system

There is one server process. Every REST request is a goroutine, most requests
start more (one per VM), and the scheduler and the orchestration controller run
goroutines of their own. What they share:

- the **key-value store**. A `Get` or a `Put` is atomic, a read followed by a
  write is not. Almost every operation reads a record, works for a while (often
  calling the CSP), and writes the whole record back;
- a few **maps in memory**: the jobs of the scheduler, `holdingMciMap`, the
  response cache, the circuit breakers and the request counters of the HTTP client,
  the cancel functions of remote commands;
- the **CSPs**, which are asynchronous, report odd statuses on the way, and can fail.

| Component | Source | State it keeps | Operations | What makes it correct | Model |
|---|---|---|---|---|---|
| Job scheduler | `core/infra/scheduler.go` | jobs in memory, `/scheduledJob/<id>` records, ticker, context and result channel per job | create, stop, stop all, update, pause, resume, periodic execution, recovery at start | counters and flags agree in every copy; a paused job stops; executions and goroutines end; a record that is gone stays gone | `Scheduler`, `JobRuns` |
| VM lifecycle | `core/infra/control.go`, `manageInfo.go`, `provisioning.go` | one record per VM: Status, TargetStatus, TargetAction, names, address | create, control (suspend, resume, reboot, terminate), status polling, delete | a status that is final is true; Terminated is final; resources in use stay attached; statuses settle | `VmLifecycle`, `StatusRules` |
| MCI control, status, deletion | same files | one record per MCI with the same three fields | control of all VMs or of one, aggregated status with a recovery path, refine, delete | one action at a time, which always ends; no VM is forgotten at the CSP | `MciControl` |
| MCI creation | `core/infra/provisioning.go` | MCI and VM records, `holdingMciMap` | dynamic and plain creation, hold, continue, withdraw, failure policies | each VM is made once; creation ends and is never left under way; the policy is carried out | `MciCreation` |
| Subgroup scale-out | `provisioning.go` | subgroup record with its size | add VMs | VM names are unique | no |
| Resources of dynamic requests | `provisioning.go` | shared vNet, key, security group | make, wait, roll back | only what this request made is rolled back | one step of `MciCreation` |
| HTTP client | `core/common/client/client.go` | response cache, counters and circuit breakers per request key | `ExecuteHttpRequest` | slots are counted right and never block a key for good; the breaker counts real failures; calls return | `HttpClient`; its cache as far as VMs see it in `VmLifecycle` |
| Remote command | `core/infra/remoteCommand.go` | command records inside the VM object, cancel functions | run, cancel, list, delete, terminate, clean up at start | indices are unique, what runs can be cancelled, what is over has a final record, requests return | `RemoteCommand` |
| Networks | `core/resource/{vnet,subnet}.go` | records of vNets and subnets with a status, and a list of the subnets in the vNet's record | create, register, delete, deregister, refine | no network is lost, what is shown as usable is there, the lists are right | `Networks` |
| Resource registry | `core/resource/common.go` | associated-object lists | associate, delete, list | a resource knows who uses it | as far as vNets (`Networks`) and one VM (`VmLifecycle`) need it |
| Policy orchestration | `core/infra/orchestration.go` | policies with a status and measurements | controller loop, create and delete policies | an action has evidence of its own, a policy does not get stuck | `Orchestration` |
| Security groups | `core/resource/securitygroup.go` | firewall rules | compare and apply the difference | the rules end up as wanted | no |
| Key-value store | `kvstore/*` | etcd | get, put, list, delete | atomic single-key calls | as calls, in every model |
| Other resources, images and specs, clusters, labels, namespaces, history, monitoring, interfaces, server start | see `PROJECT.json` | records | calls and conversions | | not modelled |

**How they interact.** A dynamic creation prepares resources, then calls `CreateMci`,
which makes VM records, has every VM created by a goroutine that fetches its
status and writes the record again, and finally fetches the status of the MCI.
`ControlMciAsync` records an action in the MCI, runs `ControlVmAsync` for each VM
and clears the action. Any status request calls `FetchVmStatus` for every VM, which
*writes* the VM records, and `GetMciStatus` may write the MCI record (the recovery
path). Deletion and refining read a status, and delete records. None of these takes
a lock that covers more than one `UpdateVmInfo` or `UpdateMciInfo`.

**What is hard** is therefore mostly one thing in many forms: state that is read,
acted upon after a slow call, and written back whole. The other forms are crashes of
the server between an action and its record (scheduler), calls that fail after they
were carried out, timeouts that leave the work running, flags polled by
another goroutine (hold), and actions that have to end although one of their steps
may fail. `PROJECT.json` lists the hazards at their lines.

## 2. Plan

The order followed the importance of the behaviour; everything listed is there unless it
says otherwise.

1. `Scheduler`, `SchedulerProofs`; `JobRuns`, the service the scheduler gives its clients,
   and the refinement that shows it does.
2. `StatusRules` (pure rules, shared), `VmLifecycle`, `VmLifecycleProofs`.
3. `MciControl`, `MciControlProofs`.
4. `MciCreation`, `MciCreationProofs`.
5. `RemoteCommand`, `RemoteCommandProofs`.
6. `HttpClient`, `HttpClientProofs`.
7. `Orchestration`, `OrchestrationProofs`.
8. `Networks`, `NetworksProofs`.

Section 14 says what was left out and why.

Each model gets one run in which everything holds, and one for a disagreement with what
the repository says where there is one. Runs are merged when they ask the same question.
Proofs follow the models: type correctness first, then the invariants whose
violation would lose a VM or block an MCI.

## 3. The scheduler (`Scheduler`, `SchedulerProofs`)

`scheduler.go` runs one goroutine per job. It ticks, and `execute()` saves the job,
starts a task goroutine with a deadline, waits for its result or the context, updates
the counters under the job's lock, and saves again. The API runs under `sm.mu`.

| In the model | In the code |
|---|---|
| `job`, `snap`, `store`/`stored` | the object, what `saveJobToStore` read without the job's lock, the record |
| `pc` | where `start()`, the select loop and `execute()` are |
| `ticker`, `tick`, `cancelled` | `job.ticker`, a tick waiting in it, `job.ctx` |
| `tasks`, `result`, `timedOut` | task goroutines, `resultChan`, the execution's deadline |
| `stopQueue`, `halted` | deletions under way, which hold `sm.mu` |
| `created`, `deleted`, `sincePause` | histories |

A crash may come between any two steps; store calls may fail, or fail after having
been applied. API calls are one step except deletion, the only one whose steps the
job's goroutine can fall between.

`JobRuns` is what clients may rely on, in six variables and without goroutines, ticks,
records or retries: executions of a job do not overlap, each ends as a success or
a failure, a series of as many failures as the limit disables the job just when it is
complete, and at most one execution begins after a job was disabled. `RunsAsPromised`
is the refinement: `enabled`, the counters and `sincePause` come from the job, an execution
is running while the goroutine is between `ExecuteBegin` and its result, and
everything else (saving, waiting, the tasks themselves) stutters.

Not modelled: the work of a task (registering CSP resources), intervals as numbers,
formatting, listing.

## 4. One VM (`StatusRules`, `VmLifecycle`, `VmLifecycleProofs`)

`StatusRules` has the pure rules: what an action records (`Intent`), how
`FetchVmStatus` corrects what the CSP says on the way to a target (`Corrected`,
`Refreshed`), when it need not ask (`NeedNotAsk`), which actions are allowed, when
`GetMciStatus` takes an action for over (`Done`), and after which VM status an MCI is
named (`Dominant`).

`VmLifecycle` has one VM, its creator, controllers and pollers, at the granularity of
single store calls: `FetchVmStatus` reads the record three times and then goes
through `UpdateVmInfo`, whose mutex covers its own look at the store and its write
only. `want` is the record a goroutine is about to write, `obj` the one it started
from. `csp`, `cspIp` and `cache` are the outside: the VM at the CSP, its address, and
the answers the HTTP client still has cached (controls other than terminate are GETs,
so a repeated one may be answered from the cache). `Scope` says what the environment
does: creation, force, deletion, caching, overlapping requests.

Not modelled: the installation of the monitoring agent and post commands, labels
except that the call may fail, other fields of the record.

## 5. Requests on an MCI (`MciControl`, `MciControlProofs`)

Every client serves one request at a time; a request is a list of *stages* (`pc` and
`rest`), as the Go functions call each other: `PlanOf` gives the list of a request,
`Then` puts the stages of a function it calls before what is left of it. For example
`DelMci` with option terminate expands into a status, refining and termination, and
termination into the stages of `ControlMciAsync`.

| Stage | Code |
|---|---|
| status, try, fetch | `GetMciStatus`; "try" where the caller ignores its error |
| guard, launch | the two tests of `ControlMciAsync`, and recording the action |
| select, run, complete | `ControlVmsInParallel`, its goroutines, and the clearing of the action |
| vmGuard, runOne | `HandleMciVmAction` |
| refine, purge, reread, rewrite | `HandleMciAction`, refine |
| advance, terminate, check, dropAll, dropMci, dropVm | `DelMci`, `DelMciVm` |

`at` says where the goroutine of each VM is, `seen` and `read` are what the request
has read and may use later. `FetchVmStatus` and the recording of a VM's action are one
step here (their interleavings are `VmLifecycle`'s). The semaphores of
`ControlVmsInParallel` only restrict the orders of VMs, and any order is allowed here;
the counts of VMs by status in the record are left out.

## 6. Creation of an MCI (`MciCreation`, `MciCreationProofs`)

`CreateMciDynamic` and `CreateMci` for one MCI name: the check, the record, preparation of resources
(one step that may fail), the hold, VM objects in parallel, VMs in parallel, completion and
the final status; pollers run `GetMciStatus` next to it, clients answer the hold. `made`
counts how often the CSP was made to create a VM. A VM's creation is two steps here (the POST,
and the rest); `VmLifecycle` has what happens in between.

`createVmObjectSafe` collects an error while it holds `errorMu`, by a call that locks
`errorMu` again; the model has that goroutine wait for ever (place "stuck").

Not modelled: deletion of the MCI while it is being created (in the code it would leave
goroutines waiting and VMs unknown), which resources are prepared, the number of
goroutines allowed at once, remote commands after creation.

## 7. Remote commands (`RemoteCommand`, `RemoteCommandProofs`)

`RemoteCommandToMci` queues a record on every VM, starts a goroutine per VM, and waits.
The records are part of the VM's object, which is changed by reading it and putting it
back whole: `op` is a record update under way (`updateVmCommandStatusSafe`, with its
retries), `held` the object of everything else that does so (a status request,
termination, pinning the host key). `registry` is `cancelFuncs`, `ctx` the context of a
goroutine's command, `disturbed` the VMs on which an update was lost or given up.

Simplifications: listing the tasks and the first read of a cancellation are one step; a
`Range` over the registry visits the entries there were at its start; a failure of a
whole-object write by something else than a command is left out; the test of the context and
the report of a failure are one step; a VM with records of earlier commands has its
host key pinned. A handshake is assumed to be answered some time (it has no limit in
the code). Not modelled: assigning a bastion (which races in the same way),
resetting a host key, file transfer, and output.

## 8. The HTTP client (`HttpClient`, `HttpClientProofs`)

`ExecuteHttpRequest` for the GETs of one request key; keys share nothing. Every `Load` and
`Store` of the three sync.Maps is a step, and what was loaded is kept in `got` and `seen`
until it is stored, changed. `raced` becomes true when a count is stored over one that
another caller stored meanwhile, or when a caller releases a slot it does not have (a
waiter that finds an answer in the cache does). The count is then wrong, and more
requests than the limit may run; `FullMeansInUse` holds all the same.

Locals are forgotten where the code has no use for them any more. Not modelled: two
answer types under one key, methods other than GET, which use none of the maps.

## 9. Orchestration (`Orchestration`, `OrchestrationProofs`)

One MCI with its policy object; `cur` and `index` are the controller's `mciPolicyTmp` and
`policyIndex`, `pc`/`after` the place where it is and where it goes on after
`UpdateMciPolicyInfo`. Clients delete and create policies, the MCI and VMs at any time.
The histories say what the properties need to except: `evidence` (measurements since
the last action was done), `cut` (handling cut short by a failing measurement or a
crash), `touched` and `disturbed` (the controller's copy went over a client's change).

Simplifications: averages are compared as integers (sum against operand times period); a
measurement and the creation of VMs are one step each; `CreateMciPolicy` tests
and puts in one step; `evaluationValue` supplied by a client is taken to be empty; an
unlabelled VM may or may not be found by scale-in, which asks for the label *key* that
scale-out sets as a *value* (`orchestration.go:302`, `:238`). `ListMciPolicyId` skips
MCIs whose id contains "vm"; such an MCI never gets a turn and is not modelled.

## 10. Networks (`Networks`, `NetworksProofs`)

One vNet and its subnets. `vnet` and `subnets` are the records, `vpcs` and `parts` what
CB-Spider has, `req` the requests with their local copies. A request goes through the
functions as they are written: `CreateVNet` and `RegisterVNet` differ in where they learn the
subnets and in the order of their writes, `DeleteVNet`, `DeleteSubnet`, `RefineVNet` and
`RefineSubnet` share `nextSubnet` (subnets one by one, then the vNet), deregistration takes the
steps of deletion. `UpdateAssociatedObjectList` is `ReadForVm` and `PutVms`.

| Place | Code |
|---|---|
| putVNet, postVNet, cleanVNet, saveVNet, saveSubnets | `CreateVNet`, `RegisterVNet` and their deferred clean-up |
| putSubnet, postSubnet, cleanSubnet, saveSubnet, addToVNet | `CreateSubnet`, `RegisterSubnet` |
| nextSubnet, markSubnet, deletePart, dropSubnet, removeFromVNet | `DeleteSubnet`, `DeregisterSubnet` |
| readVNet, markVNet, deleteVpc, dropVNet | `DeleteVNet`, `DeregisterVNet` |
| getVNet, getSubnet, dropSubnets | `RefineVNet`, `RefineSubnet` |
| putVms | `UpdateAssociatedObjectList` |

Simplifications: the two reads of `CreateSubnet` and `DeleteSubnet`, both trials of a
DELETE, and a clean-up are one step each; Registering and Deregistering are the
statuses Configuring and Deleting; the GETs after a DELETE change nothing and are left out, as is
the response cache; a subnet in use by VMs is a refusal that may come at any time; every subnet id has
an address range of its own, so that `ValidateSubnetReq` refuses exactly the ids in the list;
Spider may refuse whatever it is asked.

`MayClash` FALSE means that two requests are not about the same subnet, the same VM, or one
of them the whole vNet, at the same time. *The code does not see to that.* With TRUE, TLC refutes
what `NothingLost` and `UsableIsThere` say under the condition `~MayClash`: the clean-up of a creation that failed deletes the
record another creation of the same id has just made (`subnet.go:335`). What the run does
cover are requests about different subnets, all of which write the vNet's record.

## 11. What the runs check

The instances are small, yet every action and every disjunct of every next-state
relation occurs in them, and every property has a mutant of the code that violates it
under the same configuration.

| Run | Instance | Shows |
|---|---|---|
| `scheduler_core` | 1 job, 2 executions, limit 2, 1 crash, 1 store fault | types; `ExecutionsAccounted`, `PauseTakesEffect`, `StrayTasksAreFailures`, `ExecutingIsLive`, `GoneForGood`; `DeletionEndsLoop`, `ExecutionEnds` under fairness; the refinement `RunsAsPromised` |
| `scheduler_resume` | 1 job, 1 execution, limit 1 | a resumed job has no ticker: `EnabledIsScheduled` fails |
| `vm_core` | creation, 1 control, deletion, cache, 1 fault, overlapping | `InUseStaysAttached`, `NeverFalselyTerminated` |
| `vm_calm` | creation, 3 requests one after the other, a poller | `SuspendedIsStable`, `TerminatedMeansGone`, `RebootIsExecuted`, `Settles` |
| `mci_core` | 2 VMs, 2 requests of any kind at once | types; `NoOrphanAction`, `NoVmIsForgotten`, `RecoveryIsRight` |
| `mci_overlap` | 2 controls, not forced | both pass the guard: `OneActionAtATime` fails |
| `create_core` | 2 VMs, 2 creations, 1 poller, hold, 2 faults | types; `NoDuplicateVm`, `NoEndlessCreate`, `RecoveryWaits`, `CreationEnds` |
| `create_rollback` | policy rollback, 1 fault | `RollbackOnFailure` fails |
| `command_core` | 1 request for 2 VMs, 1 client call, 1 fault or crash | types; `IndicesUnique`, `Cancellable`, `EndedIsTerminal`, `RequestReturns` |
| `http_core` | 2 callers, limits 2, 4 failures | `SlotsMatch`, `FullMeansInUse`, `BreakerEarned`, `CallReturns` |
| `orchestration_core` | 2 policies, periods 2 and 1, 1 VM, 1 fault | `EvidenceFirst`, `StuckIsExplained`, `ReadyAgain` |
| `networks_core` | 2 requests, 2 subnets, 3 names, 1 VM, 1 fault | types; `NothingLost`, `UsableIsThere`, `ListIsRight` |

The type invariants of `VmLifecycle`, `HttpClient` and `Orchestration` are proved and
therefore not checked in a run again; likewise `AutoDisableConsistent` of `Scheduler`.

**Bounds.** *Scheduler*: jobs share only the manager's lock and the test for
duplicates, so one job shows all of a job's interleavings; the
limit is reached and reset with two executions; a crash followed by recovery
is the longest history the counters depend on (a second crash repeats the first from
a record of the same kind). *VM*: two addresses make a change of address visible; one
controller is the most the busy scope allows in reasonable time, which is why its two
invariants are also proved; three requests in a row cover suspend, resume and
terminate. *MCI*: with two VMs a status can be partial, an action can be done for one and not
for the other; two requests are the least that race, and the refutations
below need no more. *Creation*: two faults are what it takes for all of two VMs to
fail; two creators give a second request during and after the first; a poller is idle
again after each request, so it polls any number of times. *Commands*: one request is
for two VMs, so that goroutines share a context and an index may clash with the
record an earlier command left; a client call of each kind meets it at every point. *HTTP*:
two callers are what a lost update takes, and they call without bound; only failures
are bounded, at twice the threshold. *Orchestration*: one policy needs two measurements and
the other one, so that windows fill, are trimmed and cleared; one VM makes the average over
none possible; ticks are not bounded. *Networks*: two requests overlap, a subnet is
made and another one deleted at the same time, and requests follow each other without
bound, as names that are not in use any more can be used again; with a second fault
a vNet may also be left *Available* after its network is gone (`RefineSubnet` puts
a status back that a lost deletion had changed), so `UsableIsThere` claims a vNet only when
it is InUse.

Without "overlap" in Scope, requests of `MciControl` that refine (and rewrite the
record) run alone, and those of `VmLifecycle` wait for each other; without "race"
the checks of two creations in `MciCreation` do not coincide. The settings in which
they do are those of section 13.

**Deadlock** is not checked where the system may come to rest when clients stop asking
(scheduler, VMs, MCIs, commands); the HTTP client, the orchestration and the networks never
do, and it is checked there.

**Fairness.** Goroutines that can run do (the Go scheduler). `ExecuteHttpRequest` has a
timeout, so every call to the CSP returns. A deadline passes. `select` chooses
at random among ready cases, so an exit case that is ready again and again is taken,
which is the only strong fairness (`LoopExit`). In `VmLifecycle` the CSP finishes what it
accepted, cached answers expire, and clients keep polling, since nothing in the
server polls by itself: without that no status would settle. In `MciCreation` whoever
asked for a hold answers it some time, which the code leaves to its users (its own
loop waits for ever). In `RemoteCommand` goroutines, store calls and deadlines go on and a handshake
is answered; that a command ends is not assumed. In `HttpClient` a request comes back and a sleep
ends; in `Orchestration` the ticker ticks and calls return. Nothing is assumed of scheduler
tasks (they may never end), of the scheduler's ticks, or of requests.

## 12. What is proved

All theorems hold for any number of jobs, goroutines, VMs, requests, executions, crashes and faults.

*SchedulerProofs.* `TypeCorrect`: a key is only written for a job that was created,
which needs to know that only those have a goroutine, and that nothing runs before the
records are loaded (`TypeInv`). `StreakCorrect` (`AutoDisableConsistent`) is inductive
together with types: the three copies are only copied into each other, and
`RecordFailure` and `RecordSuccess` keep the relation. `AccountCorrect`
(`ExecutionsAccounted`) needs `AccountInv`: the snapshot is balanced, too, and a record
about to be recovered misses at most one execution for each crash so far. `PauseCorrect`
(`PauseTakesEffect`): an execution the loop has decided on and not begun is the one that
may still begin, otherwise the count is zero while the job is enabled (`PauseInv`).
`ExecutingCorrect` (`ExecutingIsLive`). `StrayCorrect` (`StrayTasksAreFailures`): the tasks of a job
are finitely many, those not waited for are at most the failures, and the task that has put its
result into the channel is not running any more (`StrayInv`), so the waiter that takes the result
leaves no stray behind. `GoneCorrect` (`GoneForGood`): a deleted job is in the map again only if
it was recovered from the record its deletion left, and that is still there (`FoundIsStored`).
`RunsCorrect` (`RunsAsPromised`) is the
refinement: initial states map to initial states, and each step of the scheduler is, for every
job, one of the steps of `JobRuns` or none (one lemma per action), under the conjunction
of the four invariants above; `AccountInv` tells which step a result is, `PauseInv` that an
execution begun while disabled is the one that is allowed, and `AutoDisableConsistent` that the
test against the limit disables the job just once per series.

*VmLifecycleProofs.* `TypeCorrect`, with the fact that only the holder of the mutex is
inside `UpdateVmInfo`. `OnlyOnRequest` (`NeverFalselyTerminated`) and `ListsComplete`
(`InUseStaysAttached`) share the invariant `Safe`. Its parts: a record with a name means that
the VM was made (`Made`); before termination is asked for, neither the record nor any
copy of it in a goroutine, nor what was read, cached or returned, says Terminated
or has the action Terminate, and the VM is not on its way down (`Unasked`); a controller
past an accepted terminate call means that the VM is on its way down, and as long as the
object was not deleted it is attached, on its way down, or not yet named anywhere
(`Listed`). `RebootReaches` (`RebootIsExecuted`, assuming `"cache" \notin Scope`): no answer is
cached, ever (`NoneCached`), and only the call itself gets a controller from there to fetching
(`OnlyTheCallMoves`). Two more hold under conditions that TLC shows to be needed.
`TerminatedCorrect` (`TerminatedMeansGone`, for `Smooth`: no call fails, and forced requests do
not overlap with the creation): a name that was recorded is not lost again, so whatever is
saved was concluded from an answer of the CSP, and an unknown VM is one that is gone (`Sure`).
Where forced requests may overlap with the creation, one that met the record before it had a name writes that back;
`CreateVm` does not ask the CSP then, and takes the VM for terminated when somebody else
has asked for that in the meantime. `SuspendedCorrect` (`SuspendedIsStable`, for `Steady`: no call fails, and Scope is
within {"create", "delete"}): one goroutine at a time is under way, and except between recording
an action and the call, record and VM fit together (`Tells`, `Calm`). Any of "force",
"cache", "overlap" or one fault refutes it.

*MciControlProofs.* `TypeCorrect` and `NoActionOrphaned` (`NoOrphanAction`, assuming
that requests that refine do not overlap with others). A job is described by what
can follow what in its list of stages (`Linked`: a launch is followed by select,
run and complete, a record is rewritten only right after it is reread; `OnlyRefiners`).
Lemmas show that prepending a plan and going on to the next stage keep this; one lemma
per action then says that the step is a `Move` (the same request, an action under way
is carried on) that records no new action, with four exceptions: recording an action
goes on to select, completing clears the action, rereading reads no action because nobody else
is at work, and a new request begins. `NothingForgotten` (`NoVmIsForgotten`, for `Unforced`: no force, no
failing call; requests may overlap as they like) rests on `SureInv`: a record does not say that its VM
is over before it is (`VmSure`), what a request has seen of a VM that is over or has marked to
be dropped is lost and stays so (`Known`, `Ahead`), and before VMs are dropped it has
seen all that are listed (`KnownAt`, along the order of the stages, `Chain`). That a
status that is not partial is that of every VM (`DominantOfAll`) is why `DelMci` may
go on; it needs an MCI of finitely many VMs (`MciAssumption`).

*MciCreationProofs.* `TypeCorrect`; `OneVmEach` (`NoDuplicateVm`), `CreationIsOver`
(`NoEndlessCreate`) and `RecoveryCorrect` (`RecoveryWaits`), these three assuming that checks do
not race (`"race" \notin Scope`). They share `CreationInv`: at most one creation is
between its check and the end of its work, and the MCI is there meanwhile (`Alone`);
what a creation at each place has done for each VM (`Placed`, `Erring`); what a status
request knows: a VM it saw as absent or fresh has not been asked for when it read
(`Knowledge`); and after a creation returned no copy of the record has the action
Create (`Over`).

*RemoteCommandProofs.* `TypeCorrect` and `IndicesCorrect` (`IndicesUnique`) need that *every* copy of
an object, stored, about to be put or got, is good: its indices are distinct and one is
the highest (`CommandInv`), as an old copy may be put back at any time. That there
is a highest one rests on the assumption that the records of earlier commands are finitely many
(`PastAssumption`) and on the well-foundedness of the order on naturals. `CancellableCorrect`
(`Cancellable`): a function is only removed by its owner, by a cancellation that ends its
context, or by a start of the server, which ends them all. `EndedCorrect` (`EndedIsTerminal`): every
goroutine's record is there under its index until it reports, the report it is about to make as it
leaves is a final one, and nothing but a lost update (`disturbed`) undoes that
(`EndInv`). It assumes that processes of different kinds are different
(`ProcessAssumption`) and that earlier commands are told apart by their indices and belong to no request at hand
(`PastAssumption`).

*HttpClientProofs.* `TypeCorrect` with `Locals` (a count about to be stored was below the
limit, or above zero). `SlotsCorrect` and `FullCorrect` count the callers that hold a slot
(`Holders`): a step leaves that set alone, adds its caller or removes it, and the count follows
unless there was a race. `BreakerCorrect`: no copy of the breaker, stored or held, counts
more failures than there were, less those not yet recorded (`Pending`).

*OrchestrationProofs.* `TypeCorrect`, `EvidenceCorrect` (`EvidenceFirst`) and `StuckCorrect`
(`StuckIsExplained`) from one invariant: the status of the policy in hand tells where the controller
is (`Place`); in the store and in the controller's copy, unless disturbed, a policy that is Checking or
Operating is cut short or in hand (`Explained`), and its measurements were made for it
(`Earned`: a window is no longer than the evidence, and Detected means that it meets the
condition) (`StoreInv`, `CopyInv`). Steps of the controller come in few shapes (saving the
copy, changing the record in hand, working outside), with a lemma for each.

*NetworksProofs.* `TypeCorrect`, with what a request has in its hands at each place (`Shape`).
`NamesKept` (`NothingLost`) and `UsableStays` (`UsableIsThere`) are trivial for `MayClash` TRUE, where
they say nothing; otherwise requests under way are about different things (`AsOne`), and
one about the whole vNet is alone. `NamesInv` says that Spider's names are unique and a recorded name
belongs to its subnet (`SpiderSound`); that a recorded subnet is one of the recorded vNet, or
losing its record loses nothing (`Tied`); that everything is found by its record, by a request
or is among the lost (`Found`); and what a request knows of the records at each place (`HandOf`), for instance that
the record it is about to delete is of a network that is gone. One lemma per action shows that it
keeps all that for its own request, and, if it is about one subnet or VM, that it touches only
what belongs to it (`StepAt`), which leaves the hands of the others as they were
(`HandsApart`): that is why stale copies of the vNet's record do no harm to names. `UseInv`
adds the statuses: what is being deleted is marked before Spider is asked. `ListAgrees`
(`ListIsRight`, for both values of `MayClash`) follows requests that come one after the other
(`ListInv`): between them the list is that of the records (`Resting`), and at each place the copy of
the vNet's record in hand lists what the request has yet to do or undo (`ListHand`).

**Only model-checked**: all liveness properties (`DeletionEndsLoop`, `ExecutionEnds`,
`Settles`, `CreationEnds`, `RequestReturns`, `CallReturns`, `ReadyAgain`), which the prover does not
reach; and `RecoveryIsRight`, which is about two requests only. After a third it is wrong: a
status request that read the action Resume, and saw all VMs Running, may finish when a
later action has been recorded, and clears that one while a VM is still to be asked for. With two
requests the cases are few, and TLC has all of them; an inductive invariant would be a list of them.

## 13. Where the code departs from what it says, or from what one would wish

Three departures are runs of their own (`findings` in `PROJECT.json`):

- resuming a job that its failures have disabled does not start its ticker again;
- `ControlMciAsync` tests for an action under way and records its own in separate
  steps, so two actions run at once;
- the policies for partial failures are never consulted for VMs that fail: `createErrors`
  is emptied after the VM objects, and errors of `CreateVm` are not added to it.

The modules state more properties that TLC refutes; the settings are given so that
anybody can repeat it.

| Property | Module, setting | What happens |
|---|---|---|
| `DeletedStaysDeleted` | `Scheduler`, 1 job, no faults | a deletion falls between the reading and the saving of an execution; the Put brings the record back |
| `OneTaskAtATime` | `Scheduler`, 1 job | after a timeout the task goes on next to that of the next execution |
| `PausePersisted` | `Scheduler`, 1 job | a snapshot taken before a pause is put after it |
| `InterruptedCountsAsFailed` | `Scheduler`, 1 crash | an execution cut off by a crash is not counted as failed |
| `NoDuplicateConfig` | `Scheduler`, 2 jobs, crash and fault | a Put that fails but was applied leaves a record that a restart loads next to the job made meanwhile |
| `Settles` | `VmLifecycle`, Scope {"overlap"}, 1 controller, 1 poller, 1 request, no faults | a status request that read the record before a control and writes it after loses the action; the passing statuses of the CSP are no longer corrected, and a rebooted VM shows Suspended for good |
| `TerminatedIsFinal` | `VmLifecycle`, {"overlap"}, 2 pollers, 1 request | the third read and the write are separate steps |
| `DeletedStaysDeleted` | `VmLifecycle`, {"overlap", "delete"} | a Put follows the Delete, which takes no mutex |
| `RebootIsExecuted` | `VmLifecycle` with "cache" | a second reboot is answered from the cache |
| `SuspendedIsStable` | `VmLifecycle`, {"overlap"}, 2 requests | a late poll writes Suspended over a resumption |
| `FailedMeansNoVm` | `VmLifecycle`, {"create", "force", "overlap"}, 1 fault | a failing call for the address makes a VM Failed that is there |
| `NoOrphanAction` | `MciControl`, {"overlap"} | refining writes an action back that has ended meanwhile; all later requests are refused until a status request finds all VMs there |
| `RecoveryIsRight`, without `requests <= 2` | `MciControl`, 3 requests (status, two controls) | the recovery path clears a later action than the one it read, while a VM is yet to be called for |
| `TerminatedMeansGone` | `VmLifecycle`, {"create", "force", "overlap"}, 2 controllers | a forced request writes the unnamed record back over the named one, see section 12 |
| `NoVmIsForgotten`, `RecoveryIsRight` | `MciControl`, 1 fault | one failing call makes a VM Undefined: refining drops it, the recovery path skips it |
| `CreationEnds` | `MciCreation` with "object" | the goroutine that locks `errorMu` twice |
| `NoDuplicateVm` | `MciCreation` with "race" | two requests pass the check for the same name |
| `NoUpdateIsLost` | `RemoteCommand`, no faults | a termination, or a status request, puts back the object it got and undoes the command records made meanwhile |
| `FinishedStaysFinished` | `RemoteCommand`, as in `command_core` | a cancellation is recorded for a command that then reports Completed or Handling |
| `NothingLost`, `UsableIsThere`, without their condition | `Networks`, `MayClash` TRUE | the clean-up of one creation deletes the record of another of the same id |

Further things met while reading, which the models reproduce:

- The recovery path ends a Reboot at once, as its VMs are Running before it begins.
- `CheckAllowedTransition` compares the status of an MCI, which has the form
  "Running:2 (R:2/2)", so its test for a repeated action never applies to an MCI.
- `DelMciVm` without force refuses a VM that is Terminated already.
- If `GetMciStatus` fails, `DelMci` skips its check of the status.
- The recovery path ends a creation early if the poller listed the VMs before all objects existed.
- A dynamic creation that fails to prepare leaves an MCI that is Failed, under the action Create.
- Some errors of `CreateVm` (looking up the image) leave the VM Creating.
- An answer to a hold that comes before the entry is made is lost.
- The last write of `CreateMci` clears an action that a control has recorded meanwhile.
- `RefineVNet` and `RefineSubnet` delete records on *any* failing GET; the comment at
  `vnet.go:1128` promises it for networks that are gone. `lost` has the networks this hides.
- After an overlap the list of subnets in the vNet's record differs from the subnets'
  own records, which are what deletion goes by, so nothing is lost by it; but
  `CreateSubnet` validates address ranges against the list.
- The controller's failed action is saved as Failed and at once overwritten by Stabilizing.
- The waiter of the HTTP client releases a slot it never took (`client.go:389`).

## 14. Not modelled

Subgroup scale-out names VMs after a size that is read and written back; the race is one of two
reads and two writes, listed as a hazard, and what follows is `CreateVm`, which
`VmLifecycle` has. The resources of a dynamic request are one step of `MciCreation` that may
fail. The difference of firewall rules is one of sets, its difficulty the formats of ports
and addresses. `VmLifecycle` and `MciControl` are not composed: what the one takes for a step
the other takes apart, and their product is out of TLC's reach. Kubernetes clusters repeat the hold of MCIs. The other
resources, images and specs, load balancers, snapshots, labels, namespaces and
configuration are single calls and conversions without state between them; monitoring,
benchmarks, recommendation and the provisioning history compute numbers on which no state depends;
the REST and MCP interfaces bind and format. `docs.go`, a quarter of the lines, is generated.

## 15. Running it

`tlc -config MCScheduler_core.cfg MCScheduler` and likewise for the other
configurations; the longest (`command_core`, `networks_core`) take two to three minutes on two
workers. `tlapm SchedulerProofs.tla` and likewise for the other modules named
`...Proofs` check the proofs.
