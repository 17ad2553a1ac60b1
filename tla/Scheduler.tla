------------------------------ MODULE Scheduler ------------------------------
(***************************************************************************)
(* The job scheduler of core/infra/scheduler.go: SchedulerManager, one     *)
(* goroutine per ScheduledJob, the task goroutine of every execution, and  *)
(* the records the jobs keep in the key-value store so that a restarted    *)
(* server can recover them.                                                *)
(*                                                                         *)
(* A job has three copies of its state: the object in memory (job), the    *)
(* record in the store (store, meaningful for the keys in stored), and the *)
(* snapshot saveJobToStore reads, without the job's lock, before its Put   *)
(* (snap).  API calls are serialised by SchedulerManager.mu; deletion is   *)
(* the only one whose steps the job's own goroutine can fall between, so   *)
(* it takes two steps and the others one.                                  *)
(*                                                                         *)
(* A crash may come between any two steps; memory is lost, the store is    *)
(* kept.  A call to the store may fail; a Put that fails may still have    *)
(* been applied, which only CreateScheduledJob can tell apart.             *)
(***************************************************************************)
EXTENDS Naturals, FiniteSets

CONSTANTS
    Jobs,           \* job identifiers; an identifier is used for one creation
    Configs,        \* the (type, namespace, connection, prefix, option, flag) tuples
    ConfigOf,       \* the configuration each job was requested with
    MaxConsecutive, \* maxConsecutiveFailures
    MaxExec,        \* bound: no tick is delivered once a job ran this often
    MaxCrashes,     \* bound on server crashes
    MaxFaults       \* bound on failing store calls

ASSUME ConfigAssumption == ConfigOf \in [Jobs -> Configs]
ASSUME BoundAssumption ==
    /\ MaxConsecutive \in Nat \ {0}
    /\ MaxExec \in Nat
    /\ MaxCrashes \in Nat
    /\ MaxFaults \in Nat

VARIABLES
    up,         \* GetSchedulerManager has run in this process
    inMap,      \* keys of SchedulerManager.jobs
    job,        \* the persistable fields of each ScheduledJob object
    ticker,     \* job.ticker: not created yet, running, or stopped
    tick,       \* a tick waits in job.ticker.C
    cancelled,  \* job.ctx is done
    pc,         \* where the job's goroutine is
    snap,       \* what saveJobToStore read for the Put under way
    tasks,      \* execution numbers whose task goroutine still runs
    result,     \* resultChan of the current execution
    timedOut,   \* the execution context passed its deadline
    stopQueue,  \* jobs the deletion under way (it holds sm.mu) has left
    halted,     \* of those, the one job.stop() was called on
    stored,     \* keys present under /scheduledJob/
    store,      \* the record under each key
    created,    \* history: identifiers used up
    deleted,    \* history: jobs whose deletion was carried out
    sincePause, \* history: executions begun since the job was last disabled
    crashes,
    faults

goroutineVars == <<ticker, tick, cancelled, pc, snap>>
taskVars      == <<tasks, result, timedOut>>
apiVars       == <<stopQueue, halted>>
storeVars     == <<stored, store>>
historyVars   == <<created, deleted, sincePause>>
vars == <<up, inMap, job, goroutineVars, taskVars, apiVars, storeVars,
          historyVars, crashes, faults>>

Statuses == {"Scheduled", "Executing", "Stopped"}
PCs == {"none", "spawned", "exec", "saveBegin", "putBegin", "wait",
        "saveEnd", "putEnd", "loop", "done"}

JobRecord == [status : Statuses, enabled : BOOLEAN, autoDisabled : BOOLEAN,
              exec : Nat, succ : Nat, fail : Nat, consec : Nat]

\* The object CreateScheduledJob builds.
FreshJob == [status |-> "Scheduled", enabled |-> TRUE, autoDisabled |-> FALSE,
             exec |-> 0, succ |-> 0, fail |-> 0, consec |-> 0]

Init ==
    /\ up = FALSE
    /\ inMap = {}
    /\ job = [j \in Jobs |-> FreshJob]
    /\ ticker = [j \in Jobs |-> "nil"]
    /\ tick = [j \in Jobs |-> FALSE]
    /\ cancelled = [j \in Jobs |-> FALSE]
    /\ pc = [j \in Jobs |-> "none"]
    /\ snap = [j \in Jobs |-> FreshJob]
    /\ tasks = [j \in Jobs |-> {}]
    /\ result = [j \in Jobs |-> "none"]
    /\ timedOut = [j \in Jobs |-> FALSE]
    /\ stopQueue = {}
    /\ halted = {}
    /\ stored = {}
    /\ store = [j \in Jobs |-> FreshJob]
    /\ created = {}
    /\ deleted = {}
    /\ sincePause = [j \in Jobs |-> 0]
    /\ crashes = 0
    /\ faults = 0

-----------------------------------------------------------------------------
(* The key-value store, as far as a caller sees it. *)

Outcomes == {"ok", "failed", "unknown"}   \* "unknown": an error, yet applied

KvCall(o) ==
    \/ o = "ok" /\ faults' = faults
    \/ o # "ok" /\ faults < MaxFaults /\ faults' = faults + 1

Applied(o) == o # "failed"

PutRecord(j, rec, o) ==
    /\ stored' = IF Applied(o) THEN stored \cup {j} ELSE stored
    /\ store'  = IF Applied(o) THEN [store EXCEPT ![j] = rec] ELSE store

-----------------------------------------------------------------------------
(* Start of the process: schedulerOnce.Do, reached from the first call of   *)
(* the scheduler API, loads every record.  If listing the records fails the *)
(* manager stays up with no jobs.                                           *)

\* Mutant: the interrupted execution keeps its status.
RecoveredAsStored(rec) == rec
Recovered(rec) ==
    [rec EXCEPT !.status = IF rec.status = "Executing" THEN "Scheduled" ELSE rec.status]

LoadJobsFromStore(o) ==
    /\ ~up
    /\ up' = TRUE
    /\ KvCall(o)
    /\ inMap' = IF o = "ok" THEN stored ELSE {}
    /\ job' = [j \in Jobs |-> IF j \in inMap' THEN Recovered(store[j]) ELSE job[j]]
    /\ pc'  = [j \in Jobs |-> IF j \in inMap' /\ store[j].enabled THEN "spawned" ELSE "none"]
    /\ UNCHANGED <<ticker, tick, cancelled, snap, taskVars, apiVars, storeVars,
                   historyVars, crashes>>

Crash ==
    /\ crashes < MaxCrashes
    /\ crashes' = crashes + 1
    /\ up' = FALSE
    /\ inMap' = {}
    /\ job' = [j \in Jobs |-> FreshJob]
    /\ ticker' = [j \in Jobs |-> "nil"]
    /\ tick' = [j \in Jobs |-> FALSE]
    /\ cancelled' = [j \in Jobs |-> FALSE]
    /\ pc' = [j \in Jobs |-> "none"]
    /\ snap' = [j \in Jobs |-> FreshJob]
    /\ tasks' = [j \in Jobs |-> {}]
    /\ result' = [j \in Jobs |-> "none"]
    /\ timedOut' = [j \in Jobs |-> FALSE]
    /\ stopQueue' = {}
    /\ halted' = {}
    /\ sincePause' = [j \in Jobs |-> 0]
    /\ UNCHANGED <<storeVars, created, deleted, faults>>

-----------------------------------------------------------------------------
(* The API.  sm.mu is free exactly when no deletion is under way. *)

ManagerFree == up /\ stopQueue = {}

\* findDuplicateJob's test.
SameConfig(j, k) == ConfigOf[j] = ConfigOf[k]

CreateScheduledJob(j, o) ==
    /\ ManagerFree
    /\ j \notin created
    /\ ~\E k \in inMap : SameConfig(j, k)
    /\ KvCall(o)
    /\ PutRecord(j, FreshJob, o)
    /\ inMap' = IF o = "ok" THEN inMap \cup {j} ELSE inMap
    /\ job' = IF o = "ok" THEN [job EXCEPT ![j] = FreshJob] ELSE job
    /\ pc' = IF o = "ok" THEN [pc EXCEPT ![j] = "spawned"] ELSE pc
    /\ created' = IF Applied(o) THEN created \cup {j} ELSE created
    /\ UNCHANGED <<up, ticker, tick, cancelled, snap, taskVars, apiVars,
                   deleted, sincePause, crashes>>

StopScheduledJob(j) ==
    /\ ManagerFree
    /\ j \in inMap
    /\ stopQueue' = {j}
    /\ UNCHANGED <<up, inMap, job, goroutineVars, taskVars, halted, storeVars,
                   historyVars, crashes, faults>>

\* Mutant: the identifiers of all jobs ever created.
JobsEverCreated == created
JobsToDelete == inMap

StopAllScheduledJobs ==
    /\ ManagerFree
    /\ JobsToDelete # {}
    /\ stopQueue' = JobsToDelete
    /\ UNCHANGED <<up, inMap, job, goroutineVars, taskVars, halted, storeVars,
                   historyVars, crashes, faults>>

\* Mutant: the context is cancelled only together with a ticker.
CancelWithTicker(j) == [cancelled EXCEPT ![j] = ticker[j] # "nil"]
Cancel(j) == [cancelled EXCEPT ![j] = TRUE]

\* job.stop(): the ticker exists only once the goroutine has started.
StopJob(j) ==
    /\ j \in stopQueue
    /\ halted = {}
    /\ halted' = {j}
    /\ ticker' = [ticker EXCEPT ![j] = IF @ = "nil" THEN "nil" ELSE "stopped"]
    /\ tick' = [tick EXCEPT ![j] = FALSE]
    /\ cancelled' = Cancel(j)
    /\ job' = [job EXCEPT ![j].status = "Stopped"]
    /\ UNCHANGED <<up, inMap, pc, snap, taskVars, stopQueue, storeVars,
                   historyVars, crashes, faults>>

\* deleteJobFromStore, whose failure is only logged, then delete(sm.jobs, id).
DeleteJob(j, o) ==
    /\ j \in halted
    /\ KvCall(o)
    /\ stored' = IF Applied(o) THEN stored \ {j} ELSE stored
    /\ store' = IF Applied(o) THEN [store EXCEPT ![j] = FreshJob] ELSE store
    /\ inMap' = inMap \ {j}
    /\ stopQueue' = stopQueue \ {j}
    /\ halted' = {}
    /\ deleted' = deleted \cup {j}
    /\ UNCHANGED <<up, job, goroutineVars, taskVars, created, sincePause,
                   crashes>>

\* Mutant: a job that once existed is still updated.
FoundIfCreated(j) == j \in created
Found(j) == j \in inMap

\* UpdateScheduledJob, and pause and resume, which are calls of it.  An
\* interval below 60 is ignored, so "reset" says one of 60 or more was given;
\* "enabled" is the requested flag, or "keep" when the request has none.
UpdateScheduledJob(j, reset, enabled, o) ==
    /\ ManagerFree
    /\ Found(j)
    /\ LET updated == [job[j] EXCEPT !.enabled = enabled = "on" \/ (enabled = "keep" /\ @)]
       IN  /\ job' = [job EXCEPT ![j] = updated]
           /\ KvCall(o)
           /\ PutRecord(j, updated, o)
    /\ ticker' = [ticker EXCEPT ![j] = IF reset /\ @ # "nil" THEN "running" ELSE @]
    /\ tick' = [tick EXCEPT ![j] = IF reset THEN FALSE ELSE @]
    /\ sincePause' = [sincePause EXCEPT ![j] = IF enabled = "keep" THEN @ ELSE 0]
    /\ UNCHANGED <<up, inMap, cancelled, pc, snap, taskVars, apiVars, created,
                   deleted, crashes>>

-----------------------------------------------------------------------------
(* The job's goroutine: start(), then the select loop around execute(). *)

\* The locked part of start() and the test of Enabled that follows it.
StartLoop(j) ==
    /\ pc[j] = "spawned"
    /\ job' = [job EXCEPT ![j].status = "Scheduled"]
    /\ ticker' = [ticker EXCEPT ![j] = "running"]
    /\ pc' = [pc EXCEPT ![j] = IF job[j].enabled THEN "exec" ELSE "loop"]
    /\ UNCHANGED <<up, inMap, tick, cancelled, snap, taskVars, apiVars,
                   storeVars, historyVars, crashes, faults>>

Tick(j) ==
    /\ ticker[j] = "running"
    /\ ~tick[j]
    /\ job[j].exec < MaxExec
    /\ tick' = [tick EXCEPT ![j] = TRUE]
    /\ UNCHANGED <<up, inMap, job, ticker, cancelled, pc, snap, taskVars, apiVars,
                   storeVars, historyVars, crashes, faults>>

\* Mutant: a tick executes whatever Enabled says.
AfterTickAlways(j) == "exec"
AfterTick(j) == IF job[j].enabled THEN "exec" ELSE "loop"

\* select: the tick.  Enabled is read here and execute() runs afterwards.
LoopTick(j) ==
    /\ pc[j] = "loop"
    /\ tick[j]
    /\ tick' = [tick EXCEPT ![j] = FALSE]
    /\ pc' = [pc EXCEPT ![j] = AfterTick(j)]
    /\ UNCHANGED <<up, inMap, job, ticker, cancelled, snap, taskVars, apiVars,
                   storeVars, historyVars, crashes, faults>>

\* select: job.ctx.Done().
LoopExit(j) ==
    /\ pc[j] = "loop"
    /\ cancelled[j]
    /\ pc' = [pc EXCEPT ![j] = "done"]
    /\ UNCHANGED <<up, inMap, job, ticker, tick, cancelled, snap, taskVars, apiVars,
                   storeVars, historyVars, crashes, faults>>

ExecuteBegin(j) ==
    /\ pc[j] = "exec"
    /\ job' = [job EXCEPT ![j].status = "Executing", ![j].exec = @ + 1]
    /\ sincePause' = [sincePause EXCEPT ![j] = IF job[j].enabled THEN @ ELSE @ + 1]
    /\ pc' = [pc EXCEPT ![j] = "saveBegin"]
    /\ UNCHANGED <<up, inMap, ticker, tick, cancelled, snap, taskVars, apiVars,
                   storeVars, created, deleted, crashes, faults>>

\* saveJobToStore reads the fields without taking job.mu ...
SaveSnapshot(j) ==
    /\ pc[j] \in {"saveBegin", "saveEnd"}
    /\ snap' = [snap EXCEPT ![j] = job[j]]
    /\ pc' = [pc EXCEPT ![j] = IF @ = "saveBegin" THEN "putBegin" ELSE "putEnd"]
    /\ UNCHANGED <<up, inMap, job, ticker, tick, cancelled, taskVars, apiVars,
                   storeVars, historyVars, crashes, faults>>

\* ... and puts what it read; its callers in execute() only log a failure.
\* After the first save the task goroutine starts, under a context derived
\* from job.ctx with a deadline.
PutSnapshot(j, o) ==
    /\ pc[j] \in {"putBegin", "putEnd"}
    /\ KvCall(o)
    /\ PutRecord(j, snap[j], o)
    /\ \/ /\ pc[j] = "putBegin"
          /\ pc' = [pc EXCEPT ![j] = "wait"]
          /\ tasks' = [tasks EXCEPT ![j] = @ \cup {job[j].exec}]
       \/ /\ pc[j] = "putEnd"
          /\ pc' = [pc EXCEPT ![j] = "loop"]
          /\ UNCHANGED tasks
    /\ snap' = [snap EXCEPT ![j] = FreshJob]
    /\ UNCHANGED <<up, inMap, job, ticker, tick, cancelled, result, timedOut,
                   apiVars, historyVars, crashes>>

Deadline(j) ==
    /\ pc[j] = "wait"
    /\ ~timedOut[j]
    /\ timedOut' = [timedOut EXCEPT ![j] = TRUE]
    /\ UNCHANGED <<up, inMap, job, goroutineVars, tasks, result, apiVars,
                   storeVars, historyVars, crashes, faults>>

\* Mutant: the execution context has no deadline.
ContextCancelled(j) == cancelled[j]
ContextDone(j) == cancelled[j] \/ timedOut[j]

\* The task works without looking at its context.  When it ends, the result
\* goes into the execution's buffered channel; with the context done the
\* select may discard it instead.  Nobody reads an earlier execution's channel.
TaskEnd(j, n, r) ==
    /\ n \in tasks[j]
    /\ tasks' = [tasks EXCEPT ![j] = @ \ {n}]
    /\ \/ /\ pc[j] = "wait" /\ n = job[j].exec
          /\ result' = [result EXCEPT ![j] = r]
       \/ /\ ~(pc[j] = "wait" /\ n = job[j].exec) \/ ContextDone(j)
          /\ UNCHANGED result
    /\ UNCHANGED <<up, inMap, job, goroutineVars, timedOut, apiVars, storeVars,
                   historyVars, crashes, faults>>

\* The completion update of execute(), under job.mu.
\* Mutants: a failure that is not counted, a job that is disabled again by its
\* first failure after a resume, and a success that leaves the streak.
RecordFailureUncounted(rec) ==
    LET disable == rec.consec + 1 >= MaxConsecutive /\ ~rec.autoDisabled
    IN  [rec EXCEPT !.status = "Scheduled", !.consec = @ + 1,
                    !.enabled = @ /\ ~disable, !.autoDisabled = @ \/ disable]
RecordFailureAgain(rec) ==
    LET disable == rec.consec + 1 >= MaxConsecutive
    IN  [rec EXCEPT !.status = "Scheduled", !.fail = @ + 1, !.consec = @ + 1,
                    !.enabled = @ /\ ~disable, !.autoDisabled = @ \/ disable]
RecordFailure(rec) ==
    LET disable == rec.consec + 1 >= MaxConsecutive /\ ~rec.autoDisabled
    IN  [rec EXCEPT !.status = "Scheduled", !.fail = @ + 1, !.consec = @ + 1,
                    !.enabled = @ /\ ~disable, !.autoDisabled = @ \/ disable]

RecordSuccess(rec) ==
    [rec EXCEPT !.status = "Scheduled", !.succ = @ + 1, !.consec = 0,
                !.autoDisabled = FALSE]

\* Auto-disabling also stops the ticker.
StopsTicker(rec) == rec.consec + 1 >= MaxConsecutive /\ ~rec.autoDisabled

\* The execution's channel and context are left behind.
LeaveExecution(j) ==
    /\ pc' = [pc EXCEPT ![j] = "saveEnd"]
    /\ result' = [result EXCEPT ![j] = "none"]
    /\ timedOut' = [timedOut EXCEPT ![j] = FALSE]

AwaitSuccess(j) ==
    /\ pc[j] = "wait"
    /\ result[j] = "ok"
    /\ job' = [job EXCEPT ![j] = RecordSuccess(@)]
    /\ LeaveExecution(j)
    /\ UNCHANGED <<up, inMap, ticker, tick, cancelled, snap, tasks, apiVars,
                   storeVars, historyVars, crashes, faults>>

AwaitFailure(j) ==
    /\ pc[j] = "wait"
    /\ result[j] = "err" \/ ContextDone(j)
    /\ job' = [job EXCEPT ![j] = RecordFailure(@)]
    /\ ticker' = [ticker EXCEPT ![j] = IF StopsTicker(job[j]) THEN "stopped" ELSE @]
    /\ tick' = [tick EXCEPT ![j] = @ /\ ~StopsTicker(job[j])]
    /\ LeaveExecution(j)
    /\ UNCHANGED <<up, inMap, cancelled, snap, tasks, apiVars, storeVars,
                   historyVars, crashes, faults>>

-----------------------------------------------------------------------------

SaveOutcomes == {"ok", "failed"}

Api ==
    \/ \E o \in SaveOutcomes : LoadJobsFromStore(o)
    \/ StopAllScheduledJobs
    \/ \E j \in Jobs :
          \/ \E o \in Outcomes : CreateScheduledJob(j, o)
          \/ StopScheduledJob(j)
          \/ StopJob(j)
          \/ \E o \in SaveOutcomes : DeleteJob(j, o)
          \/ \E reset \in BOOLEAN, enabled \in {"keep", "on", "off"}, o \in SaveOutcomes :
                UpdateScheduledJob(j, reset, enabled, o)

Goroutine(j) ==
    \/ StartLoop(j)
    \/ LoopTick(j)
    \/ LoopExit(j)
    \/ ExecuteBegin(j)
    \/ SaveSnapshot(j)
    \/ \E o \in SaveOutcomes : PutSnapshot(j, o)
    \/ AwaitSuccess(j)
    \/ AwaitFailure(j)

Environment(j) ==
    \/ Tick(j)
    \/ Deadline(j)
    \/ \E n \in tasks[j], r \in {"ok", "err"} : TaskEnd(j, n, r)

Next == Api \/ Crash \/ \E j \in Jobs : Goroutine(j) \/ Environment(j)

\* Every goroutine runs on, deadlines pass, and a deletion that was begun goes
\* on.  select picks at random among ready cases, so the exit case that is
\* ready again and again is taken: strong fairness.  Nothing says that a task
\* ever ends, that a client ever calls, or that the ticker ticks.
Fairness ==
    /\ \A j \in Jobs : WF_vars(Goroutine(j)) /\ WF_vars(Deadline(j)) /\ SF_vars(LoopExit(j))
    /\ \A j \in Jobs : WF_vars(StopJob(j)) /\ WF_vars(\E o \in SaveOutcomes : DeleteJob(j, o))

Spec == Init /\ [][Next]_vars
FairSpec == Spec /\ Fairness
-----------------------------------------------------------------------------
(* Properties. *)

KeyType ==
    /\ inMap \subseteq created /\ stored \subseteq created
    /\ deleted \subseteq created /\ created \subseteq Jobs
    /\ halted \subseteq stopQueue /\ stopQueue \subseteq inMap
ControlType ==
    /\ pc \in [Jobs -> PCs]
    /\ ticker \in [Jobs -> {"nil", "running", "stopped"}]
    /\ result \in [Jobs -> {"none", "ok", "err"}]
FlagType ==
    /\ up \in BOOLEAN
    /\ tick \in [Jobs -> BOOLEAN]
    /\ cancelled \in [Jobs -> BOOLEAN]
    /\ timedOut \in [Jobs -> BOOLEAN]
RecordType ==
    /\ job \in [Jobs -> JobRecord]
    /\ snap \in [Jobs -> JobRecord]
    /\ store \in [Jobs -> JobRecord]
CountType ==
    /\ tasks \in [Jobs -> SUBSET Nat]
    /\ sincePause \in [Jobs -> Nat]
    /\ crashes \in Nat /\ faults \in Nat

TypeOK == KeyType /\ ControlType /\ FlagType /\ RecordType /\ CountType

Executing(j) == pc[j] \in {"saveBegin", "putBegin", "wait"}
InFlight(j) == IF Executing(j) THEN 1 ELSE 0

\* The failure streak and the auto-disabled flag tell the same story in every
\* copy of a job, so a job recovered from any record, however old, is neither
\* disabled without cause nor left running past the limit (scheduler.go:743).
StreakMatchesFlag(rec) == rec.autoDisabled <=> rec.consec >= MaxConsecutive
AutoDisableConsistent ==
    \A j \in Jobs : /\ StreakMatchesFlag(job[j])
                    /\ StreakMatchesFlag(snap[j])
                    /\ StreakMatchesFlag(store[j])

\* Every execution that began is accounted for as a success or a failure,
\* except the one in flight and at most one lost to each crash of the server.
Balanced(rec, least, most) ==
    /\ rec.succ + rec.fail + least <= rec.exec
    /\ rec.exec <= rec.succ + rec.fail + most
ExecutionsAccounted ==
    \A j \in Jobs : /\ Balanced(job[j], InFlight(j), InFlight(j) + crashes)
                    /\ Balanced(store[j], 0, crashes + 1)

\* After a job has been disabled, by a pause or by its failures, at most the
\* execution its goroutine had already decided on begins.
PauseTakesEffect == \A j \in Jobs : sincePause[j] <= 1

\* A task that outlives its execution belongs to one that was counted as a
\* failure: there are never more stray tasks than failures.
StrayTasks(j) == IF pc[j] = "wait" THEN tasks[j] \ {job[j].exec} ELSE tasks[j]
StrayTasksAreFailures == \A j \in Jobs : Cardinality(StrayTasks(j)) <= job[j].fail

\* No job shows Executing unless its goroutine is inside execute(), whatever
\* the record it was recovered from said.
ExecutingIsLive == \A j \in Jobs : job[j].status = "Executing" => Executing(j)

\* Once a deleted job's record is gone and its goroutine can no longer run an
\* execution, no step brings the record back.
Quiet(j) == \/ pc[j] \in {"none", "done"}
            \/ pc[j] = "loop" /\ cancelled[j] /\ ticker[j] = "stopped"
GoneForGood ==
    [][\A j \in deleted : j \notin stored /\ Quiet(j) => j \notin stored']_vars

\* Deletion ends the job's goroutine, even when it falls into an execution or
\* comes before the goroutine has started (a record that came back and was
\* recovered makes the job a live one again).
DeletionEndsLoop ==
    \A j \in Jobs : (j \in deleted \ inMap) ~> (pc[j] \in {"none", "done"} \/ j \in inMap)

\* Every execution ends for its goroutine, even when its task never does.
ExecutionEnds == \A j \in Jobs : (pc[j] = "wait") ~> (pc[j] # "wait")

\* The scheduler keeps the promises of JobRuns: to a client it is a service whose
\* executions begin and end one after the other, stop when the job is paused or
\* its failures make a series of MaxConsecutive, and are all accounted for.
Runs == INSTANCE JobRuns WITH
    Limit   <- MaxConsecutive,
    enabled <- [j \in Jobs |-> job[j].enabled],
    running <- [j \in Jobs |-> Executing(j)],
    late    <- sincePause,
    begun   <- [j \in Jobs |-> job[j].exec],
    ended   <- [j \in Jobs |-> job[j].succ + job[j].fail],
    streak  <- [j \in Jobs |-> job[j].consec]
RunsAsPromised == Runs!Spec

-----------------------------------------------------------------------------
(* What the comments and the guide say, and the program does not keep. *)

\* interface/rest/server/infra/schedule.go:273 "Cannot be recovered after
\* deletion": the record of a deleted job stays deleted.
DeletedStaysDeleted == [][\A j \in deleted : j \notin stored => j \notin stored']_vars

\* schedule.go "sets enabled=true and restarts the job scheduler": an enabled
\* job has a goroutine, and while that waits its ticker runs.
EnabledIsScheduled ==
    \A j \in inMap \ stopQueue :
        job[j].enabled => pc[j] # "none" /\ (pc[j] = "loop" => ticker[j] = "running")

\* docs/feature_guide/existing-csp-res-job-scheduler.md Q7 "Next execution waits
\* until previous execution completes": a job has one task at a time.
OneTaskAtATime == \A j \in inMap \ stopQueue : Cardinality(tasks[j]) <= 1

\* scheduler.go:489 "Persist updated job to kvstore": while nothing is being
\* saved, the stored record carries the flag the job has in memory.
PausePersisted ==
    \A j \in inMap \cap stored :
        pc[j] = "loop" => store[j].enabled = job[j].enabled

\* scheduler.go:231 "marking as failed": outside an execution, every execution
\* was a success or a failure.
InterruptedCountsAsFailed ==
    \A j \in inMap : ~Executing(j) => job[j].exec = job[j].succ + job[j].fail
=============================================================================
